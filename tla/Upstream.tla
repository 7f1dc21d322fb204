------------------------------- MODULE Upstream --------------------------------
(***************************************************************************)
(* What the gateways make of an answer: PostgREST, Supabase Auth, the      *)
(* model and the photo hosts all speak HTTP, and every gateway turns what  *)
(* came back, or did not, into a usable value or into the status this API  *)
(* answers with.  A body is reduced to what the gateways check of it.      *)
(***************************************************************************)
EXTENDS Integers, Sequences

\* A time-out or a transport error; then one status of each class told apart.
Lost == 0
Statuses == {Lost, 200, 204, 302, 401, 404, 429, 500}

Answered(Bodies) == [status : Statuses, body : Bodies]

Transient(r) == r.status \in {Lost, 429} \/ r.status >= 500

\* 503 for what may pass, 502 for what cannot be used.
ReadStatus(r, usable) ==
  IF Transient(r) THEN 503 ELSE IF r.status # 200 \/ ~usable THEN 502 ELSE 200
-----------------------------------------------------------------------------
(* PostgREST.  One row that does not validate spoils them all, except in   *)
(* the reads whose failure only costs an optional signal.                  *)

RowBodies == {"rows", "malformed"}

CatalogueStatus(r) == ReadStatus(r, r.body = "rows")

\* An unreachable or unreadable directory is an empty one.
DirectoryRows(r, rows) == IF r.status = 200 /\ r.body = "rows" THEN rows ELSE {}
-----------------------------------------------------------------------------
(* Supabase Auth: only a refusal blames the token, never a bad answer.     *)

UserBodies == {"user", "malformed"}

AuthStatus(r) ==
  IF r.status = 200 THEN IF r.body = "user" THEN 200 ELSE 503
  ELSE IF r.status \in 400 .. 499 /\ r.status # 429 THEN 401 ELSE 503
-----------------------------------------------------------------------------
(* The model: the first candidate's parts, and nothing of one that is      *)
(* blocked, filtered or cut short.                                         *)

\* An object may come in two text parts; of pictures the first one counts.
Parts == {<<>>, <<"object">>, <<"head", "tail">>, <<"head">>, <<"prose">>, <<"prose", "picture">>,
          <<"broken picture", "picture">>}

ModelBodies == [blocked : BOOLEAN, finish : {"none", "STOP", "MAX_TOKENS"}, parts : Parts]

CandidateParts(body) ==
  IF body.blocked \/ body.finish \notin {"none", "STOP"} THEN <<>> ELSE body.parts

\* The texts together are one JSON object.
IsObject(parts) ==
  SelectSeq(parts, LAMBDA p : p \in {"object", "head", "tail", "prose"})
    \in {<<"object">>, <<"head", "tail">>}

\* A text alone means the model declined to draw.
IsPicture(parts) ==
  LET pictures == SelectSeq(parts, LAMBDA p : p \in {"picture", "broken picture"})
  IN  pictures # <<>> /\ pictures[1] = "picture"

ModelStatus(r) == ReadStatus(r, IsObject(CandidateParts(r.body)))
ImageStatus(r) == ReadStatus(r, IsPicture(CandidateParts(r.body)))
-----------------------------------------------------------------------------
(* A product's photo: redirects are followed one by one, each address      *)
(* checked again, and only so many.                                        *)

MAX_REDIRECTS == 3

\* Whether the address is an allowed one, and what it answers.
Hops == [allowed : BOOLEAN,
         answer : {"lost", "error", "nowhere", "other type", "too large", "empty", "redirect", "picture"}]

Fetched(hops) ==
  \E n \in 1 .. Len(hops) :
    /\ n <= MAX_REDIRECTS + 1
    /\ hops[n].answer = "picture"
    /\ \A i \in 1 .. n : hops[i].allowed
    /\ \A i \in 1 .. n - 1 : hops[i].answer = "redirect"

\* Up to one redirect more than is followed.
Chains == {Append([i \in 1 .. n |-> [allowed |-> TRUE, answer |-> "redirect"]], last) :
             n \in 0 .. MAX_REDIRECTS + 1, last \in Hops}
-----------------------------------------------------------------------------
(* The ways each of them can fail a call.                                  *)

AuthFailures == {AuthStatus(r) : r \in Answered(UserBodies)} \ {200}
CatalogueFailures == {CatalogueStatus(r) : r \in Answered(RowBodies)} \ {200}
ModelFailures == {ModelStatus(r) : r \in Answered(ModelBodies)} \ {200}
ImageFailures == {ImageStatus(r) : r \in Answered(ModelBodies)} \ {200}
=============================================================================
