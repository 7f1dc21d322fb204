------------------------------ MODULE ModelCalls -------------------------------
(***************************************************************************)
(* The endpoints that spend money: one call of search, room plan, room     *)
(* preview, service triage or furnishing brief goes through the rate       *)
(* limiter, the caches of core/cache.py, the model, the catalogue and the  *)
(* customer's taste profile.  The server is one event loop: what a handler *)
(* does between two awaits is one step here, and every answer to an await  *)
(* is an action of its own, so that calls interleave exactly there.        *)
(*                                                                         *)
(* What the answers are made into (ranking, plans, comparisons) is the     *)
(* subject of Answers; here a value only remembers what it was made from.  *)
(***************************************************************************)
EXTENDS RateLimiter, Upstream, SequencesExt

CONSTANTS Calls,                \* the calls a run may see, each made once
          Asks, Blank,          \* sentences with their history and limit
          Products, Colours, NoColour, ColoursOf,
          PhotosOf,             \* the colour of every photo of a product, the primary first
          Requests,             \* what a customer may send
          Services, NoUser, TTLS,
          MAX_PARSES, MAX_IMAGES,
          MaxNow, MaxEvents     \* bounds: the clock; requests and outside edits together

Kinds == {"search", "room_plan", "room_image", "service", "furnishing"}

Bucket(kind) == IF kind \in {"service", "furnishing"} THEN "intake" ELSE kind

ASSUME BucketsCoverKinds == \A kind \in Kinds : Bucket(kind) \in Buckets

\* One product of a preview, as the client lists it.
Items == [product : Products, colour : Colours \cup {NoColour}, quantity : Nat \ {0}]

\* A sentence for a kind that reads one, or the items of a preview.
ASSUME RequestsAreValid ==
  Requests \subseteq [kind : Kinds \ {"room_image"}, ask : Asks \cup {Blank}]
    \cup [kind : {"room_image"}, ask : Seq(Items) \ {<<>>}]

ASSUME PhotosAreOrdered == PhotosOf \in [Products -> Seq(Colours \cup {NoColour})]

ASSUME CachesHoldSomething == MAX_PARSES \in Nat \ {0} /\ MAX_IMAGES \in Nat \ {0}

VARIABLES calls,      \* every open call's progress
          happened,   \* how many requests and outside edits there have been
          parses,     \* the cache of everything but pictures, least recent first
          images,     \* the cache of pictures
          visible,    \* the products each customer may see and that are for sale
          look,       \* the version of each product's name and photos
          active,     \* the service types the directory lists
          config      \* what the settings turned on at startup

world == <<visible, look, active, config>>
vars == <<limiterVars, calls, happened, parses, images, world>>
-----------------------------------------------------------------------------
(* The caches: sequences of entries [key, at, value], the least recently   *)
(* used first.  cache_key hashes its parts unambiguously: a key is the     *)
(* tuple of them.                                                          *)

Caching == config.ttl > 0

\* The cache without its entry of that key, if there is one.
Others(cache, key) ==
  LET Places == {i \in 1 .. Len(cache) : cache[i].key = key}
  IN  IF Places = {} THEN cache ELSE RemoveAt(cache, CHOOSE i \in Places : TRUE)

Entries(cache, key) == {cache[i] : i \in {j \in 1 .. Len(cache) : cache[j].key = key}}

FreshEntries(cache, key) == {e \in Entries(cache, key) : now - e.at < config.ttl}

CacheGet_Restamping(cache, key) ==
  IF FreshEntries(cache, key) = {} THEN Others(cache, key)
  ELSE Append(Others(cache, key), [(CHOOSE e \in FreshEntries(cache, key) : TRUE) EXCEPT !.at = now])

\* get: an expired entry is deleted, a fresh one becomes the most recent.
CacheGet(cache, key) ==
  IF FreshEntries(cache, key) = {} THEN Others(cache, key)
  ELSE Append(Others(cache, key), CHOOSE e \in FreshEntries(cache, key) : TRUE)

CachePut_Twice(cache, key, value, max) ==
  IF ~Caching THEN cache
  ELSE LET all == Append(cache, [key |-> key, at |-> now, value |-> value])
       IN  SubSeq(all, IF Len(all) > max THEN Len(all) - max + 1 ELSE 1, Len(all))

\* put: the entry is replaced, and the least recent leave a full cache.
CachePut(cache, key, value, max) ==
  IF ~Caching THEN cache
  ELSE LET all == Append(Others(cache, key), [key |-> key, at |-> now, value |-> value])
       IN  SubSeq(all, IF Len(all) > max THEN Len(all) - max + 1 ELSE 1, Len(all))

\* What get returns, when it is of the sort the endpoint expects.
Cached(cache, key, sort) ==
  {v \in {e.value : e \in FreshEntries(cache, key)} : Caching /\ v.sort = sort}

ParseKey(kind, ask) == <<kind, ask>>
ServiceKey_NoIds(offered, ask) == <<"service", ask>>
ServiceKey(offered, ask) == <<"service", offered, ask>>
ImageKey(pieces, photos) == <<"room_image", pieces, photos>>
TasteKey(user) == <<"taste", user>>
-----------------------------------------------------------------------------
(* Steps of a call.  used: the model answers and profiles its reply rests  *)
(* on, with the time each was taken.                                       *)

NoCall == [stage |-> "idle", kind |-> "none", user |-> NoUser, ask |-> Blank, todo |-> <<>>,
           version |-> 0, pieces |-> <<>>, photos |-> <<>>, offered |-> {}, used |-> {}, status |-> 0]

Set(c, call) == calls' = [calls EXCEPT ![c] = call]

Replied(call, status) == [call EXCEPT !.stage = "done", !.status = status, !.todo = <<>>]

Reply(c, status) == Set(c, Replied(calls[c], status))

Using(call, value) == [call EXCEPT !.used = @ \cup {[value |-> value, at |-> now]}]

At(c, stage) == calls[c].stage = stage

Happens == happened < MaxEvents /\ happened' = happened + 1

\* The reply is sent.  Nothing happens between a call's last step and this
\* one: it only lets the reply be looked at.
Leave(c) == /\ At(c, "done")
            /\ Set(c, NoCall)
            /\ UNCHANGED <<limiterVars, happened, parses, images, world>>

\* A request whose token Supabase Auth has just answered about: nothing the
\* calls share is read before that.
Arrives(c) == At(c, "idle") /\ Happens

NewCall(u, r) == [NoCall EXCEPT !.kind = r.kind, !.user = u, !.ask = r.ask]

\* Auth refuses the token (401) or cannot verify it (503).
RefuseToken(c, u, r) == /\ Arrives(c)
                        /\ \E status \in AuthFailures : Set(c, Replied(NewCall(u, r), status))
                        /\ UNCHANGED <<limiterVars, parses, images, world>>

\* No model is configured: refused before the limiter counts anything.
NoProvider(c, u, r) == /\ Arrives(c) /\ ~config.provider
                       /\ Set(c, Replied(NewCall(u, r), 503))
                       /\ UNCHANGED <<limiterVars, parses, images, world>>

OverLimit(c, u, r) == /\ Arrives(c) /\ config.provider
                      /\ Refuse(<<u, Bucket(r.kind)>>)
                      /\ Set(c, Replied(NewCall(u, r), 429))
                      /\ UNCHANGED <<parses, images, world>>

\* The same product listed twice is one piece with a larger quantity, in the
\* first colour asked for; the pieces keep the order of their first mention.
Merged(items) ==
  LET firsts == {i \in 1 .. Len(items) : \A j \in 1 .. i - 1 : items[j].product # items[i].product}
      Nth(n) == CHOOSE i \in firsts : Cardinality({j \in firsts : j <= i}) = n
      Total(p) == MapThenSumSet(LAMBDA i : items[i].quantity,
                                {i \in 1 .. Len(items) : items[i].product = p})
  IN  [n \in 1 .. Cardinality(firsts) |->
         [items[Nth(n)] EXCEPT !.quantity = Total(items[Nth(n)].product)]]

\* What follows the parsed sentence: the catalogue, or the reply itself.
AfterParse(call) ==
  IF call.kind \in {"search", "room_plan"} THEN [call EXCEPT !.stage = "catalogue"]
  ELSE Replied(call, 200)

\* A kind whose answer depends on the sentence alone looks in the cache first;
\* a blank sentence that is not there is refused without a model call.
ReadParse(c, call, key, sort) ==
  LET found == Cached(parses, key, sort) IN
  /\ parses' = IF Caching THEN CacheGet(parses, key) ELSE parses
  /\ \/ \E v \in found : Set(c, AfterParse(Using(call, v)))
     \/ found = {} /\ call.ask = Blank /\ Set(c, Replied(call, 422))
     \/ found = {} /\ call.ask # Blank /\ Set(c, [call EXCEPT !.stage = "model"])

\* Authenticated and admitted: the handler runs to its first await.
EnterWithSentence(c, u, r) ==
  /\ Arrives(c) /\ config.provider /\ r.kind \in {"search", "room_plan", "furnishing"}
  /\ Admit(<<u, Bucket(r.kind)>>)
  /\ ReadParse(c, NewCall(u, r), ParseKey(r.kind, r.ask), r.kind)
  /\ UNCHANGED <<images, world>>

EnterService(c, u, r) ==
  /\ Arrives(c) /\ config.provider /\ r.kind = "service"
  /\ Admit(<<u, Bucket(r.kind)>>)
  /\ Set(c, [NewCall(u, r) EXCEPT !.stage = "directory"])
  /\ UNCHANGED <<parses, images, world>>

EnterImage(c, u, r) ==
  /\ Arrives(c) /\ config.provider /\ r.kind = "room_image"
  /\ Admit(<<u, Bucket(r.kind)>>)
  /\ Set(c, [NewCall(u, r) EXCEPT !.stage = "product", !.todo = Merged(r.ask)])
  /\ UNCHANGED <<parses, images, world>>

\* The directory answers; unreachable and empty are the same to the caller.
DirectoryAnswers(c) ==
  /\ At(c, "directory")
  /\ \E offered \in {DirectoryRows(r, active) : r \in Answered(RowBodies)} :
       \/ offered = {} /\ Reply(c, 503) /\ UNCHANGED parses
       \/ /\ offered # {}
          /\ ReadParse(c, [calls[c] EXCEPT !.offered = offered],
                       ServiceKey(offered, calls[c].ask), "service")
  /\ UNCHANGED <<limiterVars, images, world, happened>>

\* The model's answer is validated, kept and used in one step.
ModelAnswers(c) ==
  LET call == calls[c]
      value == [sort |-> call.kind, ask |-> call.ask, offered |-> call.offered, made |-> now]
      key == IF call.kind = "service" THEN ServiceKey(call.offered, call.ask)
             ELSE ParseKey(call.kind, call.ask)
  IN  /\ At(c, "model")
      /\ parses' = CachePut(parses, key, value, MAX_PARSES)
      /\ Set(c, AfterParse(Using(call, value)))
      /\ UNCHANGED <<limiterVars, images, world, happened>>

Failures(stage) == IF stage = "model" THEN ModelFailures
                   ELSE IF stage = "image" THEN ImageFailures ELSE CatalogueFailures

\* Unavailable or rate limited upstream is a 503, an unusable answer a 502;
\* the catalogue's failures map the same way.  Nothing is kept.
UpstreamFails(c) ==
  /\ calls[c].stage \in {"model", "catalogue", "product", "image"}
  /\ \E status \in Failures(calls[c].stage) : Reply(c, status)
  /\ UNCHANGED <<limiterVars, parses, images, world, happened>>

\* A plan is made from the products; a search first wants the taste profile.
CatalogueAnswers(c) ==
  /\ At(c, "catalogue")
  /\ IF calls[c].kind = "room_plan" THEN Reply(c, 200) /\ UNCHANGED parses
     ELSE LET key == TasteKey(calls[c].user)
              found == Cached(parses, key, "taste")
          IN  /\ parses' = IF Caching THEN CacheGet(parses, key) ELSE parses
              /\ \/ \E v \in found : Set(c, Replied(Using(calls[c], v), 200))
                 \/ found = {} /\ Set(c, [calls[c] EXCEPT !.stage = "history"])
  /\ UNCHANGED <<limiterVars, images, world, happened>>

\* The profile is kept whatever became of it: useful, empty or failed.
KeepTaste(c) ==
  LET value == [sort |-> "taste", user |-> calls[c].user, made |-> now]
  IN  /\ parses' = CachePut(parses, TasteKey(calls[c].user), value, MAX_PARSES)
      /\ Set(c, Replied(Using(calls[c], value), 200))

\* Too few distinct purchases, or a failed read: nothing to look up.
HistoryAnswers(c) ==
  /\ At(c, "history")
  /\ \/ KeepTaste(c)
     \/ Set(c, [calls[c] EXCEPT !.stage = "lookup"]) /\ UNCHANGED parses
  /\ UNCHANGED <<limiterVars, images, world, happened>>

\* The purchased products arrive, or the read fails and none do.
PurchasesAnswer(c) ==
  /\ At(c, "lookup")
  /\ KeepTaste(c)
  /\ UNCHANGED <<limiterVars, images, world, happened>>
-----------------------------------------------------------------------------
(* The preview: each product is looked up again under the caller's token,  *)
(* then its photo is fetched.                                              *)

\* The colour asked for, if the product really has it.
ColourOf(item) == IF item.colour \in ColoursOf[item.product] THEN item.colour ELSE NoColour

\* The photo shown: the first of that colour when there is one, else the primary.
Photo(p, version, colour) ==
  LET own == {i \in 1 .. Len(PhotosOf[p]) : colour # NoColour /\ PhotosOf[p][i] = colour}
  IN  <<p, version, IF own = {} THEN 1 ELSE Min(own)>>

PieceOf_ByPlace(call, number) ==
  LET item == Head(call.todo) IN
  [product |-> item.product, version |-> call.version, colour |-> ColourOf(item),
   quantity |-> item.quantity, photo |-> IF number = 0 THEN 0 ELSE Len(call.pieces) + 1]

PieceOf(call, number) ==
  LET item == Head(call.todo) IN
  [product |-> item.product, version |-> call.version, colour |-> ColourOf(item),
   quantity |-> item.quantity, photo |-> number]

\* One more piece; after the last, the cache of pictures is asked under the
\* exact prompt and photos.
AddPiece(c, call, piece, photos) ==
  LET next == [call EXCEPT !.stage = "product", !.todo = Tail(@),
                           !.pieces = Append(@, piece), !.photos = photos]
      key == ImageKey(next.pieces, photos)
      found == Cached(images, key, "room_image")
  IN  IF next.todo # <<>> THEN Set(c, next) /\ UNCHANGED images
      ELSE /\ images' = IF Caching THEN CacheGet(images, key) ELSE images
           /\ \/ \E v \in found : Set(c, Replied(Using(next, v), 200))
              \/ found = {} /\ Set(c, [next EXCEPT !.stage = "image"])

\* A product that is gone, hidden from the caller or not for sale ends it all.
ProductHidden(c) ==
  /\ At(c, "product") /\ Head(calls[c].todo).product \notin visible[calls[c].user]
  /\ Reply(c, 404)
  /\ UNCHANGED <<limiterVars, parses, images, world, happened>>

\* The row's version is what the photo and the prompt will be made from.  A
\* product without photos is a piece at once, without a number.
ProductSeen(c) ==
  LET p == Head(calls[c].todo).product
      seen == [calls[c] EXCEPT !.version = look[p]]
  IN  /\ At(c, "product") /\ p \in visible[calls[c].user]
      /\ \/ PhotosOf[p] # <<>> /\ Set(c, [seen EXCEPT !.stage = "photo"]) /\ UNCHANGED images
         \/ PhotosOf[p] = <<>> /\ AddPiece(c, seen, PieceOf(seen, 0), seen.photos)
      /\ UNCHANGED <<limiterVars, parses, world, happened>>

\* A photo that cannot be fetched is skipped: its piece has no number (0).
PhotoAnswers(c) ==
  LET call == calls[c]
      item == Head(call.todo)
      photos == Append(call.photos, Photo(item.product, call.version, ColourOf(item)))
  IN  /\ At(c, "photo")
      /\ \E fetched \in {Fetched(hops) : hops \in Chains} :
           \/ fetched /\ AddPiece(c, call, PieceOf(call, Len(photos)), photos)
           \/ ~fetched /\ AddPiece(c, call, PieceOf(call, 0), call.photos)
      /\ UNCHANGED <<limiterVars, parses, world, happened>>

ImageAnswers(c) ==
  LET call == calls[c]
      value == [sort |-> "room_image", pieces |-> call.pieces, photos |-> call.photos, made |-> now]
  IN  /\ At(c, "image")
      /\ images' = CachePut(images, ImageKey(call.pieces, call.photos), value, MAX_IMAGES)
      /\ Set(c, Replied(Using(call, value), 200))
      /\ UNCHANGED <<limiterVars, parses, world, happened>>
-----------------------------------------------------------------------------
(* What happens outside: time passes, sellers and administrators edit.     *)

Passes == Tick /\ now < MaxNow /\ UNCHANGED <<calls, happened, parses, images, world>>

Edit == /\ Happens
        /\ UNCHANGED <<limiterVars, calls, parses, images, config>>

Toggled(set, x) == IF x \in set THEN set \ {x} ELSE set \cup {x}

ShowOrHide(u, p) == /\ Edit
                    /\ visible' = [visible EXCEPT ![u] = Toggled(@, p)]
                    /\ UNCHANGED <<look, active>>

ChangeLook(p) == /\ Edit
                 /\ look' = [look EXCEPT ![p] = @ + 1]
                 /\ UNCHANGED <<visible, active>>

ListOrDelist(s) == /\ Edit
                   /\ active' = Toggled(active, s)
                   /\ UNCHANGED <<visible, look>>

Configurations == [provider : BOOLEAN, ttl : TTLS]

\* Empty caches and an empty limiter at startup, under any settings.
Init == /\ LimiterInit
        /\ calls = [c \in Calls |-> NoCall]
        /\ happened = 0
        /\ parses = <<>> /\ images = <<>>
        /\ visible = [u \in Users |-> Products]
        /\ look = [p \in Products |-> 0]
        /\ active = Services
        /\ config \in Configurations

Request(c, u, r) ==
  \/ RefuseToken(c, u, r) \/ NoProvider(c, u, r) \/ OverLimit(c, u, r)
  \/ EnterWithSentence(c, u, r) \/ EnterService(c, u, r) \/ EnterImage(c, u, r)

Handler(c) ==
  \/ DirectoryAnswers(c) \/ ModelAnswers(c) \/ UpstreamFails(c)
  \/ CatalogueAnswers(c) \/ HistoryAnswers(c) \/ PurchasesAnswer(c)
  \/ ProductHidden(c) \/ ProductSeen(c) \/ PhotoAnswers(c) \/ ImageAnswers(c)

Outside == \/ Passes
           \/ \E u \in Users, p \in Products : ShowOrHide(u, p)
           \/ \E p \in Products : ChangeLook(p)
           \/ \E s \in Services : ListOrDelist(s)

Next == \/ \E c \in Calls : Leave(c)
        \/ /\ \A c \in Calls : ~At(c, "done")
           /\ \/ \E c \in Calls, u \in Users, r \in Requests : Request(c, u, r)
              \/ \E c \in Calls : Handler(c)
              \/ Outside

Spec == Init /\ [][Next]_vars
-----------------------------------------------------------------------------
WellFormed(cache, max) ==
  /\ Len(cache) <= max
  /\ \A i, j \in 1 .. Len(cache) : cache[i].key = cache[j].key => i = j
  /\ \A i \in 1 .. Len(cache) : cache[i].at = cache[i].value.made /\ cache[i].at <= now

\* The limiter's table and both caches are well formed: a key is held once,
\* stamped when its value was made, and no cache outgrows its size.
TypeOK ==
  /\ LimiterTypeOK
  /\ \A c \in Calls : calls[c].status \in {0, 200, 401, 404, 422, 429, 502, 503}
  /\ WellFormed(parses, MAX_PARSES) /\ WellFormed(images, MAX_IMAGES)
  /\ ~Caching => parses = <<>> /\ images = <<>>

\* No reply rests on an answer or a profile made a whole time to live before
\* it was used, however often it was used in between.
FreshAnswers ==
  \A c \in Calls : \A a \in calls[c].used :
    a.at > a.value.made => a.at - a.value.made < config.ttl

\* A reply rests on what its own call asked and read, whoever filled the
\* cache: the same sentence for the same endpoint, services the directory
\* listed to this call, a picture of the pieces exactly as this call saw
\* them, photo by photo, and the caller's own purchases.
AnswersFitTheCall ==
  \A c \in Calls : \A a \in calls[c].used :
    LET v == a.value IN
    \/ v.sort = "taste" /\ v.user = calls[c].user
    \/ v.sort = "room_image" /\ v.pieces = calls[c].pieces /\ v.photos = calls[c].photos
    \/ v.sort = calls[c].kind /\ v.ask = calls[c].ask /\ v.offered = calls[c].offered

\* Photos are fetched one after the other and any may fail: the number a
\* piece is described with is that of its own photo, of the colour it is shown
\* in when there is one, and every photo sent belongs to exactly one piece.
PhotosMatchPieces ==
  \A c \in Calls :
    LET pieces == calls[c].pieces
        photos == calls[c].photos
        Numbered == {i \in 1 .. Len(pieces) : pieces[i].photo # 0}
    IN  /\ {pieces[i].photo : i \in Numbered} = 1 .. Len(photos)
        /\ Cardinality(Numbered) = Len(photos)
        /\ \A i \in Numbered : photos[pieces[i].photo]
             = Photo(pieces[i].product, pieces[i].version, pieces[i].colour)
=============================================================================
