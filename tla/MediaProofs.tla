---------------------------- MODULE MediaProofs ----------------------------
(***************************************************************************)
(* Proofs about Media for every number of requests, list of providers and  *)
(* set of paths.                                                           *)
(*                                                                         *)
(* That a request pays once rests on the list of providers it has left:    *)
(* what it has bought so far is not in it (Ledger).  That a URL leads to   *)
(* what was made for it rests on names: a file is at the path of the       *)
(* request it was made for, or is torn by two requests with that path, and *)
(* what was read from it, an object and an upload have the base name of    *)
(* that path (Traces).                                                     *)
(***************************************************************************)
EXTENDS Media, TLAPS

Holding == {"poll", "download", "save", "write", "saved", "put", "push", "ok"}

\* Every provider is asked once: those that remain are not paid yet.
Ledger(r) ==
    /\ IsInjective(reqs[r].left)
    /\ lost[r] \subseteq bought[r]
    /\ reqs[r].phase = "idle" => bought[r] = {}
    /\ reqs[r].phase = "ask" => bought[r] \cap Range(reqs[r].left) = {}
    /\ reqs[r].phase \in Holding =>
          reqs[r].left # <<>> /\ bought[r] \cap Range(Tail(reqs[r].left)) = {}
Ledgers == PaidOnce /\ \A r \in Reqs : Ledger(r)

\* Request q has begun, and its path is l or ends in b.
At(q, l) == q \in Reqs /\ reqs[q].phase # "idle" /\ reqs[q].path = l
EndsIn(q, b) == q \in Reqs /\ reqs[q].phase # "idle" /\ Base(reqs[q].path) = b

\* Two requests write to l, or to a path that ends in b.
TornAt(l) == \E p, q \in Reqs : p # q /\ At(p, l) /\ At(q, l)
TornAs(b) == \E l \in Locations : Base(l) = b /\ TornAt(l)

\* What c may be that was made at l, or at a path that ends in b.
Made(c, l) == At(c, l) \/ (c = Torn /\ TornAt(l))
MadeAs(c, b) == EndsIn(c, b) \/ (c = Torn /\ TornAs(b))

OwnPath == \A r \in Reqs : ~reqs[r].given => reqs[r].path = r
FilesTraced == \A l \in Locations : files[l] \in {None, Torn} \/ At(files[l], l)
SavedTraced ==
    \A r \in Reqs :
        /\ reqs[r].phase = "write" => files[reqs[r].path] = None \/ TornAt(reqs[r].path)
        /\ reqs[r].phase = "saved" =>
              files[reqs[r].path] \notin {None, Torn} \/ TornAt(reqs[r].path)
        /\ reqs[r].phase \in {"put", "push"} => Made(reqs[r].data, reqs[r].path)
ObjectsTraced == \A o \in Objects : objects[o] # None => MadeAs(objects[o], o)
UploadsTraced ==
    \A q \in Reqs : cdn[q] # None =>
        EndsIn(q, Base(reqs[q].path)) /\ MadeAs(cdn[q], Base(reqs[q].path))
UrlsTraced ==
    \A r \in Reqs :
        LET b == Base(reqs[r].path)
            url == reqs[r].url
        IN  /\ url.at = "minio" => url.key = b /\ objects[b] # None
            /\ url.at = "cdn" => EndsIn(url.key, b) /\ cdn[url.key] # None
            /\ reqs[r].phase = "idle" => url = NoUrl
Traces ==
    OwnPath /\ FilesTraced /\ SavedTraced /\ ObjectsTraced /\ UploadsTraced /\ UrlsTraced

IInv == MediaTypeOK /\ Ledgers /\ Traces

-----------------------------------------------------------------------------
(* Lists of providers *)

\* The rest of a list without repetitions is what remains without its head.
LEMMA TailOfInjective ==
  ASSUME NEW S, NEW s \in Seq(S), s # <<>>, IsInjective(s)
  PROVE  /\ Head(s) \in Range(s) /\ Head(s) \in S
         /\ Tail(s) \in Seq(S) /\ IsInjective(Tail(s))
         /\ Range(Tail(s)) = Range(s) \ {Head(s)}
  <1>1. /\ Head(s) = s[1] /\ Head(s) \in S /\ Tail(s) \in Seq(S)
        /\ Len(s) \in Nat \ {0} /\ DOMAIN s = 1..Len(s)
        /\ Len(Tail(s)) = Len(s) - 1 /\ DOMAIN Tail(s) = 1..(Len(s) - 1)
        /\ \A k \in 1..(Len(s) - 1) : Tail(s)[k] = s[k + 1]
    BY SMT
  <1>2. \A a, b \in 1..Len(s) : s[a] = s[b] => a = b
    BY <1>1 DEF IsInjective
  <1>3. IsInjective(Tail(s))
    <2> SUFFICES ASSUME NEW a \in 1..(Len(s) - 1), NEW b \in 1..(Len(s) - 1),
                        Tail(s)[a] = Tail(s)[b]
                 PROVE  a = b
      BY <1>1 DEF IsInjective
    <2>1. a + 1 \in 1..Len(s) /\ b + 1 \in 1..Len(s) /\ s[a + 1] = s[b + 1]
      BY <1>1
    <2> QED
      BY <1>2, <2>1
  <1>4. Range(Tail(s)) = Range(s) \ {Head(s)}
    <2>1. ASSUME NEW k \in 1..(Len(s) - 1) PROVE Tail(s)[k] \in Range(s) \ {Head(s)}
      <3>1. k + 1 \in 1..Len(s) /\ 1 \in 1..Len(s) /\ k + 1 # 1
        BY <1>1
      <3>2. s[k + 1] # s[1]
        BY <1>2, <3>1
      <3> QED
        BY <1>1, <3>1, <3>2 DEF Range
    <2>2. ASSUME NEW k \in 1..Len(s), s[k] # Head(s) PROVE s[k] \in Range(Tail(s))
      <3>1. k - 1 \in 1..(Len(s) - 1) /\ k = (k - 1) + 1
        BY <1>1, <2>2
      <3>2. Tail(s)[k - 1] = s[k]
        BY <1>1, <3>1
      <3> QED
        BY <1>1, <3>1, <3>2 DEF Range
    <2> QED
      BY <1>1, <2>1, <2>2 DEF Range
  <1>5. Head(s) \in Range(s)
    BY <1>1 DEF Range
  <1> QED
    BY <1>1, <1>3, <1>4, <1>5

\* What a request may use is a list of names without repetitions.
LEMMA AllowedIsList ==
  ASSUME NEW kind \in Kinds, NEW forced
  PROVE  Allowed(kind, forced) \in Seq(Names) /\ IsInjective(Allowed(kind, forced))
  <1>1. CASE forced = None
    BY <1>1, MediaAssumption DEF Allowed
  <1>2. CASE forced # None /\ forced \in Range(Providers[kind])
    <2>1. forced \in Names
      BY <1>2 DEF Names
    <2>2. <<forced>> \in Seq(Names) /\ IsInjective(<<forced>>)
      BY <2>1 DEF IsInjective
    <2> QED
      BY <1>2, <2>2 DEF Allowed
  <1>3. CASE forced # None /\ forced \notin Range(Providers[kind])
    <2>1. <<>> \in Seq(Names) /\ IsInjective(<<>>)
      BY DEF IsInjective
    <2> QED
      BY <1>3, <2>1 DEF Allowed
  <1> QED
    BY <1>1, <1>2, <1>3

-----------------------------------------------------------------------------
(* Requests *)

LEMMA RequestFields ==
  ASSUME MediaTypeOK, NEW r \in Reqs
  PROVE  /\ reqs[r] \in Request
         /\ reqs[r].phase \in Phases /\ reqs[r].left \in Seq(Names)
         /\ reqs[r].path \in Locations /\ reqs[r].url \in Url
         /\ reqs[r].polls \in 0..MaxPolls /\ reqs[r].data \in Contents
         /\ reqs[r].given \in BOOLEAN
  BY DEF MediaTypeOK, Request

LEMMA IdleIsRequest ==
  ASSUME NEW r \in Reqs
  PROVE  Idle(r) \in Request
  <1>1. (CHOOSE k \in Kinds : TRUE) \in Kinds
    BY MediaAssumption
  <1>2. 0 \in 0..MaxPolls /\ <<>> \in Seq(Names)
    BY MediaAssumption
  <1>3. NoUrl \in Url
    BY DEF NoUrl, Url
  <1> QED
    BY <1>1, <1>2, <1>3 DEF Idle, Request, Phases, Locations, Contents

\* A generated name is the name of its object.
LEMMA BaseFields ==
  ASSUME NEW l \in Locations
  PROVE  Base(l) \in Objects /\ (l \in Reqs => Base(l) = l)
  BY MediaAssumption DEF Base, Locations, Objects

LEMMA RequestWritten ==
  ASSUME MediaTypeOK, NEW r \in Reqs, NEW t, reqs' = [reqs EXCEPT ![r] = t]
  PROVE  /\ \A q \in Reqs : reqs'[q] = IF q = r THEN t ELSE reqs[q]
         /\ t \in Request => reqs' \in [Reqs -> Request]
  BY DEF MediaTypeOK

-----------------------------------------------------------------------------
(* What is paid *)

\* A result in the making, or the end of the list, changes no ledger.
LEMMA LedgersKeep ==
  ASSUME MediaTypeOK, Ledgers, NEW r \in Reqs, NEW t \in Request,
         reqs' = [reqs EXCEPT ![r] = t], UNCHANGED ledgers, t.left = reqs[r].left,
         \/ reqs[r].phase \in Holding /\ t.phase \in Holding
         \/ reqs[r].phase = "ask" /\ t.phase = "failed"
  PROVE  Ledgers'
  <1>1. \A q \in Reqs : reqs'[q] = IF q = r THEN t ELSE reqs[q]
    BY RequestWritten
  <1>2. bought' = bought /\ lost' = lost
    BY DEF ledgers
  <1>3. PaidOnce'
    <2> SUFFICES ASSUME NEW q \in Reqs
                 PROVE  bought[q] \ lost[q] =
                            IF reqs'[q].phase \in {"idle", "ask", "failed"} THEN {}
                            ELSE {Head(reqs'[q].left)}
      BY <1>2 DEF PaidOnce, Provider
    <2>1. bought[q] \ lost[q] = IF reqs[q].phase \in {"idle", "ask", "failed"} THEN {}
                                ELSE {Head(reqs[q].left)}
      BY DEF Ledgers, PaidOnce, Provider
    <2> QED
      BY <1>1, <2>1 DEF Holding
  <1>4. ASSUME NEW q \in Reqs PROVE Ledger(q)'
    <2>1. Ledger(q)
      BY DEF Ledgers
    <2> QED
      BY <1>1, <1>2, <2>1 DEF Ledger, Holding
  <1> QED
    BY <1>3, <1>4 DEF Ledgers

\* Turning to the next provider, when nothing was bought from this one, when it
\* charged for an answer that never came, when its job is not charged, or when
\* what it took on is lost.
LEMMA LedgersNext ==
  ASSUME MediaTypeOK, Ledgers, NEW r \in Reqs, NEW t \in Request,
         reqs' = [reqs EXCEPT ![r] = t], t.phase = "ask", t.left = Tail(reqs[r].left),
         reqs[r].left # <<>>, NEW B, NEW L,
         bought' = [bought EXCEPT ![r] = B], lost' = [lost EXCEPT ![r] = L],
         \/ reqs[r].phase = "ask" /\ B = bought[r] /\ L = lost[r]
         \/ /\ reqs[r].phase = "ask"
            /\ B = bought[r] \cup {Provider(r)} /\ L = lost[r] \cup {Provider(r)}
         \/ /\ reqs[r].phase \in Holding
            /\ \/ B = bought[r] \ {Provider(r)} /\ L = lost[r]
               \/ B = bought[r] /\ L = lost[r] \cup {Provider(r)}
  PROVE  Ledgers' /\ B \subseteq Names /\ L \subseteq Names
  <1>1. \A q \in Reqs : reqs'[q] = IF q = r THEN t ELSE reqs[q]
    BY RequestWritten
  <1>2. \A q \in Reqs : /\ bought'[q] = IF q = r THEN B ELSE bought[q]
                        /\ lost'[q] = IF q = r THEN L ELSE lost[q]
    BY DEF MediaTypeOK
  <1>3. /\ reqs[r].left \in Seq(Names) /\ bought[r] \subseteq Names /\ lost[r] \subseteq Names
    BY RequestFields DEF MediaTypeOK
  <1>4. Ledger(r)
    BY DEF Ledgers
  <1>5. /\ Provider(r) \in Names
        /\ IsInjective(Tail(reqs[r].left))
        /\ Range(Tail(reqs[r].left)) = Range(reqs[r].left) \ {Provider(r)}
    BY <1>3, <1>4, TailOfInjective DEF Ledger, Provider
  <1>6. bought[r] \ lost[r] = IF reqs[r].phase = "ask" THEN {} ELSE {Provider(r)}
    BY DEF Ledgers, PaidOnce, Holding
  <1>7. /\ L \subseteq B /\ B \ L = {} /\ B \cap Range(Tail(reqs[r].left)) = {}
        /\ B \subseteq Names /\ L \subseteq Names
    <2>1. CASE reqs[r].phase = "ask"
      BY <1>3, <1>4, <1>5, <1>6, <2>1 DEF Ledger, Holding
    <2>2. CASE reqs[r].phase \in Holding
      <3>1. lost[r] \subseteq bought[r] /\ bought[r] \cap Range(Tail(reqs[r].left)) = {}
        BY <1>4, <2>2 DEF Ledger
      <3>2. bought[r] \ lost[r] = {Provider(r)} /\ reqs[r].phase # "ask"
        BY <1>6, <2>2 DEF Holding
      <3> QED
        BY <1>3, <1>5, <2>2, <3>1, <3>2
    <2> QED
      BY <2>1, <2>2
  <1>8. PaidOnce'
    <2> SUFFICES ASSUME NEW q \in Reqs
                 PROVE  bought'[q] \ lost'[q] =
                            IF reqs'[q].phase \in {"idle", "ask", "failed"} THEN {}
                            ELSE {Head(reqs'[q].left)}
      BY DEF PaidOnce, Provider
    <2>1. CASE q = r
      BY <1>1, <1>2, <1>7, <2>1
    <2>2. CASE q # r
      BY <1>1, <1>2, <2>2 DEF Ledgers, PaidOnce, Provider
    <2> QED
      BY <2>1, <2>2
  <1>9. ASSUME NEW q \in Reqs PROVE Ledger(q)'
    <2>1. CASE q = r
      BY <1>1, <1>2, <1>5, <1>7, <2>1 DEF Ledger, Holding
    <2>2. CASE q # r
      BY <1>1, <1>2, <2>2 DEF Ledgers, Ledger
    <2> QED
      BY <2>1, <2>2
  <1> QED
    BY <1>7, <1>8, <1>9 DEF Ledgers

\* The provider that accepts has not been paid before.
LEMMA LedgersAccept ==
  ASSUME MediaTypeOK, Ledgers, NEW r \in Reqs, NEW t \in Request,
         reqs' = [reqs EXCEPT ![r] = t], reqs[r].phase = "ask", reqs[r].left # <<>>,
         t.phase \in Holding, t.left = reqs[r].left,
         bought' = Note(bought, r), lost' = lost
  PROVE  Ledgers' /\ Provider(r) \in Names
  <1>1. \A q \in Reqs : reqs'[q] = IF q = r THEN t ELSE reqs[q]
    BY RequestWritten
  <1>2. \A q \in Reqs : bought'[q] = IF q = r THEN bought[r] \cup {Provider(r)} ELSE bought[q]
    BY DEF MediaTypeOK, Note
  <1>3. reqs[r].left \in Seq(Names)
    BY RequestFields
  <1>4. Ledger(r) /\ bought[r] \ lost[r] = {}
    BY DEF Ledgers, PaidOnce
  <1>5. /\ Provider(r) \in Names /\ Provider(r) \in Range(reqs[r].left)
        /\ Range(Tail(reqs[r].left)) = Range(reqs[r].left) \ {Provider(r)}
    BY <1>3, <1>4, TailOfInjective DEF Ledger, Provider
  <1>6. /\ lost[r] \subseteq bought[r] /\ IsInjective(reqs[r].left)
        /\ bought[r] \cap Range(reqs[r].left) = {}
    BY <1>4 DEF Ledger
  <1>7. PaidOnce'
    <2> SUFFICES ASSUME NEW q \in Reqs
                 PROVE  bought'[q] \ lost[q] =
                            IF reqs'[q].phase \in {"idle", "ask", "failed"} THEN {}
                            ELSE {Head(reqs'[q].left)}
      BY DEF PaidOnce, Provider
    <2>1. CASE q = r
      <3>1. bought'[r] \ lost[r] = {Provider(r)}
        BY <1>2, <1>4, <1>5, <1>6
      <3> QED
        BY <1>1, <2>1, <3>1 DEF Holding, Provider
    <2>2. CASE q # r
      BY <1>1, <1>2, <2>2 DEF Ledgers, PaidOnce, Provider
    <2> QED
      BY <2>1, <2>2
  <1>8. ASSUME NEW q \in Reqs PROVE Ledger(q)'
    <2>1. CASE q = r
      <3>1. bought'[r] \cap Range(Tail(reqs[r].left)) = {} /\ lost[r] \subseteq bought'[r]
        BY <1>2, <1>5, <1>6
      <3> QED
        BY <1>1, <1>6, <2>1, <3>1 DEF Ledger, Holding
    <2>2. CASE q # r
      BY <1>1, <1>2, <2>2 DEF Ledgers, Ledger
    <2> QED
      BY <2>1, <2>2
  <1> QED
    BY <1>5, <1>7, <1>8 DEF Ledgers

-----------------------------------------------------------------------------
(* What a URL leads to *)

\* A request that has begun keeps its path.
NamesKept ==
    /\ \A q, l : (At(q, l) => At(q, l)') /\ (EndsIn(q, l) => EndsIn(q, l)')
    /\ \A l : (TornAt(l) => TornAt(l)') /\ (TornAs(l) => TornAs(l)')
    /\ \A c, l : (Made(c, l) => Made(c, l)') /\ (MadeAs(c, l) => MadeAs(c, l)')

LEMMA NamesStay ==
  ASSUME MediaTypeOK, NEW r \in Reqs, NEW t, reqs' = [reqs EXCEPT ![r] = t],
         t.phase # "idle", reqs[r].phase = "idle" \/ t.path = reqs[r].path
  PROVE  NamesKept
  <1>1. \A q \in Reqs : reqs'[q] = IF q = r THEN t ELSE reqs[q]
    BY RequestWritten
  <1>2. \A q, l : (At(q, l) => At(q, l)') /\ (EndsIn(q, l) => EndsIn(q, l)')
    BY <1>1 DEF At, EndsIn
  <1>3. \A l : TornAt(l) => TornAt(l)'
    <2> SUFFICES ASSUME NEW l, TornAt(l) PROVE TornAt(l)'
      OBVIOUS
    <2>1. PICK p, q \in Reqs : p # q /\ At(p, l) /\ At(q, l)
      BY DEF TornAt
    <2>2. At(p, l)' /\ At(q, l)'
      BY <1>2, <2>1
    <2> QED
      BY <2>1, <2>2 DEF TornAt
  <1>4. \A b : TornAs(b) => TornAs(b)'
    <2> SUFFICES ASSUME NEW b, TornAs(b) PROVE TornAs(b)'
      OBVIOUS
    <2>1. PICK l \in Locations : Base(l) = b /\ TornAt(l)
      BY DEF TornAs
    <2>2. TornAt(l)'
      BY <1>3, <2>1
    <2> QED
      BY <2>1, <2>2 DEF TornAs, Base
  <1>5. \A c, l : (Made(c, l) => Made(c, l)') /\ (MadeAs(c, l) => MadeAs(c, l)')
    BY <1>2, <1>3, <1>4 DEF Made, MadeAs
  <1> QED
    BY <1>2, <1>3, <1>4, <1>5 DEF NamesKept

\* Two requests at a path have names that end likewise.
LEMMA MadeEnds ==
  ASSUME MediaTypeOK, NEW r \in Reqs, NEW c, Made(c, reqs[r].path)
  PROVE  MadeAs(c, Base(reqs[r].path)) /\ c # None /\ c \in Contents
  <1> DEFINE l == reqs[r].path
  <1>1. l \in Locations
    BY RequestFields
  <1>2. CASE At(c, l)
    BY <1>2, MediaAssumption DEF At, EndsIn, MadeAs, Contents
  <1>3. CASE c = Torn /\ TornAt(l)
    BY <1>1, <1>3, MediaAssumption DEF TornAs, MadeAs, Contents
  <1> QED
    BY <1>2, <1>3 DEF Made

\* An object is written with what the request has read.
LEMMA ObjectWritten ==
  ASSUME MediaTypeOK, Traces, NEW r \in Reqs, reqs[r].phase = "put", NamesKept,
         objects' = [objects EXCEPT ![Base(reqs[r].path)] = reqs[r].data]
  PROVE  /\ objects' \in [Objects -> Contents] /\ ObjectsTraced'
         /\ objects'[Base(reqs[r].path)] # None
         /\ \A o \in Objects : objects[o] # None => objects'[o] # None
  <1>1. PICK key : key = Base(reqs[r].path)
    OBVIOUS
  <1>2. key \in Objects
    BY <1>1, RequestFields, BaseFields
  <1>3. MadeAs(reqs[r].data, key) /\ reqs[r].data # None /\ reqs[r].data \in Contents
    BY <1>1, MadeEnds DEF Traces, SavedTraced
  <1>4. \A o \in Objects : objects'[o] = IF o = key THEN reqs[r].data ELSE objects[o]
    BY <1>1 DEF MediaTypeOK
  <1>5. objects' \in [Objects -> Contents]
    BY <1>3 DEF MediaTypeOK
  <1>6. ObjectsTraced'
    <2> SUFFICES ASSUME NEW o \in Objects, objects'[o] # None, NEW c, c = objects'[o]
                 PROVE  MadeAs(c, o)'
      BY DEF ObjectsTraced, MadeAs, EndsIn
    <2>1. MadeAs(c, o)
      BY <1>3, <1>4 DEF Traces, ObjectsTraced
    <2> QED
      BY <2>1 DEF NamesKept
  <1> QED
    BY <1>1, <1>2, <1>3, <1>4, <1>5, <1>6

\* The URLs given before, and perhaps a new one for r, have something behind them.
LEMMA UrlsKept ==
  ASSUME MediaTypeOK, Traces, NamesKept, NEW r \in Reqs, NEW url,
         \A q \in Reqs : /\ reqs'[q].path = reqs[q].path
                         /\ reqs'[q].phase = "idle" => reqs[q].phase = "idle" /\ q # r
                         /\ reqs'[q].url = IF q = r THEN url ELSE reqs[q].url,
         \A o \in Objects : objects[o] # None => objects'[o] # None,
         \A q \in Reqs : cdn[q] # None => cdn'[q] # None,
         url.at = "minio" =>
            url.key = Base(reqs[r].path) /\ objects'[Base(reqs[r].path)] # None,
         url.at = "cdn" => EndsIn(url.key, Base(reqs[r].path)) /\ cdn'[url.key] # None
  PROVE  UrlsTraced'
  <1> SUFFICES ASSUME NEW q \in Reqs, NEW b, b = Base(reqs[q].path), NEW u, u = reqs'[q].url
               PROVE  /\ u.at = "minio" => u.key = b /\ objects'[b] # None
                      /\ u.at = "cdn" => EndsIn(u.key, b)' /\ cdn'[u.key] # None
                      /\ reqs'[q].phase = "idle" => u = NoUrl
    BY DEF UrlsTraced, EndsIn, Base
  <1>1. b \in Objects
    BY RequestFields, BaseFields
  <1>2. /\ u.at = "minio" => u.key = b /\ objects'[b] # None
        /\ u.at = "cdn" => EndsIn(u.key, b) /\ cdn'[u.key] # None
        /\ reqs'[q].phase = "idle" => u = NoUrl
    <2>1. CASE q = r
      BY <2>1
    <2>2. CASE q # r
      <3>1. u = reqs[q].url
        BY <2>2
      <3>2. /\ u.at = "minio" => u.key = b /\ objects[b] # None
            /\ u.at = "cdn" => EndsIn(u.key, b) /\ cdn[u.key] # None
            /\ reqs[q].phase = "idle" => u = NoUrl
        BY <3>1 DEF Traces, UrlsTraced
      <3>3. u.at = "cdn" => u.key \in Reqs
        BY <3>2 DEF EndsIn
      <3> QED
        BY <1>1, <3>2, <3>3
    <2> QED
      BY <2>1, <2>2
  <1> QED
    BY <1>2 DEF NamesKept

LEMMA TracesKeep ==
  ASSUME MediaTypeOK, Traces, NEW r \in Reqs, NEW t \in Request,
         reqs' = [reqs EXCEPT ![r] = t], UNCHANGED <<files, cdn>>,
         \/ UNCHANGED objects
         \/ /\ reqs[r].phase = "put"
            /\ objects' = [objects EXCEPT ![Base(reqs[r].path)] = reqs[r].data],
         t.given = reqs[r].given, t.path = reqs[r].path, t.url = reqs[r].url,
         t.phase # "idle", reqs[r].phase # "idle",
         t.phase \in {"write", "saved"} => reqs[r].phase = t.phase,
         t.phase \in {"put", "push"} => Made(t.data, t.path)
  PROVE  Traces' /\ objects' \in [Objects -> Contents]
  <1>1. \A q \in Reqs : reqs'[q] = IF q = r THEN t ELSE reqs[q]
    BY RequestWritten
  <1>2. files' = files /\ cdn' = cdn
    OBVIOUS
  <1>3. NamesKept
    BY NamesStay
  <1>4. \A q \in Reqs : /\ reqs'[q].path = reqs[q].path /\ reqs'[q].url = reqs[q].url
                        /\ reqs'[q].given = reqs[q].given
    BY <1>1
  <1>5. OwnPath' /\ FilesTraced'
    BY <1>2, <1>3, <1>4 DEF Traces, OwnPath, FilesTraced, NamesKept
  <1>6. /\ ObjectsTraced' /\ objects' \in [Objects -> Contents]
        /\ \A o \in Objects : objects[o] # None => objects'[o] # None
    <2>1. CASE UNCHANGED objects
      BY <1>3, <2>1 DEF Traces, ObjectsTraced, MediaTypeOK, NamesKept
    <2>2. CASE /\ reqs[r].phase = "put"
               /\ objects' = [objects EXCEPT ![Base(reqs[r].path)] = reqs[r].data]
      BY <1>3, <2>2, ObjectWritten
    <2> QED
      BY <2>1, <2>2
  <1>7. SavedTraced'
    <2> SUFFICES ASSUME NEW q \in Reqs, NEW l, l = reqs[q].path, NEW d, d = reqs'[q].data
                 PROVE  /\ reqs'[q].phase = "write" => files[l] = None \/ TornAt(l)'
                        /\ reqs'[q].phase = "saved" =>
                              files[l] \notin {None, Torn} \/ TornAt(l)'
                        /\ reqs'[q].phase \in {"put", "push"} => Made(d, l)'
      BY <1>2, <1>4 DEF SavedTraced, TornAt, Made, At
    <2>1. /\ reqs'[q].phase = "write" => files[l] = None \/ TornAt(l)
          /\ reqs'[q].phase = "saved" => files[l] \notin {None, Torn} \/ TornAt(l)
          /\ reqs'[q].phase \in {"put", "push"} => Made(d, l)
      BY <1>1 DEF Traces, SavedTraced
    <2> QED
      BY <1>3, <2>1 DEF NamesKept
  <1>8. UploadsTraced'
    <2> SUFFICES ASSUME NEW q \in Reqs, cdn[q] # None, NEW b, b = Base(reqs[q].path)
                 PROVE  EndsIn(q, b)' /\ MadeAs(cdn[q], b)'
      BY <1>2, <1>4 DEF UploadsTraced, EndsIn, MadeAs, TornAs, TornAt, At, Base
    <2>1. EndsIn(q, b) /\ MadeAs(cdn[q], b)
      BY DEF Traces, UploadsTraced
    <2> QED
      BY <1>2, <1>3, <2>1 DEF NamesKept
  <1>9. UrlsTraced'
    <2>1. /\ \A q \in Reqs : reqs'[q].phase = "idle" => reqs[q].phase = "idle" /\ q # r
          /\ reqs[r].url.at = "minio" => /\ reqs[r].url.key = Base(reqs[r].path)
                                         /\ objects[Base(reqs[r].path)] # None
          /\ reqs[r].url.at = "cdn" => /\ EndsIn(reqs[r].url.key, Base(reqs[r].path))
                                       /\ cdn[reqs[r].url.key] # None
      BY <1>1 DEF Traces, UrlsTraced
    <2>2. Base(reqs[r].path) \in Objects
      BY RequestFields, BaseFields
    <2> QED
      BY <1>2, <1>3, <1>4, <1>6, <2>1, <2>2, UrlsKept
  <1> QED
    BY <1>5, <1>6, <1>7, <1>8, <1>9 DEF Traces

\* A request begins with a path; nothing leads to it yet.
LEMMA TracesBegin ==
  ASSUME MediaTypeOK, Traces, NEW r \in Reqs, NEW t \in Request,
         reqs' = [reqs EXCEPT ![r] = t], UNCHANGED stores,
         reqs[r].phase = "idle", t.phase = "ask", ~t.given => t.path = r, t.url = NoUrl
  PROVE  Traces'
  <1>1. \A q \in Reqs : reqs'[q] = IF q = r THEN t ELSE reqs[q]
    BY RequestWritten
  <1>2. files' = files /\ objects' = objects /\ cdn' = cdn
    BY DEF stores
  <1>3. NamesKept
    BY NamesStay
  <1>4. OwnPath' /\ FilesTraced' /\ ObjectsTraced'
    BY <1>1, <1>2, <1>3 DEF Traces, OwnPath, FilesTraced, ObjectsTraced, NamesKept
  <1>5. SavedTraced'
    <2> SUFFICES ASSUME NEW q \in Reqs, q # r, NEW l, l = reqs[q].path, NEW d, d = reqs[q].data
                 PROVE  /\ reqs[q].phase = "write" => files[l] = None \/ TornAt(l)'
                        /\ reqs[q].phase = "saved" =>
                              files[l] \notin {None, Torn} \/ TornAt(l)'
                        /\ reqs[q].phase \in {"put", "push"} => Made(d, l)'
      BY <1>1, <1>2 DEF SavedTraced, TornAt, Made, At
    <2>1. /\ reqs[q].phase = "write" => files[l] = None \/ TornAt(l)
          /\ reqs[q].phase = "saved" => files[l] \notin {None, Torn} \/ TornAt(l)
          /\ reqs[q].phase \in {"put", "push"} => Made(d, l)
      BY DEF Traces, SavedTraced
    <2> QED
      BY <1>3, <2>1 DEF NamesKept
  <1>6. UploadsTraced'
    <2> SUFFICES ASSUME NEW q \in Reqs, cdn[q] # None, NEW b, b = Base(reqs'[q].path)
                 PROVE  EndsIn(q, b)' /\ MadeAs(cdn[q], b)'
      BY <1>2 DEF UploadsTraced, EndsIn, MadeAs, TornAs, TornAt, At, Base
    <2>1. EndsIn(q, Base(reqs[q].path)) /\ MadeAs(cdn[q], Base(reqs[q].path))
      BY DEF Traces, UploadsTraced
    <2>2. reqs'[q] = reqs[q]
      BY <1>1, <2>1 DEF EndsIn
    <2>3. EndsIn(q, b) /\ MadeAs(cdn[q], b)
      BY <2>1, <2>2
    <2> QED
      BY <1>2, <1>3, <2>3 DEF NamesKept
  <1>7. UrlsTraced'
    <2> SUFFICES ASSUME NEW q \in Reqs, q # r, NEW b, b = Base(reqs[q].path), NEW u, u = reqs[q].url
                 PROVE  /\ u.at = "minio" => u.key = b /\ objects[b] # None
                        /\ u.at = "cdn" => EndsIn(u.key, b)' /\ cdn[u.key] # None
                        /\ reqs[q].phase = "idle" => u = NoUrl
      BY <1>1, <1>2 DEF UrlsTraced, EndsIn, Base, NoUrl
    <2>1. /\ u.at = "minio" => u.key = b /\ objects[b] # None
          /\ u.at = "cdn" => EndsIn(u.key, b) /\ cdn[u.key] # None
          /\ reqs[q].phase = "idle" => u = NoUrl
      BY DEF Traces, UrlsTraced
    <2> QED
      BY <1>3, <2>1 DEF NamesKept
  <1> QED
    BY <1>4, <1>5, <1>6, <1>7 DEF Traces

\* The file of r is opened, written or torn: for another request with that path
\* the two make it torn.
LEMMA FileWritten ==
  ASSUME MediaTypeOK, Traces, NEW r \in Reqs, NEW t \in Request,
         reqs' = [reqs EXCEPT ![r] = t], UNCHANGED <<objects, cdn>>,
         NEW c \in {r, None, Torn}, files' = [files EXCEPT ![reqs[r].path] = c],
         t.given = reqs[r].given, t.path = reqs[r].path, t.url = reqs[r].url,
         t.phase \notin {"idle", "put", "push"}, reqs[r].phase # "idle",
         t.phase = "write" => c = None,
         t.phase = "saved" => c = r \/ (c = Torn /\ TornAt(reqs[r].path))
  PROVE  Traces' /\ files' \in [Locations -> Contents]
  <1> DEFINE k == reqs[r].path
  <1>1. \A q \in Reqs : reqs'[q] = IF q = r THEN t ELSE reqs[q]
    BY RequestWritten
  <1>2. NamesKept
    BY NamesStay
  <1>3. \A q \in Reqs : /\ reqs'[q].path = reqs[q].path /\ reqs'[q].url = reqs[q].url
                        /\ reqs'[q].given = reqs[q].given
                        /\ reqs'[q].phase = "idle" => reqs[q].phase = "idle" /\ q # r
    BY <1>1
  <1>4. k \in Locations /\ r # None /\ r # Torn
    BY RequestFields, MediaAssumption
  <1>5. \A l \in Locations : files'[l] = IF l = k THEN c ELSE files[l]
    BY DEF MediaTypeOK
  <1>6. files' \in [Locations -> Contents]
    BY DEF MediaTypeOK, Contents
  <1> HIDE DEF k
  <1>7. OwnPath' /\ FilesTraced'
    <2>1. OwnPath'
      BY <1>3 DEF Traces, OwnPath
    <2>2. ASSUME NEW l \in Locations, NEW f, f = files'[l], f \notin {None, Torn} PROVE At(f, l)'
      <3>1. At(f, l)
        <4>1. CASE l = k
          <5>1. f = r
            BY <1>5, <2>2, <4>1
          <5> QED
            BY <4>1, <5>1 DEF At, k
        <4>2. CASE l # k
          BY <1>5, <2>2, <4>2 DEF Traces, FilesTraced
        <4> QED
          BY <4>1, <4>2
      <3> QED
        BY <1>2, <3>1 DEF NamesKept
    <2>3. FilesTraced'
      BY <2>2 DEF FilesTraced, At
    <2> QED
      BY <2>1, <2>3
  <1>8. ObjectsTraced'
    BY <1>2 DEF Traces, ObjectsTraced, NamesKept
  <1>9. SavedTraced'
    <2> SUFFICES ASSUME NEW q \in Reqs, NEW l, l = reqs[q].path, NEW d, d = reqs'[q].data
                 PROVE  /\ reqs'[q].phase = "write" => files'[l] = None \/ TornAt(l)'
                        /\ reqs'[q].phase = "saved" =>
                              files'[l] \notin {None, Torn} \/ TornAt(l)'
                        /\ reqs'[q].phase \in {"put", "push"} => Made(d, l)'
      BY <1>3 DEF SavedTraced, TornAt, Made, At
    <2>1. l \in Locations
      BY RequestFields
    <2>2. CASE q = r
      <3>1. l = k /\ reqs'[q] = t /\ files'[l] = c
        BY <1>1, <1>4, <1>5, <2>2 DEF k
      <3>2. TornAt(l) => TornAt(l)'
        BY <1>2 DEF NamesKept
      <3> QED
        BY <1>4, <3>1, <3>2 DEF k
    <2>3. CASE q # r /\ l = k
      <3>1. reqs'[q] = reqs[q]
        BY <1>1, <2>3
      <3>2. reqs[q].phase # "idle" => TornAt(l)
        BY <2>3 DEF TornAt, At, k
      <3>3. reqs[q].phase \in {"put", "push"} => Made(d, l)
        BY <3>1 DEF Traces, SavedTraced
      <3> QED
        BY <1>2, <3>1, <3>2, <3>3 DEF NamesKept
    <2>4. CASE q # r /\ l # k
      <3>1. reqs'[q] = reqs[q] /\ files'[l] = files[l]
        BY <1>1, <1>5, <2>1, <2>4
      <3>2. /\ reqs'[q].phase = "write" => files[l] = None \/ TornAt(l)
            /\ reqs'[q].phase = "saved" => files[l] \notin {None, Torn} \/ TornAt(l)
            /\ reqs'[q].phase \in {"put", "push"} => Made(d, l)
        BY <3>1 DEF Traces, SavedTraced
      <3> QED
        BY <1>2, <3>1, <3>2 DEF NamesKept
    <2> QED
      BY <2>2, <2>3, <2>4
  <1>10. UploadsTraced'
    <2> SUFFICES ASSUME NEW q \in Reqs, cdn[q] # None, NEW b, b = Base(reqs[q].path)
                 PROVE  EndsIn(q, b)' /\ MadeAs(cdn[q], b)'
      BY <1>3 DEF UploadsTraced, EndsIn, MadeAs, TornAs, TornAt, At, Base
    <2>1. EndsIn(q, b) /\ MadeAs(cdn[q], b)
      BY DEF Traces, UploadsTraced
    <2> QED
      BY <1>2, <2>1 DEF NamesKept
  <1>11. UrlsTraced'
    <2>1. /\ reqs[r].url.at = "minio" => /\ reqs[r].url.key = Base(reqs[r].path)
                                         /\ objects'[Base(reqs[r].path)] # None
          /\ reqs[r].url.at = "cdn" => /\ EndsIn(reqs[r].url.key, Base(reqs[r].path))
                                       /\ cdn'[reqs[r].url.key] # None
      BY DEF Traces, UrlsTraced
    <2> QED
      BY <1>2, <1>3, <2>1, UrlsKept
  <1> QED
    BY <1>6, <1>7, <1>8, <1>9, <1>10, <1>11 DEF Traces

-----------------------------------------------------------------------------
(* Steps *)

LEMMA InitEstablishes == MediaInit => IInv
  <1> SUFFICES ASSUME MediaInit PROVE IInv
    OBVIOUS
  <1> USE DEF MediaInit
  <1>1. MediaTypeOK
    BY IdleIsRequest, MediaAssumption DEF MediaTypeOK, Contents
  <1>2. \A r \in Reqs : reqs[r].phase = "idle" /\ reqs[r].left = <<>> /\ reqs[r].path = r
                        /\ reqs[r].url = NoUrl
    BY DEF Idle
  <1>3. Ledgers
    BY <1>2 DEF Ledgers, PaidOnce, Ledger, Holding, IsInjective
  <1>4. Traces
    BY <1>2 DEF Traces, OwnPath, FilesTraced, SavedTraced, ObjectsTraced, UploadsTraced,
                UrlsTraced, NoUrl
  <1> QED
    BY <1>1, <1>3, <1>4 DEF IInv

LEMMA GenerateMediaPreserves ==
  ASSUME IInv, NEW r \in Reqs, NEW kind \in Kinds, NEW out \in {None} \cup Locations,
         NEW forced \in {None} \cup Names, GenerateMedia(r, kind, out, forced)
  PROVE  IInv'
  <1> DEFINE path == IF out = None THEN r ELSE out
             t == [Idle(r) EXCEPT !.phase = "ask", !.kind = kind, !.given = out # None,
                                  !.path = path, !.left = Allowed(kind, forced)]
  <1>1. MediaTypeOK /\ Ledgers /\ Traces /\ reqs[r].phase = "idle"
    BY DEF IInv, GenerateMedia
  <1>2. reqs' = [reqs EXCEPT ![r] = t] /\ UNCHANGED <<settings, stores, ledgers>>
    BY DEF GenerateMedia
  <1>3. Allowed(kind, forced) \in Seq(Names) /\ IsInjective(Allowed(kind, forced))
    BY AllowedIsList
  <1>4. /\ t \in Request /\ t.phase = "ask" /\ (~t.given => t.path = r) /\ t.url = NoUrl
        /\ t.left = Allowed(kind, forced)
    <2>1. path \in Locations /\ (out # None) \in BOOLEAN
      BY DEF Locations
    <2>2. /\ t.phase = "ask" /\ t.given = (out # None) /\ t.path = path /\ t.url = NoUrl
          /\ t.left = Allowed(kind, forced)
      BY DEF Idle
    <2>3. t \in Request
      <3> HIDE DEF path
      <3> QED
        BY <1>3, <2>1, IdleIsRequest DEF Idle, Request, Phases
    <2> QED
      BY <2>2, <2>3
  <1> HIDE DEF t
  <1>5. \A q \in Reqs : reqs'[q] = IF q = r THEN t ELSE reqs[q]
    BY <1>1, <1>2, RequestWritten
  <1>6. MediaTypeOK'
    <2>1. reqs' \in [Reqs -> Request]
      BY <1>1, <1>2, <1>4, RequestWritten
    <2> QED
      BY <1>1, <1>2, <2>1 DEF MediaTypeOK, settings, stores, ledgers
  <1>7. Ledgers'
    <2>1. bought[r] = {} /\ lost[r] = {}
      BY <1>1 DEF Ledgers, Ledger
    <2>2. bought' = bought /\ lost' = lost
      BY <1>2 DEF ledgers
    <2>3. PaidOnce'
      <3> SUFFICES ASSUME NEW q \in Reqs
                   PROVE  bought[q] \ lost[q] =
                              IF reqs'[q].phase \in {"idle", "ask", "failed"} THEN {}
                              ELSE {Head(reqs'[q].left)}
        BY <2>2 DEF PaidOnce, Provider
      <3> QED
        BY <1>1, <1>4, <1>5, <2>1 DEF Ledgers, PaidOnce, Provider
    <2>4. ASSUME NEW q \in Reqs PROVE Ledger(q)'
      <3>1. CASE q = r
        BY <1>3, <1>4, <1>5, <2>1, <2>2, <3>1 DEF Ledger, Holding
      <3>2. CASE q # r
        BY <1>1, <1>5, <2>2, <3>2 DEF Ledgers, Ledger
      <3> QED
        BY <3>1, <3>2
    <2> QED
      BY <2>3, <2>4 DEF Ledgers
  <1>8. Traces'
    BY <1>1, <1>2, <1>4, TracesBegin
  <1> QED
    BY <1>6, <1>7, <1>8 DEF IInv

\* Steps that turn only the request: to the next phase of its result, or to its
\* end when the list is exhausted.
LEMMA TurnPreserves ==
  ASSUME IInv, NEW r \in Reqs,
         PollPending(r) \/ PollSucceeded(r) \/ Download(r) \/ MinioFails(r) \/ AllFailed(r)
  PROVE  IInv'
  <1>1. MediaTypeOK /\ Ledgers /\ Traces /\ MaxPolls \in Nat
    BY MediaAssumption DEF IInv
  <1>2. /\ reqs[r] \in Request /\ reqs[r].polls \in 0..MaxPolls
        /\ reqs[r].phase = "poll" /\ reqs[r].polls < MaxPolls => reqs[r].polls + 1 \in 0..MaxPolls
    BY <1>1, RequestFields
  <1>3. /\ UNCHANGED <<settings, files, cdn, ledgers>>
        /\ \/ UNCHANGED objects
           \/ /\ reqs[r].phase = "put"
              /\ objects' = [objects EXCEPT ![Base(reqs[r].path)] = reqs[r].data]
    BY DEF PollPending, PollSucceeded, Download, MinioFails, AllFailed, stores
  <1>4. PICK phase \in Phases, polls \in 0..MaxPolls :
           /\ reqs' = [reqs EXCEPT ![r].phase = phase, ![r].polls = polls]
           /\ \/ reqs[r].phase \in Holding /\ phase \in Holding
              \/ reqs[r].phase = "ask" /\ phase = "failed"
           /\ phase \notin {"write", "saved"} /\ (phase \in {"put", "push"} => reqs[r].phase = "put")
    <2> DEFINE Turned(phase, polls) ==
                  /\ reqs' = [reqs EXCEPT ![r].phase = phase, ![r].polls = polls]
                  /\ \/ reqs[r].phase \in Holding /\ phase \in Holding
                     \/ reqs[r].phase = "ask" /\ phase = "failed"
                  /\ phase \notin {"write", "saved"} /\ (phase \in {"put", "push"} => reqs[r].phase = "put")
    <2>0. \A p : [reqs EXCEPT ![r].phase = p] =
                    [reqs EXCEPT ![r].phase = p, ![r].polls = reqs[r].polls]
      BY <1>1, <1>2 DEF MediaTypeOK, Request
    <2>1. CASE PollPending(r)
      <3>1. [reqs EXCEPT ![r].polls = @ + 1] =
               [reqs EXCEPT ![r].phase = "poll", ![r].polls = reqs[r].polls + 1]
        BY <1>1, <1>2, <2>1 DEF MediaTypeOK, Request, PollPending
      <3>2. Turned("poll", reqs[r].polls + 1) /\ reqs[r].polls + 1 \in 0..MaxPolls
        BY <1>2, <2>1, <3>1 DEF PollPending, Holding
      <3> QED
        BY <3>2 DEF Phases
    <2>2. CASE PollSucceeded(r)
      <3>1. Turned("download", 0) /\ 0 \in 0..MaxPolls
        BY <1>1, <2>2 DEF PollSucceeded, Holding
      <3> QED
        BY <3>1 DEF Phases
    <2>3. CASE Download(r)
      <3>1. Turned("save", reqs[r].polls)
        BY <2>0, <2>3 DEF Download, Turn, Holding
      <3> QED
        BY <1>2, <3>1 DEF Phases
    <2>4. CASE MinioFails(r)
      <3>1. Turned("push", reqs[r].polls)
        BY <2>0, <2>4 DEF MinioFails, Turn, Holding
      <3> QED
        BY <1>2, <3>1 DEF Phases
    <2>5. CASE AllFailed(r)
      <3>1. Turned("failed", reqs[r].polls)
        BY <2>0, <2>5 DEF AllFailed, Turn, Holding
      <3> QED
        BY <1>2, <3>1 DEF Phases
    <2> QED
      BY <2>1, <2>2, <2>3, <2>4, <2>5
  <1> DEFINE t == [reqs[r] EXCEPT !.phase = phase, !.polls = polls]
  <1>5. /\ t \in Request /\ t.phase = phase /\ t.left = reqs[r].left /\ t.path = reqs[r].path
        /\ t.url = reqs[r].url /\ t.data = reqs[r].data /\ t.given = reqs[r].given
    BY <1>2 DEF Request
  <1>6. reqs' = [reqs EXCEPT ![r] = t]
    BY <1>1, <1>4 DEF MediaTypeOK
  <1> HIDE DEF t
  <1>7. Ledgers'
    BY <1>1, <1>3, <1>4, <1>5, <1>6, LedgersKeep
  <1>8. Traces' /\ objects' \in [Objects -> Contents]
    <2>1. t.phase # "idle" /\ reqs[r].phase # "idle" /\ t.phase \notin {"write", "saved"}
      BY <1>4, <1>5 DEF Holding
    <2>2. t.phase \in {"put", "push"} => Made(t.data, t.path)
      BY <1>1, <1>4, <1>5 DEF Traces, SavedTraced
    <2> QED
      BY <1>1, <1>3, <1>5, <1>6, <2>1, <2>2, TracesKeep
  <1>9. MediaTypeOK'
    <2>1. reqs' \in [Reqs -> Request]
      BY <1>1, <1>5, <1>6, RequestWritten
    <2> QED
      BY <1>1, <1>3, <1>8, <2>1 DEF MediaTypeOK, settings, ledgers
  <1> QED
    BY <1>7, <1>8, <1>9 DEF IInv

\* Every way to the next provider.
LEMMA NextProviderPreserves ==
  ASSUME IInv, NEW r \in Reqs,
         Skip(r) \/ Refused(r) \/ TimesOut(r) \/ PollFailed(r) \/ Loses(r) \/ WriteFails(r)
  PROVE  IInv'
  <1> DEFINE t == [reqs[r] EXCEPT !.phase = "ask", !.left = Tail(@), !.polls = 0]
  <1>1. MediaTypeOK /\ Ledgers /\ Traces /\ Ledger(r)
    BY DEF IInv, Ledgers
  <1>2. /\ reqs[r] \in Request /\ reqs[r].left \in Seq(Names)
        /\ bought[r] \subseteq Names /\ lost[r] \subseteq Names
    BY <1>1, RequestFields DEF MediaTypeOK
  <1>3. /\ reqs[r].left # <<>> /\ reqs[r].phase \in {"ask"} \cup (Holding \ {"ok"})
        /\ UNCHANGED <<settings, objects, cdn>>
        /\ \/ UNCHANGED files
           \/ files' = [files EXCEPT ![reqs[r].path] = Torn]
    BY <1>1 DEF Skip, Refused, TimesOut, Asks, PollFailed, Loses, WriteFails, Ledger, Holding,
                stores
  <1>4. reqs' = [reqs EXCEPT ![r] = t]
    <2>1. NextProvider(r)
      BY DEF Skip, Refused, TimesOut, PollFailed, Loses, WriteFails
    <2> QED
      BY <1>1, <2>1 DEF NextProvider, MediaTypeOK
  <1>5. /\ t \in Request /\ t.phase = "ask" /\ t.left = Tail(reqs[r].left)
        /\ t.path = reqs[r].path /\ t.url = reqs[r].url /\ t.given = reqs[r].given
    <2>1. Tail(reqs[r].left) \in Seq(Names)
      BY <1>1, <1>2, <1>3, TailOfInjective DEF Ledger
    <2>2. 0 \in 0..MaxPolls
      BY MediaAssumption
    <2> QED
      BY <1>2, <2>1, <2>2 DEF Request, Phases
  <1> HIDE DEF t
  <1>6. PICK B, L :
           /\ bought' = [bought EXCEPT ![r] = B] /\ lost' = [lost EXCEPT ![r] = L]
           /\ \/ reqs[r].phase = "ask" /\ B = bought[r] /\ L = lost[r]
              \/ /\ reqs[r].phase = "ask"
                 /\ B = bought[r] \cup {Provider(r)} /\ L = lost[r] \cup {Provider(r)}
              \/ /\ reqs[r].phase \in Holding
                 /\ \/ B = bought[r] \ {Provider(r)} /\ L = lost[r]
                    \/ B = bought[r] /\ L = lost[r] \cup {Provider(r)}
    <2>0. bought = [bought EXCEPT ![r] = bought[r]] /\ lost = [lost EXCEPT ![r] = lost[r]]
      BY <1>1 DEF MediaTypeOK
    <2>1. CASE Skip(r) \/ Refused(r)
      <3>1. bought' = bought /\ lost' = lost /\ reqs[r].phase = "ask"
        BY <2>1 DEF Skip, Refused, Asks, ledgers
      <3> QED
        BY <2>0, <3>1
    <2>2. CASE PollFailed(r)
      <3>1. /\ bought' = [bought EXCEPT ![r] = bought[r] \ {Provider(r)}] /\ lost' = lost
            /\ reqs[r].phase \in Holding
        BY <2>2 DEF PollFailed, Holding
      <3> QED
        BY <2>0, <3>1
    <2>3. CASE TimesOut(r)
      <3>1. /\ bought' = [bought EXCEPT ![r] = bought[r] \cup {Provider(r)}]
            /\ lost' = [lost EXCEPT ![r] = lost[r] \cup {Provider(r)}]
            /\ reqs[r].phase = "ask"
        BY <2>3 DEF TimesOut, Asks, Note
      <3> QED
        BY <3>1
    <2>4. CASE Loses(r) \/ WriteFails(r)
      <3>1. /\ lost' = [lost EXCEPT ![r] = lost[r] \cup {Provider(r)}] /\ bought' = bought
            /\ reqs[r].phase \in Holding
        BY <2>4 DEF Loses, WriteFails, Note, Holding
      <3> QED
        BY <2>0, <3>1
    <2> QED
      BY <2>1, <2>2, <2>3, <2>4
  <1>7. Ledgers' /\ B \subseteq Names /\ L \subseteq Names
    BY <1>1, <1>3, <1>4, <1>5, <1>6, LedgersNext
  <1>8. Traces' /\ files' \in [Locations -> Contents]
    <2>1. reqs[r].phase # "idle"
      BY <1>3 DEF Holding
    <2>2. CASE UNCHANGED files
      BY <1>1, <1>3, <1>4, <1>5, <2>1, <2>2, TracesKeep DEF MediaTypeOK
    <2>3. CASE files' = [files EXCEPT ![reqs[r].path] = Torn]
      BY <1>1, <1>3, <1>4, <1>5, <2>1, <2>3, FileWritten
    <2> QED
      BY <1>3, <2>2, <2>3
  <1>9. MediaTypeOK'
    <2>1. reqs' \in [Reqs -> Request]
      BY <1>1, <1>4, <1>5, RequestWritten
    <2>2. bought' \in [Reqs -> SUBSET Names] /\ lost' \in [Reqs -> SUBSET Names]
      BY <1>1, <1>6, <1>7 DEF MediaTypeOK
    <2> QED
      BY <1>1, <1>3, <1>8, <2>1, <2>2 DEF MediaTypeOK, settings
  <1> QED
    BY <1>7, <1>8, <1>9 DEF IInv

LEMMA AcceptedPreserves ==
  ASSUME IInv, NEW r \in Reqs, Accepted(r)
  PROVE  IInv'
  <1>1. /\ MediaTypeOK /\ Ledgers /\ Traces /\ reqs[r].phase = "ask" /\ reqs[r].left # <<>>
        /\ UNCHANGED <<settings, stores>> /\ bought' = Note(bought, r) /\ lost' = lost
    BY DEF IInv, Accepted, Asks
  <1>2. PICK phase \in {"poll", "download", "save"} : Turn(r, phase)
    BY DEF Accepted
  <1> DEFINE t == [reqs[r] EXCEPT !.phase = phase]
  <1>3. /\ t \in Request /\ t.phase = phase /\ t.left = reqs[r].left
        /\ t.path = reqs[r].path /\ t.url = reqs[r].url /\ t.given = reqs[r].given
    BY <1>1, RequestFields DEF Request, Phases
  <1>4. reqs' = [reqs EXCEPT ![r] = t]
    BY <1>1, <1>2 DEF Turn, MediaTypeOK
  <1> HIDE DEF t
  <1>5. Ledgers' /\ Provider(r) \in Names
    BY <1>1, <1>2, <1>3, <1>4, LedgersAccept DEF Holding
  <1>6. MediaTypeOK'
    <2>1. reqs' \in [Reqs -> Request]
      BY <1>1, <1>3, <1>4, RequestWritten
    <2>2. bought' \in [Reqs -> SUBSET Names]
      BY <1>1, <1>5 DEF MediaTypeOK, Note
    <2> QED
      BY <1>1, <2>1, <2>2 DEF MediaTypeOK, settings, stores
  <1>7. Traces'
    BY <1>1, <1>2, <1>3, <1>4, TracesKeep DEF stores
  <1> QED
    BY <1>5, <1>6, <1>7 DEF IInv

LEMMA WriteFilePreserves ==
  ASSUME IInv, NEW r \in Reqs, SaveFile(r) \/ WriteFile(r)
  PROVE  IInv'
  <1>1. /\ MediaTypeOK /\ Ledgers /\ Traces /\ reqs[r].phase \in {"save", "write"}
        /\ UNCHANGED <<settings, objects, cdn, ledgers>>
    BY DEF IInv, SaveFile, WriteFile
  <1>2. PICK phase \in {"write", "saved"}, c \in {r, None, Torn} :
           /\ Turn(r, phase) /\ files' = [files EXCEPT ![reqs[r].path] = c]
           /\ phase = "write" => c = None
           /\ phase = "saved" => c = r \/ (c = Torn /\ TornAt(reqs[r].path))
    <2>1. CASE SaveFile(r)
      BY <2>1 DEF SaveFile
    <2>2. CASE WriteFile(r)
      <3>1. PICK c \in {r, Torn} : /\ files' = [files EXCEPT ![reqs[r].path] = c]
                                   /\ c = r \/ (c = Torn /\ Overlapped(r))
        BY <2>2 DEF WriteFile
      <3>2. Overlapped(r) => TornAt(reqs[r].path)
        <4>1. files[reqs[r].path] # None => TornAt(reqs[r].path)
          BY <1>1, <2>2 DEF Traces, SavedTraced, WriteFile
        <4>2. ASSUME NEW q \in Reqs \ {r}, reqs[q].phase = "write", reqs[q].path = reqs[r].path
              PROVE  TornAt(reqs[r].path)
          BY <1>1, <4>2 DEF TornAt, At
        <4> QED
          BY <4>1, <4>2 DEF Overlapped
      <3> QED
        BY <2>2, <3>1, <3>2 DEF WriteFile
    <2> QED
      BY <2>1, <2>2
  <1> DEFINE t == [reqs[r] EXCEPT !.phase = phase]
  <1>3. /\ t \in Request /\ t.phase = phase /\ t.left = reqs[r].left
        /\ t.path = reqs[r].path /\ t.url = reqs[r].url /\ t.given = reqs[r].given
    BY <1>1, RequestFields DEF Request, Phases
  <1>4. reqs' = [reqs EXCEPT ![r] = t]
    BY <1>1, <1>2 DEF Turn, MediaTypeOK
  <1> HIDE DEF t
  <1>5. Ledgers'
    BY <1>1, <1>2, <1>3, <1>4, LedgersKeep DEF Holding
  <1>6. Traces' /\ files' \in [Locations -> Contents]
    BY <1>1, <1>2, <1>3, <1>4, FileWritten
  <1>7. MediaTypeOK'
    <2>1. reqs' \in [Reqs -> Request]
      BY <1>1, <1>3, <1>4, RequestWritten
    <2> QED
      BY <1>1, <1>6, <2>1 DEF MediaTypeOK, settings, ledgers
  <1> QED
    BY <1>5, <1>6, <1>7 DEF IInv

\* What is read is the result of a request with the same path, or torn by two.
LEMMA ReadFilePreserves ==
  ASSUME IInv, NEW r \in Reqs, ReadFile(r)
  PROVE  IInv'
  <1>1. /\ MediaTypeOK /\ Ledgers /\ Traces /\ reqs[r].phase = "saved"
        /\ UNCHANGED <<settings, stores, ledgers>>
    BY DEF IInv, ReadFile
  <1>2. PICK d : d = IF files[reqs[r].path] = None THEN Torn ELSE files[reqs[r].path]
    OBVIOUS
  <1>3. PICK phase \in {"put", "push"} : reqs' = [reqs EXCEPT ![r].data = d, ![r].phase = phase]
    BY <1>2 DEF ReadFile
  <1> DEFINE t == [reqs[r] EXCEPT !.data = d, !.phase = phase]
  <1>4. Made(d, reqs[r].path)
    <2>1. reqs[r].path \in Locations
      BY <1>1, RequestFields
    <2>2. CASE files[reqs[r].path] \in {None, Torn}
      BY <1>1, <1>2, <2>2 DEF Traces, SavedTraced, Made
    <2>3. CASE files[reqs[r].path] \notin {None, Torn}
      BY <1>1, <1>2, <2>1, <2>3 DEF Traces, FilesTraced, Made
    <2> QED
      BY <2>2, <2>3
  <1>5. d \in Contents
    BY <1>1, <1>4, MadeEnds
  <1>6. /\ t \in Request /\ t.phase = phase /\ t.left = reqs[r].left /\ t.data = d
        /\ t.path = reqs[r].path /\ t.url = reqs[r].url /\ t.given = reqs[r].given
    BY <1>1, <1>5, RequestFields DEF Request, Phases
  <1>7. reqs' = [reqs EXCEPT ![r] = t]
    BY <1>1, <1>3 DEF MediaTypeOK
  <1> HIDE DEF t
  <1>8. MediaTypeOK'
    <2>1. reqs' \in [Reqs -> Request]
      BY <1>1, <1>6, <1>7, RequestWritten
    <2> QED
      BY <1>1, <2>1 DEF MediaTypeOK, settings, stores, ledgers
  <1>9. Ledgers'
    BY <1>1, <1>3, <1>6, <1>7, LedgersKeep DEF Holding
  <1>10. Traces'
    BY <1>1, <1>3, <1>4, <1>6, <1>7, TracesKeep DEF stores
  <1> QED
    BY <1>8, <1>9, <1>10 DEF IInv

\* An answer: with a URL that leads to what the request has read, or none.
LEMMA AnswerKeeps ==
  ASSUME IInv, NEW r \in Reqs, NEW url \in Url, Answer(r, url),
         reqs[r].phase \in {"saved", "put", "push"}, UNCHANGED <<settings, files, ledgers>>
  PROVE  /\ reqs' \in [Reqs -> Request] /\ Ledgers'
         /\ OwnPath' /\ FilesTraced' /\ SavedTraced' /\ NamesKept
         /\ \A q \in Reqs : /\ reqs'[q].path = reqs[q].path
                            /\ reqs'[q].url = IF q = r THEN url ELSE reqs[q].url
                            /\ reqs'[q].phase = "idle" => reqs[q].phase = "idle" /\ q # r
  <1> DEFINE t == [reqs[r] EXCEPT !.phase = "ok", !.url = url, !.data = None]
  <1>1. MediaTypeOK /\ Ledgers /\ Traces
    BY DEF IInv
  <1>2. /\ t \in Request /\ t.phase = "ok" /\ t.left = reqs[r].left
        /\ t.path = reqs[r].path /\ t.url = url /\ t.given = reqs[r].given
    BY <1>1, RequestFields DEF Request, Phases, Contents
  <1>3. reqs' = [reqs EXCEPT ![r] = t]
    BY <1>1 DEF Answer, MediaTypeOK
  <1> HIDE DEF t
  <1>4. \A q \in Reqs : reqs'[q] = IF q = r THEN t ELSE reqs[q]
    BY <1>1, <1>3, RequestWritten
  <1>5. NamesKept
    BY <1>1, <1>2, <1>3, NamesStay
  <1>6. \A q \in Reqs : /\ reqs'[q].path = reqs[q].path /\ reqs'[q].given = reqs[q].given
                        /\ reqs'[q].url = IF q = r THEN url ELSE reqs[q].url
                        /\ reqs'[q].phase = "idle" => reqs[q].phase = "idle" /\ q # r
    BY <1>2, <1>4
  <1>7. reqs' \in [Reqs -> Request]
    BY <1>1, <1>2, <1>3, RequestWritten
  <1>8. Ledgers'
    <2>1. UNCHANGED ledgers /\ reqs[r].phase \in Holding /\ t.phase \in Holding
      BY <1>2 DEF Holding
    <2> QED
      BY <1>1, <1>2, <1>3, <2>1, LedgersKeep
  <1>9. OwnPath' /\ FilesTraced'
    BY <1>1, <1>5, <1>6 DEF Traces, OwnPath, FilesTraced, NamesKept
  <1>10. SavedTraced'
    <2> SUFFICES ASSUME NEW q \in Reqs, q # r, NEW l, l = reqs[q].path, NEW d, d = reqs[q].data
                 PROVE  /\ reqs[q].phase = "write" => files[l] = None \/ TornAt(l)'
                        /\ reqs[q].phase = "saved" =>
                              files[l] \notin {None, Torn} \/ TornAt(l)'
                        /\ reqs[q].phase \in {"put", "push"} => Made(d, l)'
      BY <1>2, <1>4 DEF SavedTraced, TornAt, Made, At
    <2>1. /\ reqs[q].phase = "write" => files[l] = None \/ TornAt(l)
          /\ reqs[q].phase = "saved" => files[l] \notin {None, Torn} \/ TornAt(l)
          /\ reqs[q].phase \in {"put", "push"} => Made(d, l)
      BY <1>1 DEF Traces, SavedTraced
    <2> QED
      BY <1>5, <2>1 DEF NamesKept
  <1> QED
    BY <1>5, <1>6, <1>7, <1>8, <1>9, <1>10

LEMMA UploadsKept ==
  ASSUME Traces, NamesKept, UNCHANGED cdn, \A q \in Reqs : reqs'[q].path = reqs[q].path
  PROVE  UploadsTraced'
  <1> SUFFICES ASSUME NEW q \in Reqs, cdn[q] # None, NEW b, b = Base(reqs[q].path)
               PROVE  EndsIn(q, b)' /\ MadeAs(cdn[q], b)'
    BY DEF UploadsTraced, EndsIn, MadeAs, TornAs, TornAt, At, Base
  <1>1. EndsIn(q, b) /\ MadeAs(cdn[q], b)
    BY DEF Traces, UploadsTraced
  <1> QED
    BY <1>1 DEF NamesKept

LEMMA UploadToMinioPreserves ==
  ASSUME IInv, NEW r \in Reqs, UploadToMinio(r)
  PROVE  IInv'
  <1>1. MediaTypeOK /\ Traces
    BY DEF IInv
  <1>2. PICK key : key = Base(reqs[r].path)
    OBVIOUS
  <1> DEFINE url == [at |-> "minio", key |-> key]
  <1>3. /\ reqs[r].phase = "put" /\ objects' = [objects EXCEPT ![Base(reqs[r].path)] = reqs[r].data]
        /\ Answer(r, url) /\ UNCHANGED <<settings, files, cdn, ledgers>>
    BY <1>2 DEF UploadToMinio
  <1>4. key \in Objects
    BY <1>1, <1>2, RequestFields, BaseFields
  <1>5. url \in Url /\ url.at = "minio" /\ url.key = key
    BY <1>4 DEF Url
  <1> HIDE DEF url
  <1>6. /\ reqs' \in [Reqs -> Request] /\ Ledgers'
        /\ OwnPath' /\ FilesTraced' /\ SavedTraced' /\ NamesKept
        /\ \A q \in Reqs : /\ reqs'[q].path = reqs[q].path
                           /\ reqs'[q].url = IF q = r THEN url ELSE reqs[q].url
                           /\ reqs'[q].phase = "idle" => reqs[q].phase = "idle" /\ q # r
    BY <1>3, <1>5, AnswerKeeps
  <1>7. /\ objects' \in [Objects -> Contents] /\ ObjectsTraced' /\ objects'[key] # None
        /\ \A o \in Objects : objects[o] # None => objects'[o] # None
    BY <1>1, <1>2, <1>3, <1>6, ObjectWritten
  <1>8. MediaTypeOK'
    BY <1>1, <1>3, <1>6, <1>7 DEF MediaTypeOK, settings, ledgers
  <1>9. UploadsTraced'
    BY <1>1, <1>3, <1>6, UploadsKept
  <1>10. UrlsTraced'
    BY <1>1, <1>2, <1>3, <1>5, <1>6, <1>7, UrlsKept
  <1> QED
    BY <1>6, <1>7, <1>8, <1>9, <1>10 DEF IInv, Traces

\* An upload that is replaced has the same name.
LEMMA UploadWritten ==
  ASSUME MediaTypeOK, Traces, NEW r \in Reqs, reqs[r].phase = "push", NamesKept,
         \A q \in Reqs : reqs'[q].path = reqs[q].path,
         NEW p \in PublicIds(r), cdn' = [cdn EXCEPT ![p] = reqs[r].data]
  PROVE  /\ cdn' \in [Reqs -> Contents] /\ UploadsTraced' /\ p \in Reqs
         /\ EndsIn(p, Base(reqs[r].path)) /\ cdn'[p] # None
         /\ \A q \in Reqs : cdn[q] # None => cdn'[q] # None
  <1>1. PICK key : key = Base(reqs[r].path)
    OBVIOUS
  <1>2. p \in Reqs /\ EndsIn(p, key) /\ Base(reqs[p].path) = key
    <2>1. CASE p = r
      BY <1>1, <2>1 DEF EndsIn
    <2>2. CASE p # r
      BY <1>1, <2>2 DEF Traces, UploadsTraced, PublicIds
    <2> QED
      BY <2>1, <2>2
  <1>3. MadeAs(reqs[r].data, key) /\ reqs[r].data # None /\ reqs[r].data \in Contents
    BY <1>1, MadeEnds DEF Traces, SavedTraced
  <1>4. \A q \in Reqs : cdn'[q] = IF q = p THEN reqs[r].data ELSE cdn[q]
    BY DEF MediaTypeOK
  <1>5. cdn' \in [Reqs -> Contents]
    BY <1>3 DEF MediaTypeOK
  <1>6. UploadsTraced'
    <2> SUFFICES ASSUME NEW q \in Reqs, cdn'[q] # None,
                        NEW b, b = Base(reqs[q].path), NEW w, w = cdn'[q]
                 PROVE  EndsIn(q, b)' /\ MadeAs(w, b)'
      BY DEF UploadsTraced, EndsIn, MadeAs, TornAs, TornAt, At, Base
    <2>1. EndsIn(q, b) /\ MadeAs(w, b)
      BY <1>2, <1>3, <1>4 DEF Traces, UploadsTraced
    <2> QED
      BY <2>1 DEF NamesKept
  <1> QED
    BY <1>1, <1>2, <1>3, <1>4, <1>5, <1>6

LEMMA UploadToCloudinaryPreserves ==
  ASSUME IInv, NEW r \in Reqs, UploadToCloudinary(r)
  PROVE  IInv'
  <1>1. MediaTypeOK /\ Traces
    BY DEF IInv
  <1>2. /\ reqs[r].phase = "push" /\ UNCHANGED <<settings, files, objects, ledgers>>
    BY DEF UploadToCloudinary
  <1>3. PICK p \in PublicIds(r) : /\ cdn' = [cdn EXCEPT ![p] = reqs[r].data]
                                  /\ Answer(r, [at |-> "cdn", key |-> p])
    BY DEF UploadToCloudinary
  <1> DEFINE url == [at |-> "cdn", key |-> p]
  <1>4. url \in Url /\ url.at = "cdn" /\ url.key = p
    BY <1>3 DEF Url, PublicIds
  <1>5. Answer(r, url)
    BY <1>3
  <1> HIDE DEF url
  <1>6. /\ reqs' \in [Reqs -> Request] /\ Ledgers'
        /\ OwnPath' /\ FilesTraced' /\ SavedTraced' /\ NamesKept
        /\ \A q \in Reqs : /\ reqs'[q].path = reqs[q].path
                           /\ reqs'[q].url = IF q = r THEN url ELSE reqs[q].url
                           /\ reqs'[q].phase = "idle" => reqs[q].phase = "idle" /\ q # r
    BY <1>2, <1>4, <1>5, AnswerKeeps
  <1>7. /\ cdn' \in [Reqs -> Contents] /\ UploadsTraced'
        /\ EndsIn(p, Base(reqs[r].path)) /\ cdn'[p] # None
        /\ \A q \in Reqs : cdn[q] # None => cdn'[q] # None
    BY <1>1, <1>2, <1>3, <1>6, UploadWritten
  <1>8. MediaTypeOK'
    BY <1>1, <1>2, <1>6, <1>7 DEF MediaTypeOK, settings, ledgers
  <1>9. ObjectsTraced'
    BY <1>1, <1>2, <1>6 DEF Traces, ObjectsTraced, NamesKept
  <1>10. UrlsTraced'
    BY <1>1, <1>2, <1>4, <1>6, <1>7, UrlsKept
  <1> QED
    BY <1>6, <1>7, <1>8, <1>9, <1>10 DEF IInv, Traces

LEMMA StoreFailsPreserves ==
  ASSUME IInv, NEW r \in Reqs, StoreFails(r)
  PROVE  IInv'
  <1>1. MediaTypeOK /\ Traces
    BY DEF IInv
  <1>2. reqs[r].phase \in {"saved", "push"} /\ UNCHANGED <<settings, files, objects, ledgers>>
    BY DEF StoreFails
  <1>3. PICK url \in Url : Answer(r, url) /\ url.at \notin {"minio", "cdn"}
    <2>1. NoUrl \in Url /\ NoUrl.at = "none"
      BY DEF NoUrl, Url
    <2>2. /\ [at |-> "provider", key |-> None] \in Url
          /\ [at |-> "provider", key |-> None].at = "provider"
      BY DEF Url
    <2> QED
      BY <2>1, <2>2 DEF StoreFails
  <1>4. /\ reqs' \in [Reqs -> Request] /\ Ledgers'
        /\ OwnPath' /\ FilesTraced' /\ SavedTraced' /\ NamesKept
        /\ \A q \in Reqs : /\ reqs'[q].path = reqs[q].path
                           /\ reqs'[q].url = IF q = r THEN url ELSE reqs[q].url
                           /\ reqs'[q].phase = "idle" => reqs[q].phase = "idle" /\ q # r
    BY <1>2, <1>3, AnswerKeeps
  <1>5. /\ cdn' \in [Reqs -> Contents] /\ UploadsTraced'
        /\ \A q \in Reqs : cdn[q] # None => cdn'[q] # None
    <2>1. CASE UNCHANGED cdn
      BY <1>1, <1>4, <2>1, UploadsKept DEF MediaTypeOK
    <2>2. ASSUME NEW p \in PublicIds(r), reqs[r].phase = "push",
                 cdn' = [cdn EXCEPT ![p] = reqs[r].data]
          PROVE  /\ cdn' \in [Reqs -> Contents] /\ UploadsTraced'
                 /\ \A q \in Reqs : cdn[q] # None => cdn'[q] # None
      BY <1>1, <1>4, <2>2, UploadWritten
    <2> QED
      BY <2>1, <2>2 DEF StoreFails
  <1>6. MediaTypeOK'
    BY <1>1, <1>2, <1>4, <1>5 DEF MediaTypeOK, settings, ledgers
  <1>7. ObjectsTraced'
    BY <1>1, <1>2, <1>4 DEF Traces, ObjectsTraced, NamesKept
  <1>8. UrlsTraced'
    BY <1>1, <1>2, <1>3, <1>4, <1>5, UrlsKept
  <1> QED
    BY <1>4, <1>5, <1>6, <1>7, <1>8 DEF IInv, Traces

-----------------------------------------------------------------------------

LEMMA StepPreserves == IInv /\ [MediaNext]_mediaVars => IInv'
  <1> SUFFICES ASSUME IInv, [MediaNext]_mediaVars PROVE IInv'
    OBVIOUS
  <1>1. CASE UNCHANGED mediaVars
    <2> USE <1>1 DEF mediaVars
    <2>1. MediaTypeOK' /\ Ledgers'
      BY DEF IInv, MediaTypeOK, Ledgers, PaidOnce, Ledger, Provider
    <2>2. Traces'
      BY DEF IInv, Traces, OwnPath, FilesTraced, SavedTraced, ObjectsTraced, UploadsTraced,
             UrlsTraced, At, EndsIn, TornAt, TornAs, Made, MadeAs
    <2> QED
      BY <2>1, <2>2 DEF IInv
  <1>2. ASSUME NEW r \in Reqs, NEW kind \in Kinds, NEW out \in {None} \cup Locations,
               NEW forced \in {None} \cup Names, GenerateMedia(r, kind, out, forced)
        PROVE  IInv'
    BY <1>2, GenerateMediaPreserves
  <1>3. ASSUME NEW r \in Reqs, Progress(r) PROVE IInv'
    BY <1>3, NextProviderPreserves, AcceptedPreserves, TurnPreserves, WriteFilePreserves,
       ReadFilePreserves, UploadToMinioPreserves, UploadToCloudinaryPreserves,
       StoreFailsPreserves DEF Progress
  <1> QED
    BY <1>1, <1>2, <1>3 DEF MediaNext

LEMMA InvariantHolds == MediaSpec => []IInv
  BY InitEstablishes, StepPreserves, PTL DEF MediaSpec

\* Requests, files, objects and ledgers keep their types: a request never polls
\* more often than its loop allows (_poll_replicate, _video_runway).
THEOREM TypeCorrect == MediaSpec => []MediaTypeOK
  <1>1. IInv => MediaTypeOK
    BY DEF IInv
  <1> QED
    BY <1>1, InvariantHolds, PTL

\* A request pays for one result (the loops of generate_image, generate_video).
THEOREM PaidOnceInvariant == MediaSpec => []PaidOnce
  <1>1. IInv => PaidOnce
    BY DEF IInv, Ledgers
  <1> QED
    BY <1>1, InvariantHolds, PTL

\* The URL of an answer leads to what was made for it, unless a request chose the
\* name of its file: then to what was made for one whose file has that name, or
\* to what two of them with one path have torn (_save_b64, _store_media,
\* _upload_to_minio, _upload_to_cloudinary).
THEOREM UrlLeadsToOwnInvariant == MediaSpec => []UrlLeadsToOwn
  <1>1. IInv => UrlLeadsToOwn
    <2> SUFFICES ASSUME IInv, NEW r \in Reqs, reqs[r].url.at \in {"minio", "cdn"},
                        NEW owner, owner = Behind(reqs[r].url), owner # r
                 PROVE  /\ \E q \in Namesakes(r) : reqs[q].given
                        /\ \/ owner \in Namesakes(r)
                           \/ /\ owner = Torn
                              /\ \E p, q \in Namesakes(r) : p # q /\ reqs[p].path = reqs[q].path
      BY DEF UrlLeadsToOwn
    <2>1. PICK b : b = Base(reqs[r].path)
      OBVIOUS
    <2>2. MediaTypeOK /\ Traces /\ reqs[r].path \in Locations /\ b \in Objects
      BY <2>1, RequestFields, BaseFields DEF IInv
    <2>3. MadeAs(owner, b)
      <3>1. CASE reqs[r].url.at = "minio"
        BY <2>1, <2>2, <3>1 DEF Behind, Traces, UrlsTraced, ObjectsTraced
      <3>2. CASE reqs[r].url.at = "cdn"
        <4>1. /\ EndsIn(reqs[r].url.key, b) /\ cdn[reqs[r].url.key] # None
              /\ owner = cdn[reqs[r].url.key]
          BY <2>1, <2>2, <3>2 DEF Behind, Traces, UrlsTraced
        <4> QED
          BY <2>2, <4>1 DEF EndsIn, Traces, UploadsTraced
      <3> QED
        BY <3>1, <3>2
    <2>4. r \in Namesakes(r)
      <3>1. reqs[r].phase # "idle"
        BY <2>2 DEF Traces, UrlsTraced, NoUrl
      <3> QED
        BY <3>1 DEF Namesakes
    \* A request that generates the name of its file is the one with that name.
    <2>5. \A q \in Namesakes(r) : ~reqs[q].given => reqs[q].path = q /\ q = b
      BY <2>1, <2>2, BaseFields DEF Namesakes, Traces, OwnPath, Locations
    <2>6. CASE EndsIn(owner, b)
      <3>1. owner \in Namesakes(r)
        BY <2>1, <2>6 DEF EndsIn, Namesakes
      <3> QED
        BY <2>4, <2>5, <3>1
    <2>7. CASE owner = Torn /\ TornAs(b)
      <3>1. PICK l \in Locations : Base(l) = b /\ TornAt(l)
        BY <2>7 DEF TornAs
      <3>2. PICK p, q \in Reqs : p # q /\ At(p, l) /\ At(q, l)
        BY <3>1 DEF TornAt
      <3>3. p \in Namesakes(r) /\ q \in Namesakes(r) /\ reqs[p].path = reqs[q].path
        BY <2>1, <3>1, <3>2 DEF At, Namesakes
      <3> QED
        BY <2>5, <2>7, <3>2, <3>3
    <2> QED
      BY <2>3, <2>6, <2>7 DEF MadeAs
  <1> QED
    BY <1>1, InvariantHolds, PTL

-----------------------------------------------------------------------------
(* How many steps a request still has before its answer.                   *)

Ended == {"idle", "ok", "failed"}

\* At most so many awaits with the present provider: the calls to it and to the
\* stores, and the polls it has left.
Stage(q) ==
    CASE q.phase = "ask" -> MaxPolls + 9
      [] q.phase = "poll" -> MaxPolls + 8 - q.polls
      [] q.phase = "download" -> 7
      [] q.phase = "save" -> 6
      [] q.phase = "write" -> 5
      [] q.phase = "saved" -> 4
      [] q.phase = "put" -> 3
      [] q.phase = "push" -> 2
      [] OTHER -> 0

Ahead(q) ==
    IF q.phase \in Ended THEN 0 ELSE Len(q.left) * (MaxPolls + 10) + Stage(q)

\* A request begins with a number of steps that the list of providers bounds, and
\* whatever happens to it then leaves it fewer.
RunsDown ==
    [][\A r \in Reqs : reqs'[r] # reqs[r] =>
          IF reqs[r].phase = "idle"
          THEN Ahead(reqs'[r]) < (Len(Providers[reqs'[r].kind]) + 1) * (MaxPolls + 10)
          ELSE Ahead(reqs'[r]) < Ahead(reqs[r])]_mediaVars

LEMMA OneListShorter ==
  ASSUME NEW n \in Nat, NEW k \in Nat, NEW x \in Nat, NEW y \in Nat, y < k
  PROVE  n * k + y < (n + 1) * k + x
  <1>1. (n + 1) * k = n * k + k /\ n * k \in Nat
    OBVIOUS
  <1> DEFINE p == n * k
  <1>2. p \in Nat /\ (n + 1) * k = p + k
    BY <1>1
  <1> HIDE DEF p
  <1>3. p + y < p + k + x
    BY <1>2
  <1> QED
    BY <1>2, <1>3 DEF p

LEMMA StageIsBounded ==
  ASSUME NEW q, q.phase \in Phases, q.polls \in 0..MaxPolls
  PROVE  Stage(q) \in Nat /\ Stage(q) < MaxPolls + 10
  <1>1. MaxPolls \in Nat /\ MaxPolls + 8 - q.polls \in 8..(MaxPolls + 8)
    BY MediaAssumption
  <1> QED
    BY <1>1 DEF Stage, Phases

\* The next provider, with a list that is shorter, whatever was still to be done
\* with the last one.
LEMMA NextProviderRunsDown ==
  ASSUME MediaTypeOK, NEW r \in Reqs, NextProvider(r),
         reqs[r].left # <<>>, reqs[r].phase \notin Ended
  PROVE  Ahead(reqs'[r]) < Ahead(reqs[r])
  <1> DEFINE t == [reqs[r] EXCEPT !.phase = "ask", !.left = Tail(@), !.polls = 0]
             n == Len(Tail(reqs[r].left))
             k == MaxPolls + 10
  <1>1. /\ reqs[r] \in Request /\ reqs[r].left \in Seq(Names)
        /\ reqs[r].phase \in Phases /\ reqs[r].polls \in 0..MaxPolls
    BY RequestFields
  <1>2. reqs'[r] = t
    BY <1>1 DEF NextProvider, MediaTypeOK, Request
  <1>3. t.phase = "ask" /\ t.left = Tail(reqs[r].left)
    BY <1>1 DEF Request
  <1>4. n \in Nat /\ Len(reqs[r].left) = n + 1
    BY <1>1
  <1>5. k \in Nat /\ MaxPolls \in Nat /\ MaxPolls + 9 < k
    BY MediaAssumption
  <1>6. Stage(reqs[r]) \in Nat
    BY <1>1, StageIsBounded
  <1>7. Ahead(reqs[r]) = (n + 1) * k + Stage(reqs[r])
    BY <1>4 DEF Ahead
  <1>8. Ahead(t) = n * k + (MaxPolls + 9)
    <2>1. Stage(t) = MaxPolls + 9
      BY <1>3 DEF Stage
    <2> QED
      BY <1>3, <2>1 DEF Ahead, Ended
  <1> HIDE DEF t, n, k
  <1>9. n * k + (MaxPolls + 9) < (n + 1) * k + Stage(reqs[r])
    BY <1>4, <1>5, <1>6, OneListShorter
  <1> QED
    BY <1>2, <1>7, <1>8, <1>9

\* The same provider, a stage further.
LEMMA StageRunsDown ==
  ASSUME MediaTypeOK, NEW r \in Reqs, NEW t,
         reqs'[r] = t, t.left = reqs[r].left, reqs[r].phase \notin Ended,
         Stage(t) \in Nat, Stage(t) < Stage(reqs[r])
  PROVE  Ahead(reqs'[r]) < Ahead(reqs[r])
  <1> DEFINE p == Len(reqs[r].left) * (MaxPolls + 10)
  <1>1. /\ reqs[r].left \in Seq(Names)
        /\ reqs[r].phase \in Phases /\ reqs[r].polls \in 0..MaxPolls
    BY RequestFields
  <1>2. Len(reqs[r].left) \in Nat /\ MaxPolls + 10 \in Nat
    BY <1>1, MediaAssumption
  <1>3. p \in Nat
    BY <1>2
  <1>4. Stage(reqs[r]) \in Nat
    BY <1>1, StageIsBounded
  <1>5. Ahead(reqs[r]) = p + Stage(reqs[r]) /\ Ahead(t) \in {0, p + Stage(t)}
    BY DEF Ahead
  <1> HIDE DEF p
  <1> QED
    BY <1>3, <1>4, <1>5

LEMMA StepRunsDown ==
  ASSUME IInv, MediaNext, NEW r \in Reqs, reqs'[r] # reqs[r]
  PROVE  IF reqs[r].phase = "idle"
         THEN Ahead(reqs'[r]) < (Len(Providers[reqs'[r].kind]) + 1) * (MaxPolls + 10)
         ELSE Ahead(reqs'[r]) < Ahead(reqs[r])
  <1> USE DEF IInv
  <1>1. PICK q \in Reqs :
           \/ \E kind \in Kinds, out \in {None} \cup Locations, forced \in {None} \cup Names :
                 GenerateMedia(q, kind, out, forced)
           \/ Progress(q)
    BY DEF MediaNext
  <1>2. q = r
    <2>1. \E t : reqs' = [reqs EXCEPT ![q] = t]
      <3>1. CASE Progress(q)
        BY <3>1 DEF Progress, Skip, Refused, Accepted, PollPending, PollSucceeded,
                    PollFailed, Loses, Download, SaveFile, WriteFile,
                    WriteFails, TimesOut, ReadFile, UploadToMinio,
                    MinioFails, UploadToCloudinary, StoreFails, AllFailed,
                    NextProvider, Turn, Answer
      <3> QED
        BY <1>1, <3>1 DEF GenerateMedia
    <2> QED
      BY <2>1 DEF MediaTypeOK
  <1>3. /\ reqs[r] \in Request /\ reqs[r].left \in Seq(Names)
        /\ reqs[r].phase \in Phases /\ reqs[r].polls \in 0..MaxPolls
        /\ MaxPolls \in Nat
    BY RequestFields, MediaAssumption
  <1>4. reqs[r].phase \in Holding => reqs[r].left # <<>>
    BY DEF Ledgers, Ledger
  <1>5. ASSUME NEW kind \in Kinds, NEW out, NEW forced, GenerateMedia(r, kind, out, forced)
        PROVE  /\ reqs[r].phase = "idle"
               /\ Ahead(reqs'[r]) < (Len(Providers[reqs'[r].kind]) + 1) * (MaxPolls + 10)
    <2> DEFINE t == [Idle(r) EXCEPT !.phase = "ask", !.kind = kind, !.given = out # None,
                                    !.path = IF out = None THEN r ELSE out, !.left = Allowed(kind, forced)]
               n == Len(Allowed(kind, forced))
               m == Len(Providers[kind])
               k == MaxPolls + 10
    <2>1. reqs[r].phase = "idle" /\ reqs'[r] = t
      BY <1>5 DEF GenerateMedia, MediaTypeOK
    <2>2. t.phase = "ask" /\ t.kind = kind /\ t.left = Allowed(kind, forced)
      BY DEF Idle
    <2>3. Ahead(t) = n * k + (MaxPolls + 9)
      <3>1. Stage(t) = MaxPolls + 9
        BY <2>2 DEF Stage
      <3> QED
        BY <2>2, <3>1 DEF Ahead, Ended
    <2>4. n \in Nat /\ m \in Nat /\ n <= m
      <3>1. Providers[kind] \in Seq(Names) /\ Allowed(kind, forced) \in Seq(Names)
        BY AllowedIsList, MediaAssumption
      <3>2. CASE Allowed(kind, forced) = Providers[kind]
        BY <3>1, <3>2
      <3>3. CASE Allowed(kind, forced) = <<>>
        BY <3>1, <3>3
      <3>4. CASE Allowed(kind, forced) = <<forced>> /\ forced \in Range(Providers[kind])
        <4>1. Providers[kind] # <<>>
          BY <3>4 DEF Range
        <4>2. Len(Providers[kind]) \in Nat /\ Len(Providers[kind]) # 0
          BY <3>1, <4>1
        <4>3. Len(Allowed(kind, forced)) = 1
          BY <3>4
        <4> QED
          BY <4>2, <4>3
      <3> QED
        BY <3>2, <3>3, <3>4 DEF Allowed
    <2>5. k \in Nat /\ MaxPolls + 9 < k
      BY <1>3
    <2> HIDE DEF t, n, m, k
    <2>6. n * k + (MaxPolls + 9) < (n + 1) * k + (m - n) * k
      <3>1. m - n \in Nat
        BY <2>4
      <3>2. (m - n) * k \in Nat
        BY <2>5, <3>1
      <3> QED
        BY <1>3, <2>4, <2>5, <3>2, OneListShorter
    <2>7. (n + 1) * k + (m - n) * k = (m + 1) * k
      BY <2>4, <2>5
    <2> QED
      BY <2>1, <2>2, <2>3, <2>6, <2>7 DEF m, k
  <1>6. CASE Progress(r)
    <2>1. reqs[r].phase \notin Ended
      BY <1>6 DEF Progress, Skip, Refused, Accepted, PollPending, PollSucceeded,
                  PollFailed, Loses, Download, SaveFile, WriteFile,
                    WriteFails, TimesOut, ReadFile, UploadToMinio,
                  MinioFails, UploadToCloudinary, StoreFails, AllFailed, Asks, Ended
    <2> SUFFICES Ahead(reqs'[r]) < Ahead(reqs[r])
      BY <2>1 DEF Ended
    <2>2. CASE Skip(r) \/ Refused(r) \/ TimesOut(r) \/ PollFailed(r) \/ Loses(r) \/ WriteFails(r)
      <3>1. NextProvider(r) /\ reqs[r].left # <<>>
        BY <1>4, <2>2 DEF Skip, Refused, TimesOut, Asks, PollFailed, Loses, WriteFails, Holding
      <3> QED
        BY <2>1, <3>1, NextProviderRunsDown
    \* The steps that go on with the provider.
    <2>3. ASSUME NEW t, reqs' = [reqs EXCEPT ![r] = t], t.left = reqs[r].left,
                 t.phase \in Phases, t.polls \in 0..MaxPolls, Stage(t) < Stage(reqs[r])
          PROVE  Ahead(reqs'[r]) < Ahead(reqs[r])
      <3>1. reqs'[r] = t
        BY <2>3 DEF MediaTypeOK
      <3> QED
        BY <2>1, <2>3, <3>1, StageIsBounded, StageRunsDown
    <2>4. ASSUME NEW phase \in Phases, Turn(r, phase),
                 Stage([reqs[r] EXCEPT !.phase = phase]) < Stage(reqs[r])
          PROVE  Ahead(reqs'[r]) < Ahead(reqs[r])
      <3> DEFINE t == [reqs[r] EXCEPT !.phase = phase]
      <3>1. reqs' = [reqs EXCEPT ![r] = t]
        BY <2>4 DEF Turn
      <3>2. t.left = reqs[r].left /\ t.phase = phase /\ t.polls = reqs[r].polls
        BY <1>3 DEF Request
      <3> HIDE DEF t
      <3> QED
        BY <1>3, <2>3, <2>4, <3>1, <3>2 DEF t
    <2>5. \A phase : /\ [reqs[r] EXCEPT !.phase = phase].phase = phase
                     /\ [reqs[r] EXCEPT !.phase = phase].polls = reqs[r].polls
      BY <1>3 DEF Request
    <2>6. CASE Accepted(r)
      <3>1. PICK phase \in {"poll", "download", "save"} : Turn(r, phase)
        BY <2>6 DEF Accepted
      <3>2. Stage(reqs[r]) = MaxPolls + 9
        BY <2>6 DEF Accepted, Asks, Stage
      <3>3. Stage([reqs[r] EXCEPT !.phase = phase]) \in {MaxPolls + 8 - reqs[r].polls, 7, 6}
        <4> DEFINE t == [reqs[r] EXCEPT !.phase = phase]
        <4>1. t.phase = phase /\ t.polls = reqs[r].polls
          BY <2>5
        <4> HIDE DEF t
        <4>2. Stage(t) \in {MaxPolls + 8 - reqs[r].polls, 7, 6}
          BY <3>1, <4>1 DEF Stage
        <4> QED
          BY <4>2 DEF t
      <3>4. Stage([reqs[r] EXCEPT !.phase = phase]) < MaxPolls + 9
        BY <1>3, <3>3
      <3>5. Stage([reqs[r] EXCEPT !.phase = phase]) < Stage(reqs[r]) /\ phase \in Phases
        BY <3>1, <3>2, <3>4 DEF Phases
      <3> QED
        BY <2>4, <3>1, <3>5
    <2>7. CASE PollPending(r)
      <3> DEFINE t == [reqs[r] EXCEPT !.polls = @ + 1]
      <3>1. reqs' = [reqs EXCEPT ![r] = t] /\ reqs[r].phase = "poll" /\ reqs[r].polls < MaxPolls
        BY <2>7 DEF PollPending
      <3>2. t.left = reqs[r].left /\ t.phase = "poll" /\ t.polls = reqs[r].polls + 1
        BY <1>3, <3>1 DEF Request
      <3> HIDE DEF t
      <3>3. Stage(t) = MaxPolls + 8 - (reqs[r].polls + 1)
            /\ Stage(reqs[r]) = MaxPolls + 8 - reqs[r].polls
        BY <3>1, <3>2 DEF Stage
      <3>4. t.polls \in 0..MaxPolls /\ Stage(t) < Stage(reqs[r])
        BY <1>3, <3>1, <3>2, <3>3
      <3> QED
        BY <2>3, <3>1, <3>2, <3>4 DEF Phases
    <2>8. CASE PollSucceeded(r)
      <3> DEFINE t == [reqs[r] EXCEPT !.phase = "download", !.polls = 0]
      <3>1. reqs' = [reqs EXCEPT ![r] = t] /\ reqs[r].phase = "poll"
        BY <2>8 DEF PollSucceeded
      <3>2. t.left = reqs[r].left /\ t.phase = "download" /\ t.polls = 0
        BY <1>3 DEF Request
      <3> HIDE DEF t
      <3>3. Stage(t) = 7 /\ Stage(reqs[r]) = MaxPolls + 8 - reqs[r].polls
        BY <3>1, <3>2 DEF Stage
      <3>4. t.polls \in 0..MaxPolls /\ Stage(t) < Stage(reqs[r])
        BY <1>3, <3>2, <3>3
      <3> QED
        BY <2>3, <3>1, <3>2, <3>4 DEF Phases
    <2>9. CASE Download(r) \/ SaveFile(r) \/ WriteFile(r) \/ MinioFails(r) \/ AllFailed(r)
      <3>1. PICK phase \in {"save", "write", "saved", "push", "failed"} :
                 /\ Turn(r, phase)
                 /\ \/ phase = "save" /\ reqs[r].phase = "download"
                    \/ phase = "write" /\ reqs[r].phase = "save"
                    \/ phase = "saved" /\ reqs[r].phase = "write"
                    \/ phase = "push" /\ reqs[r].phase = "put"
                    \/ phase = "failed" /\ reqs[r].phase = "ask"
        BY <2>9 DEF Download, SaveFile, WriteFile, MinioFails, AllFailed
      <3>2. Stage([reqs[r] EXCEPT !.phase = phase]) < Stage(reqs[r])
        BY <1>3, <2>5, <3>1 DEF Stage
      <3> QED
        BY <2>4, <3>1, <3>2 DEF Phases
    <2>10. CASE ReadFile(r)
      <3>0. PICK d : d = IF files[reqs[r].path] = None THEN Torn ELSE files[reqs[r].path]
        OBVIOUS
      <3>1. PICK phase \in {"put", "push"} :
              reqs' = [reqs EXCEPT ![r].data = d, ![r].phase = phase]
              /\ reqs[r].phase = "saved"
        BY <2>10, <3>0 DEF ReadFile
      <3> DEFINE t == [reqs[r] EXCEPT !.data = d, !.phase = phase]
      <3>2. reqs' = [reqs EXCEPT ![r] = t]
        BY <3>1 DEF MediaTypeOK
      <3>3. t.left = reqs[r].left /\ t.phase = phase /\ t.polls = reqs[r].polls
        BY <1>3 DEF Request
      <3> HIDE DEF t
      <3>4. Stage(t) < Stage(reqs[r])
        BY <3>1, <3>3 DEF Stage
      <3> QED
        BY <1>3, <2>3, <3>1, <3>2, <3>3, <3>4 DEF Phases
    <2>11. CASE UploadToMinio(r) \/ UploadToCloudinary(r) \/ StoreFails(r)
      <3>1. PICK url : Answer(r, url)
        BY <2>11 DEF UploadToMinio, UploadToCloudinary, StoreFails
      <3> DEFINE t == [reqs[r] EXCEPT !.phase = "ok", !.url = url, !.data = None]
      <3>2. reqs' = [reqs EXCEPT ![r] = t] /\ reqs[r].phase \in {"saved", "put", "push"}
        BY <2>11, <3>1 DEF Answer, UploadToMinio, UploadToCloudinary, StoreFails
      <3>3. t.left = reqs[r].left /\ t.phase = "ok" /\ t.polls = reqs[r].polls
        BY <1>3 DEF Request
      <3> HIDE DEF t
      <3>4. Stage(t) < Stage(reqs[r])
        BY <3>2, <3>3 DEF Stage
      <3> QED
        BY <1>3, <2>3, <3>2, <3>3, <3>4 DEF Phases
    <2> QED
      BY <1>6, <2>1, <2>2, <2>6, <2>7, <2>8, <2>9, <2>10, <2>11 DEF Progress, Ended
  <1> QED
    BY <1>1, <1>2, <1>5, <1>6

\* Every step of a request brings it nearer to its answer, from a distance that
\* its list of providers and the bound on polls give, and no step of another
\* request sets it back: what the providers and the stores do, it is answered, or
\* failed, after so many awaits (the loops of generate_image and generate_video).
THEOREM RequestsRunDown == MediaSpec => RunsDown
  <1>1. IInv /\ [MediaNext]_mediaVars =>
          [\A r \in Reqs : reqs'[r] # reqs[r] =>
              IF reqs[r].phase = "idle"
              THEN Ahead(reqs'[r]) < (Len(Providers[reqs'[r].kind]) + 1) * (MaxPolls + 10)
              ELSE Ahead(reqs'[r]) < Ahead(reqs[r])]_mediaVars
    BY StepRunsDown
  <1> QED
    BY <1>1, InvariantHolds, PTL DEF MediaSpec, RunsDown
=============================================================================
