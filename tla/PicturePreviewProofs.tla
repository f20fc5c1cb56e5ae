------------------------ MODULE PicturePreviewProofs ------------------------
(***************************************************************************)
(* Proofs about PicturePreviewHandler for any numbers of threads, clients  *)
(* and previews, and for any limits.                                       *)
(***************************************************************************)
EXTENDS PicturePreviewHandler, SequenceTheorems, WellFoundedInduction, TLAPS

-----------------------------------------------------------------------------
(* What a listing returns, and what an insertion leaves. *)

\* A bounded set of naturals that is not empty has a greatest element.
LEMMA Greatest ==
    ASSUME NEW N \in Nat, NEW S \in SUBSET (0 .. N), S # {}
    PROVE  \E n \in S : \A m \in S : m <= n
<1> DEFINE Below == {N - n : n \in S}
<1>1. Below \subseteq Nat /\ Below # {}
  <2>1. \A n \in S : n \in 0 .. N /\ N - n \in Nat
    BY SMT
  <2> QED
    BY <2>1, Zenon
<1>2. PICK b \in Below : \A m \in Below : ~(<<m, b>> \in OpToRel(<, Nat))
  <2> HIDE DEF Below
  <2> QED
    BY <1>1, NatLessThanWellFounded, WFMin, Zenon
<1>3. \A m \in Below : b <= m
  <2> SUFFICES ASSUME NEW m \in Below PROVE b <= m
    OBVIOUS
  <2>1. b \in Nat /\ m \in Nat /\ ~(m < b)
    BY <1>1, <1>2 DEF OpToRel
  <2> QED
    BY <2>1
<1>4. PICK n \in S : b = N - n
  OBVIOUS
<1>5. \A m \in S : m <= n
  <2> SUFFICES ASSUME NEW m \in S PROVE m <= n
    OBVIOUS
  <2>1. b <= N - m
    BY <1>3, Zenon
  <2>2. m \in 0 .. N /\ n \in 0 .. N
    OBVIOUS
  <2> HIDE DEF Below
  <2> QED
    BY <1>4, <2>1, <2>2
<1> QED
  BY <1>4, <1>5

\* A listing is the front of the list, holds no id that the client gave, and
\* ends only at that id, at the limit or with the list.
LEMMA ListingFacts ==
    ASSUME NEW list \in Seq(Id), NEW last
    PROVE  \E n \in 0 .. Len(list) :
              /\ Listing(last, list) = SubSeq(list, 1, n)
              /\ Listing(last, list) \in Seq(Id)
              /\ Len(Listing(last, list)) = n
              /\ n <= ReturnLimit
              /\ n = ReturnLimit \/ n = Len(list) \/ list[n + 1] = last
              /\ \A i \in 1 .. n : /\ Listing(last, list)[i] = list[i]
                                   /\ list[i] # last
<1>1. Len(list) \in Nat
  OBVIOUS
<1>2. 0 \in Lengths(last, list)
  BY <1>1, ReturnLimitAssumption DEF Lengths
<1>3. Lengths(last, list) \in SUBSET (0 .. Len(list))
  BY DEF Lengths
<1>4. \E n \in Lengths(last, list) : \A m \in Lengths(last, list) : m <= n
  BY <1>1, <1>2, <1>3, Greatest, Zenon
<1> DEFINE n == CHOOSE n \in Lengths(last, list) :
                    \A m \in Lengths(last, list) : m <= n
<1>5. n \in Lengths(last, list)
  BY <1>4
<1>6. Listing(last, list) = SubSeq(list, 1, n)
  BY DEF Listing
<1>7. \A m \in Lengths(last, list) : m <= n
  BY <1>4
<1> HIDE DEF n
<1>8. n \in 0 .. Len(list) /\ n <= ReturnLimit /\ \A i \in 1 .. n : list[i] # last
  BY <1>5 DEF Lengths
<1>9. n = ReturnLimit \/ n = Len(list) \/ list[n + 1] = last
  <2> SUFFICES ASSUME n # ReturnLimit, n # Len(list), list[n + 1] # last PROVE FALSE
    OBVIOUS
  <2>1. n + 1 \in 0 .. Len(list) /\ n + 1 <= ReturnLimit
    BY <1>1, <1>8, ReturnLimitAssumption, CacheLimitAssumption
  <2>2. \A i \in 1 .. n + 1 : i = n + 1 \/ i \in 1 .. n
    BY <1>1, <1>8
  <2>3. n + 1 \in Lengths(last, list)
    BY <1>8, <2>1, <2>2 DEF Lengths
  <2> QED
    BY <1>1, <1>8, <1>7, <2>3
<1>10. /\ SubSeq(list, 1, n) \in Seq(Id)
      /\ Len(SubSeq(list, 1, n)) = n
      /\ \A i \in 1 .. n : SubSeq(list, 1, n)[i] = list[i]
  BY <1>1, <1>8
<1> QED
  BY <1>6, <1>8, <1>10, <1>9

\* What a creator in its last step has chosen, and what it makes of the list.
LEMMA InsertFacts ==
    ASSUME TypeOK, NEW t \in Creators, Insert(t)
    PROVE  /\ uuidStr[t] \in Id /\ preview[t] \in Nat
           /\ ids' \in Seq(Id)
           /\ Len(ids') = IF Len(ids) < CacheLimit THEN Len(ids) + 1
                                                   ELSE CacheLimit
           /\ \A i \in 1 .. Len(ids') :
                ids'[i] = IF i = 1 THEN uuidStr[t] ELSE ids[i - 1]
           /\ Len(created') = Len(created) + 1
           /\ created' \in Seq(Creation)
           /\ \A i \in 1 .. Len(created) : created'[i] = created[i]
           /\ created'[Len(created) + 1].id = uuidStr[t]
           /\ created'[Len(created) + 1].preview = preview[t]
<1> DEFINE id == uuidStr[t]
           list == AtFront(id, ids)
           new == [id |-> id, preview |-> preview[t]]
<1>1. id \in Id /\ preview[t] \in Nat /\ ids \in Seq(Id) /\ created \in Seq(Creation)
  BY DEF TypeOK
<1>2. new \in Creation
  BY <1>1 DEF Creation
<1>3. ids' = Kept(list) /\ created' = Append(created, new)
  BY DEF Insert
<1> HIDE DEF id, new
<1>4. /\ list \in Seq(Id) /\ Len(list) = Len(ids) + 1
      /\ \A i \in 1 .. Len(list) : list[i] = IF i = 1 THEN id ELSE ids[i - 1]
  BY <1>1 DEF AtFront
<1> HIDE DEF list
<1>5. /\ ids' \in Seq(Id)
      /\ Len(ids') = IF Len(ids) < CacheLimit THEN Len(ids) + 1 ELSE CacheLimit
      /\ \A i \in 1 .. Len(ids') : i \in 1 .. Len(list) /\ ids'[i] = list[i]
  BY <1>1, <1>3, <1>4, CacheLimitAssumption DEF Kept
<1>6. \A i \in 1 .. Len(ids') : ids'[i] = IF i = 1 THEN id ELSE ids[i - 1]
  BY <1>4, <1>5
<1>7. /\ created' \in Seq(Creation) /\ Len(created') = Len(created) + 1
      /\ \A i \in 1 .. Len(created) : created'[i] = created[i]
      /\ created'[Len(created) + 1] = new
  BY <1>1, <1>2, <1>3
<1>8. new.id = id /\ new.preview = preview[t]
  BY DEF new
<1> QED
  BY <1>1, <1>5, <1>6, <1>7, <1>8, Zenon DEF id

\* The map gains the new preview, keeps what it held, and loses what the list
\* loses.
LEMMA MapFacts ==
    ASSUME TypeOK, NEW t \in Creators, Insert(t)
    PROVE  LET list == AtFront(uuidStr[t], ids)
           IN  /\ \A key : key \in DOMAIN pictures' <=>
                    /\ key \in DOMAIN pictures \/ key = uuidStr[t]
                    /\ \A i \in CacheLimit + 1 .. Len(list) : key # list[i]
               /\ \A key \in DOMAIN pictures' :
                    pictures'[key] = IF key \in DOMAIN pictures
                                     THEN pictures[key] ELSE preview[t]
               /\ Len(list) = Len(ids) + 1
               /\ \A i \in 1 .. Len(list) :
                    list[i] = IF i = 1 THEN uuidStr[t] ELSE ids[i - 1]
<1> DEFINE id == uuidStr[t]
           list == AtFront(id, ids)
           map == Emplaced(id, preview[t])
<1>1. id \in Id /\ ids \in Seq(Id)
  BY DEF TypeOK
<1>2. pictures' = [key \in DOMAIN map \ Evicted(list) |-> map[key]]
  BY DEF Insert
<1>3. /\ DOMAIN map = DOMAIN pictures \union {id}
      /\ \A key \in DOMAIN map :
           map[key] = IF key \in DOMAIN pictures THEN pictures[key] ELSE preview[t]
  BY DEF Emplaced
<1> HIDE DEF id, map
<1>4. /\ Len(list) = Len(ids) + 1
      /\ \A i \in 1 .. Len(list) : list[i] = IF i = 1 THEN id ELSE ids[i - 1]
  BY <1>1 DEF AtFront
<1> HIDE DEF list
<1>5. /\ DOMAIN pictures' = DOMAIN map \ Evicted(list)
      /\ \A key \in DOMAIN pictures' : pictures'[key] = map[key]
  BY <1>2, Zenon
<1>6. \A key : key \in DOMAIN pictures' <=>
          /\ key \in DOMAIN pictures \/ key = id
          /\ \A i \in CacheLimit + 1 .. Len(list) : key # list[i]
  BY <1>3, <1>5, Zenon DEF Evicted
<1>7. \A key \in DOMAIN pictures' :
         pictures'[key] = IF key \in DOMAIN pictures THEN pictures[key]
                                                      ELSE preview[t]
  BY <1>3, <1>5, Zenon
<1> QED
  BY <1>4, <1>6, <1>7, Zenon DEF id, list

\* The two kinds of ids are different, and neither is that of another number.
LEMMA IdFacts ==
    /\ NoId \in Id
    /\ \A n \in Nat : RandomId(n) \in Id /\ SeqId(n) \in Id
    /\ \A m, n : RandomId(m) # SeqId(n)
    /\ \A m, n : RandomId(m) = RandomId(n) => m = n
    /\ \A m, n : SeqId(m) = SeqId(n) => m = n
BY DEF NoId, RandomId, SeqId, Id

-----------------------------------------------------------------------------
(* Every part of the invariant is preserved. *)

LEMMA InitInv == Init => PreviewInv
<1> SUFFICES ASSUME Init PROVE PreviewInv
  OBVIOUS
<1>1. ids = <<>> /\ created = <<>> /\ DOMAIN pictures = {}
  BY DEF Init
<1>2. Len(ids) = 0 /\ Len(created) = 0 /\ Range(ids) = {}
  BY <1>1 DEF Range
<1>3. TypeOK
  <2>1. ids \in Seq(Id) /\ created \in Seq(Creation)
    BY <1>1
  <2>2. calls \in Nat /\ seq \in Nat
    BY DEF Init
  <2> QED
    BY <1>1, <2>1, <2>2, IdFacts, Zenon DEF Init, TypeOK
<1>4. CallsInv /\ NamesInv
  BY <1>2 DEF Init, CallsInv, NamesInv, SeqNames, RandomNames
<1>5. IdsAreRecent /\ NoOrphans /\ PicturesMatchIds
  BY <1>1, <1>2, CacheLimitAssumption
     DEF IdsAreRecent, NoOrphans, PicturesMatchIds
<1>6. SeenInv
  BY DEF Init, SeenInv
<1> QED
  BY <1>3, <1>4, <1>5, <1>6 DEF PreviewInv

LEMMA TypeStep ==
    ASSUME TypeOK, [Next]_vars
    PROVE  TypeOK'
<1> USE DEF TypeOK
<1>1. ASSUME NEW t \in Creators, Call(t) PROVE TypeOK'
  BY <1>1 DEF Call, cacheVars, clientVars
<1>2. ASSUME NEW t \in Creators, LoadSeq(t) PROVE TypeOK'
  BY <1>2 DEF LoadSeq, cacheVars, clientVars, history
<1>3. ASSUME NEW t \in Creators, StoreSeq(t) PROVE TypeOK'
  BY <1>3 DEF StoreSeq, cacheVars, clientVars, history
<1>4. ASSUME NEW t \in Creators, Name(t) PROVE TypeOK'
  <2>1. RandomId(preview[t]) \in Id /\ SeqId(seq) \in Id
    BY IdFacts
  <2>2. uuidStr' \in [Creators -> Id]
    BY <1>4, <2>1, Zenon DEF Name, FallbackId
  <2> QED
    BY <1>4, <2>2, Zenon DEF Name, cacheVars, clientVars
<1>5. ASSUME NEW t \in Creators, Insert(t) PROVE TypeOK'
  <2>1. ids' \in Seq(Id) /\ created' \in Seq(Creation)
    BY <1>5, InsertFacts
  <2>2. /\ DOMAIN pictures' \subseteq Id
        /\ \A id \in DOMAIN pictures' : pictures'[id] \in Nat
    <3>1. \A key \in DOMAIN pictures' :
             /\ key \in DOMAIN pictures \/ key = uuidStr[t]
             /\ pictures'[key] = IF key \in DOMAIN pictures
                                 THEN pictures[key] ELSE preview[t]
      <4> HIDE DEF TypeOK
      <4> QED
        BY <1>5, MapFacts
    <3>2. uuidStr[t] \in Id /\ preview[t] \in Nat
      OBVIOUS
    <3> QED
      BY <3>1, <3>2, Zenon
  <2> QED
    BY <1>5, <2>1, <2>2, Zenon DEF Insert, clientVars, history
<1>6. ASSUME NEW c \in Clients, Poll(c) PROVE TypeOK'
  <2> DEFINE listing == Listing(prev[c], ids)
  <2>1. listing \in Seq(Id)
    BY ListingFacts, Zenon
  <2> HIDE DEF listing
  <2>2. /\ Range(listing) \subseteq Id
        /\ listing # <<>> => listing[1] \in Id
    BY <2>1 DEF Range
  <2>3. UNCHANGED <<creatorVars, cacheVars, history>>
    BY <1>6 DEF Poll
  <2>4. CASE UNCHANGED clientVars
    BY <2>3, <2>4, Zenon DEF creatorVars, cacheVars, clientVars, history
  <2>5. CASE /\ prev' = [prev EXCEPT ![c] =
                            IF listing = <<>> THEN @ ELSE listing[1]]
             /\ received' = [received EXCEPT ![c] = @ \union Range(listing)]
             /\ overrun' = [overrun EXCEPT ![c] =
                               @ \/ Len(listing) = ReturnLimit]
    <3>1. prev' \in [Clients -> Id]
      BY <2>2, <2>5, Zenon
    <3>2. received' \in [Clients -> SUBSET Id]
      BY <2>2, <2>5
    <3>3. overrun' \in [Clients -> BOOLEAN]
      BY <2>5, Zenon
    <3> QED
      BY <2>3, <3>1, <3>2, <3>3, Zenon DEF creatorVars, cacheVars, history
  <2> QED
    BY <1>6, <2>4, <2>5, Zenon DEF Poll, listing
<1>7. CASE UNCHANGED vars
  BY <1>7, Zenon DEF vars, creatorVars, cacheVars, clientVars, history
<1> QED
  BY <1>1, <1>2, <1>3, <1>4, <1>5, <1>6, <1>7, Zenon DEF Next

LEMMA CallsStep ==
    ASSUME TypeOK, CallsInv, [Next]_vars
    PROVE  CallsInv'
<1> USE DEF CallsInv
<1>1. calls \in Nat /\ Len(created) \in Nat
  BY DEF TypeOK
<1>2. ASSUME NEW t \in Creators, Call(t) PROVE CallsInv'
  <2>1. /\ calls' = calls + 1 /\ preview' = [preview EXCEPT ![t] = calls + 1]
        /\ pc' = [pc EXCEPT ![t] = "load"] /\ created' = created
    BY <1>2 DEF Call, cacheVars
  <2>2. \A s \in Creators \ {t} : pc'[s] = pc[s] /\ preview'[s] = preview[s]
    BY <2>1 DEF TypeOK
  <2>3. preview'[t] = calls + 1
    BY <2>1 DEF TypeOK
  <2>4. \A i \in 1 .. Len(created) : created'[i].preview \in 1 .. calls'
                                     /\ created'[i].preview # preview'[t]
    BY <1>1, <2>1, <2>3
  <2>5. \A s \in Creators \ {t} : pc'[s] # "idle" =>
           preview'[s] \in 1 .. calls' /\ preview'[s] # preview'[t]
    BY <1>1, <2>1, <2>2, <2>3
  <2>6. preview'[t] \in 1 .. calls'
    BY <1>1, <2>1, <2>3
  <2>7. ASSUME NEW s \in Creators, pc'[s] # "idle"
        PROVE  /\ preview'[s] \in 1 .. calls'
               /\ \A i \in 1 .. Len(created') : created'[i].preview # preview'[s]
               /\ \A u \in Creators \ {s} :
                    pc'[u] # "idle" => preview'[u] # preview'[s]
    <3>1. CASE s = t
      BY <2>1, <2>4, <2>5, <2>6, <3>1, Zenon
    <3>2. CASE s # t
      <4>1. pc[s] # "idle" /\ preview'[s] = preview[s]
        BY <2>2, <2>7, <3>2, Zenon
      <4>2. \A u \in Creators \ {s, t} :
               pc'[u] # "idle" => preview'[u] # preview'[s]
        BY <2>2, <4>1, Zenon
      <4>3. preview'[t] # preview'[s] /\ preview'[s] \in 1 .. calls'
        BY <2>5, <2>7, <3>2, Zenon
      <4>4. \A i \in 1 .. Len(created') : created'[i].preview # preview'[s]
        BY <2>1, <4>1, Zenon
      <4> QED
        BY <4>2, <4>3, <4>4
    <3> QED
      BY <3>1, <3>2, Zenon
  <2> QED
    BY <2>1, <2>4, <2>7, Zenon
<1>3. ASSUME NEW t \in Creators, LoadSeq(t) \/ StoreSeq(t) \/ Name(t)
      PROVE  CallsInv'
  <2>1. /\ calls' = calls /\ preview' = preview /\ created' = created
        /\ \A s \in Creators : pc'[s] # "idle" => pc[s] # "idle"
    BY <1>3 DEF TypeOK, LoadSeq, StoreSeq, Name, cacheVars
  <2> QED
    BY <2>1, Zenon
<1>4. ASSUME NEW t \in Creators, Insert(t) PROVE CallsInv'
  <2>1. /\ calls' = calls /\ preview' = preview
        /\ pc[t] = "insert" /\ pc' = [pc EXCEPT ![t] = "idle"]
    BY <1>4 DEF Insert
  <2>2. pc'[t] = "idle" /\ \A s \in Creators \ {t} : pc'[s] = pc[s]
    BY <2>1 DEF TypeOK
  <2>3. /\ Len(created') = Len(created) + 1
        /\ \A i \in 1 .. Len(created) : created'[i] = created[i]
        /\ created'[Len(created) + 1].preview = preview[t]
    BY <1>4, InsertFacts, Zenon
  <2>4. \A i \in 1 .. Len(created') :
           \/ i \in 1 .. Len(created)
           \/ i = Len(created) + 1
    BY <1>1, <2>3
  <2>5. Len(created) + 1 \notin 1 .. Len(created)
    BY <1>1
  <2>6. \A i \in 1 .. Len(created') : created'[i].preview \in 1 .. calls'
    BY <2>1, <2>3, <2>4, Zenon
  <2>7. \A i, j \in 1 .. Len(created') :
           i # j => created'[i].preview # created'[j].preview
    <3> DEFINE n == Len(created) + 1
    <3>1. \A i \in 1 .. Len(created) : created'[i].preview # created'[n].preview
      BY <2>1, <2>3, Zenon
    <3>2. \A i, j \in 1 .. Len(created) :
             i # j => created'[i].preview # created'[j].preview
      BY <2>3, Zenon
    <3>3. \A i \in 1 .. Len(created') : i \in 1 .. Len(created) \/ i = n
      BY <2>4
    <3> HIDE DEF n, CallsInv
    <3> QED
      BY <3>1, <3>2, <3>3
  <2>8. ASSUME NEW s \in Creators, pc'[s] # "idle"
        PROVE  /\ s # t /\ pc[s] # "idle" /\ preview'[s] = preview[s]
               /\ \A i \in 1 .. Len(created') : created'[i].preview # preview'[s]
    <3>1. s # t /\ pc[s] # "idle" /\ preview'[s] = preview[s]
      BY <2>1, <2>2, <2>8, Zenon
    <3>2. preview[t] # preview[s]
      BY <2>1, <3>1
    <3>3. \A i \in 1 .. Len(created) : created'[i].preview # preview[s]
      BY <2>3, <3>1, Zenon
    <3> QED
      BY <2>3, <2>4, <3>1, <3>2, <3>3, Zenon
  <2> QED
    BY <2>1, <2>6, <2>7, <2>8, Zenon
<1>5. CASE UNCHANGED <<calls, pc, preview, created>>
  BY <1>5, Zenon
<1> QED
  BY <1>2, <1>3, <1>4, <1>5, Zenon
     DEF Next, Poll, vars, creatorVars, cacheVars

LEMMA RecentStep ==
    ASSUME TypeOK, IdsAreRecent, [Next]_vars
    PROVE  IdsAreRecent'
<1>1. ASSUME NEW t \in Creators, Insert(t) PROVE IdsAreRecent'
  <2>1. Len(created) \in Nat /\ CacheLimit \in Nat
    BY CacheLimitAssumption DEF TypeOK
  <2>2. /\ Len(ids') = IF Len(ids) < CacheLimit THEN Len(ids) + 1 ELSE CacheLimit
        /\ \A i \in 1 .. Len(ids') :
             ids'[i] = IF i = 1 THEN uuidStr[t] ELSE ids[i - 1]
        /\ Len(created') = Len(created) + 1
        /\ \A i \in 1 .. Len(created) : created'[i] = created[i]
        /\ created'[Len(created) + 1].id = uuidStr[t]
    BY <1>1, InsertFacts, Zenon
  <2>3. /\ Len(ids) = IF Len(created) < CacheLimit THEN Len(created)
                                                   ELSE CacheLimit
        /\ \A i \in 1 .. Len(ids) : ids[i] = created[Len(created) + 1 - i].id
    BY DEF IdsAreRecent
  <2>4. Len(ids') = IF Len(created') < CacheLimit THEN Len(created')
                                                  ELSE CacheLimit
    BY <2>1, <2>2, <2>3
  <2>5. ASSUME NEW i \in 1 .. Len(ids')
        PROVE  ids'[i] = created'[Len(created') + 1 - i].id
    <3>1. CASE i = 1
      BY <2>1, <2>2, <3>1
    <3>2. CASE i # 1
      <4>1. /\ i - 1 \in 1 .. Len(ids)
            /\ Len(created) + 1 - (i - 1) \in 1 .. Len(created)
            /\ Len(created) + 1 - (i - 1) = Len(created') + 1 - i
        BY <2>1, <2>2, <2>3, <3>2
      <4> QED
        BY <2>2, <2>3, <3>2, <4>1
    <3> QED
      BY <3>1, <3>2
  <2> QED
    BY <2>4, <2>5 DEF IdsAreRecent
<1>2. CASE UNCHANGED <<ids, created>>
  BY <1>2 DEF IdsAreRecent
<1> QED
  BY <1>1, <1>2, Zenon DEF Next, Call, LoadSeq, StoreSeq, Name, Poll, vars,
                           creatorVars, cacheVars

LEMMA OrphansStep ==
    ASSUME TypeOK, NoOrphans, [Next]_vars
    PROVE  NoOrphans'
<1>1. ASSUME NEW t \in Creators, Insert(t) PROVE NoOrphans'
  <2> SUFFICES ASSUME NEW key \in DOMAIN pictures' PROVE key \in Range(ids')
    BY DEF NoOrphans
  <2> DEFINE list == AtFront(uuidStr[t], ids)
  <2>1. /\ key \in DOMAIN pictures \/ key = uuidStr[t]
        /\ \A i \in CacheLimit + 1 .. Len(list) : key # list[i]
        /\ Len(list) = Len(ids) + 1
        /\ \A i \in 1 .. Len(list) :
             list[i] = IF i = 1 THEN uuidStr[t] ELSE ids[i - 1]
    BY <1>1, MapFacts
  <2> HIDE DEF list
  <2>2. /\ Len(ids') = IF Len(ids) < CacheLimit THEN Len(ids) + 1 ELSE CacheLimit
        /\ \A i \in 1 .. Len(ids') :
             ids'[i] = IF i = 1 THEN uuidStr[t] ELSE ids[i - 1]
        /\ ids' \in Seq(Id)
    BY <1>1, InsertFacts, Zenon
  <2>3. Len(ids) \in Nat /\ CacheLimit \in Nat
    BY CacheLimitAssumption DEF TypeOK
  <2>4. PICK i \in 1 .. Len(list) : key = list[i]
    <3>1. CASE key = uuidStr[t]
      BY <2>1, <2>3, <3>1
    <3>2. CASE key \in DOMAIN pictures
      <4>1. PICK j \in 1 .. Len(ids) : key = ids[j]
        <5>1. DOMAIN ids = 1 .. Len(ids)
          BY DEF TypeOK
        <5>2. key \in {ids[j] : j \in DOMAIN ids}
          BY <3>2, Zenon DEF NoOrphans, Range
        <5> QED
          BY <5>1, <5>2
      <4>2. j + 1 \in 1 .. Len(list) /\ list[j + 1] = key
        BY <2>1, <2>3, <4>1
      <4> QED
        BY <4>2
    <3> QED
      BY <2>1, <3>1, <3>2
  <2>5. i \in 1 .. Len(ids') /\ ids'[i] = key
    BY <2>1, <2>2, <2>3, <2>4
  <2>6. DOMAIN ids' = 1 .. Len(ids')
    BY <2>2
  <2> QED
    BY <2>5, <2>6, Zenon DEF Range
<1>2. CASE UNCHANGED <<ids, pictures>>
  BY <1>2 DEF NoOrphans, Range
<1> QED
  BY <1>1, <1>2, Zenon DEF Next, Call, LoadSeq, StoreSeq, Name, Poll, vars,
                           creatorVars, cacheVars

LEMMA SeenStep ==
    ASSUME TypeOK, IdsAreRecent, SeenInv, [Next]_vars
    PROVE  SeenInv'
<1>1. Len(created) \in Nat /\ Len(ids) \in Nat /\ CacheLimit \in Nat
  BY CacheLimitAssumption DEF TypeOK
<1>2. ASSUME NEW t \in Creators, Insert(t) PROVE SeenInv'
  <2>1. /\ Len(created') = Len(created) + 1
        /\ \A i \in 1 .. Len(created) : created'[i] = created[i]
        /\ prev' = prev /\ received' = received
    BY <1>2, InsertFacts, Zenon DEF Insert, clientVars
  <2> SUFFICES ASSUME NEW c \in Clients, received[c] # {}
               PROVE  \E k \in 1 .. Len(created') :
                         /\ prev[c] = created'[k].id
                         /\ received[c] \subseteq {created'[i].id : i \in 1 .. k}
    BY <2>1, Zenon DEF SeenInv
  <2>2. PICK k \in 1 .. Len(created) :
            /\ prev[c] = created[k].id
            /\ received[c] \subseteq {created[i].id : i \in 1 .. k}
    BY DEF SeenInv
  <2>3. k \in 1 .. Len(created') /\ \A i \in 1 .. k : i \in 1 .. Len(created)
    BY <1>1, <2>1
  <2>4. {created[i].id : i \in 1 .. k} = {created'[i].id : i \in 1 .. k}
    BY <2>1, <2>3
  <2> QED
    BY <2>1, <2>2, <2>3, <2>4, Zenon
<1>3. ASSUME NEW c \in Clients, Poll(c) PROVE SeenInv'
  <2> DEFINE listing == Listing(prev[c], ids)
  <2>1. created' = created
    BY <1>3 DEF Poll, cacheVars
  <2>2. PICK n \in 0 .. Len(ids) :
           /\ listing \in Seq(Id) /\ Len(listing) = n
           /\ \A i \in 1 .. n : listing[i] = ids[i]
    <3>1. ids \in Seq(Id)
      BY DEF TypeOK
    <3>2. \E n \in 0 .. Len(ids) :
             /\ listing = SubSeq(ids, 1, n)
             /\ listing \in Seq(Id)
             /\ Len(listing) = n
             /\ n <= ReturnLimit
             /\ n = ReturnLimit \/ n = Len(ids) \/ ids[n + 1] = prev[c]
             /\ \A i \in 1 .. n : listing[i] = ids[i] /\ ids[i] # prev[c]
      BY <3>1, ListingFacts, Zenon
    <3> HIDE DEF listing
    <3> QED
      BY <3>2, Zenon
  <2> HIDE DEF listing
  <2>3. CASE UNCHANGED clientVars
    BY <2>1, <2>3 DEF SeenInv, clientVars
  <2>4. CASE /\ prev' = [prev EXCEPT ![c] =
                            IF listing = <<>> THEN @ ELSE listing[1]]
             /\ received' = [received EXCEPT ![c] = @ \union Range(listing)]
    <3> SUFFICES ASSUME NEW d \in Clients, received'[d] # {}
                 PROVE  \E k \in 1 .. Len(created) :
                           /\ prev'[d] = created[k].id
                           /\ received'[d] \subseteq {created[i].id : i \in 1 .. k}
      BY <2>1 DEF SeenInv
    <3>1. CASE d # c \/ listing = <<>>
      <4>1. prev'[d] = prev[d] /\ received'[d] = received[d]
        BY <2>4, <3>1 DEF TypeOK, Range
      <4> QED
        BY <4>1, Zenon DEF SeenInv
    <3>2. CASE d = c /\ listing # <<>>
      <4> DEFINE k == Len(created)
                 All == {created[i].id : i \in 1 .. k}
      <4>1. n \in 1 .. Len(ids)
        BY <1>1, <2>2, <3>2
      <4>2. /\ k \in 1 .. Len(created)
            /\ \A i \in 1 .. n : /\ ids[i] = created[k + 1 - i].id
                                 /\ k + 1 - i \in 1 .. k
        BY <1>1, <4>1 DEF IdsAreRecent
      <4>3. prev'[d] = created[k].id
        <5>1. prev'[d] = listing[1]
          BY <2>4, <3>2 DEF TypeOK
        <5> QED
          BY <1>1, <2>2, <4>1, <4>2, <5>1
      <4>4. Range(listing) \subseteq All
        <5>1. \A i \in 1 .. n : listing[i] \in All
          BY <2>2, <4>1, <4>2
        <5> QED
          BY <2>2, <5>1 DEF Range
      <4>5. received[d] \subseteq All
        BY <1>1 DEF SeenInv
      <4>6. received'[d] = received[d] \union Range(listing)
        BY <2>4, <3>2 DEF TypeOK
      <4> QED
        BY <4>2, <4>3, <4>4, <4>5, <4>6
    <3> QED
      BY <3>1, <3>2
  <2> QED
    BY <1>3, <2>3, <2>4, Zenon DEF Poll, listing
<1>4. CASE UNCHANGED <<created, clientVars>>
  BY <1>4 DEF SeenInv, clientVars
<1> QED
  BY <1>2, <1>3, <1>4, Zenon DEF Next, Call, LoadSeq, StoreSeq, Name, vars,
                                 cacheVars

\* What has once happened stays known.
LEMMA HistoryStep ==
    ASSUME TypeOK, [Next]_vars
    PROVE  (fallback => fallback') /\ (overlap => overlap')
BY Zenon DEF TypeOK, Next, Call, LoadSeq, StoreSeq, Name, Insert, Poll, vars, history

LEMMA UniqueNamesStep ==
    ASSUME TypeOK, [Next]_vars, UniqueNames'
    PROVE  UniqueNames
BY HistoryStep, Zenon DEF UniqueNames

\* Where names are unique, the id that is about to be inserted is a new one.
LEMMA FreshId ==
    ASSUME TypeOK, CallsInv, NamesInv, UniqueNames,
           NEW t \in Creators, pc[t] = "insert"
    PROVE  /\ \A i \in 1 .. Len(created) : created[i].id # uuidStr[t]
           /\ ~fallback => uuidStr[t] = RandomId(preview[t])
           /\ ~overlap => uuidStr[t] = RandomId(preview[t]) \/ uuidStr[t] = SeqId(seq)
<1>1. \A i \in 1 .. Len(created) : created[i].preview # preview[t]
  BY Zenon DEF CallsInv
<1>2. ~fallback => RandomNames
  BY Zenon DEF NamesInv
<1>3. ~overlap => SeqNames
  BY Zenon DEF NamesInv
<1>4. ~fallback => uuidStr[t] = RandomId(preview[t])
  BY <1>2, Zenon DEF RandomNames
<1>5. ~overlap => uuidStr[t] = RandomId(preview[t]) \/ uuidStr[t] = SeqId(seq)
  BY <1>3, Zenon DEF SeqNames
<1>6. CASE ~fallback
  <2>1. \A i \in 1 .. Len(created) : created[i].id # uuidStr[t]
    BY <1>1, <1>2, <1>4, <1>6, IdFacts, Zenon DEF RandomNames
  <2> QED
    BY <1>4, <1>5, <2>1, Zenon
<1>7. CASE ~overlap
  <2>1. SeqNames
    BY <1>3, <1>7
  <2>2. CASE uuidStr[t] = RandomId(preview[t])
    BY <1>1, <1>4, <1>5, <2>1, <2>2, IdFacts, Zenon DEF SeqNames
  <2>3. CASE uuidStr[t] = SeqId(seq)
    BY <1>4, <1>5, <2>1, <2>3, Zenon DEF SeqNames
  <2> QED
    BY <1>5, <1>7, <2>2, <2>3, Zenon
<1> QED
  BY <1>6, <1>7, Zenon DEF UniqueNames

LEMMA RandomNamesStep ==
    ASSUME TypeOK, CallsInv, NamesInv, ~fallback', [Next]_vars
    PROVE  RandomNames'
<1>1. ~fallback /\ RandomNames /\ UniqueNames
  BY HistoryStep, Zenon DEF NamesInv, UniqueNames
<1>2. ASSUME NEW t \in Creators,
             Call(t) \/ LoadSeq(t) \/ StoreSeq(t) \/ Name(t)
      PROVE  RandomNames'
  <2>1. created' = created
    BY <1>2, Zenon DEF Call, LoadSeq, StoreSeq, Name, cacheVars
  <2>2. ASSUME NEW s \in Creators, pc'[s] = "insert"
        PROVE  uuidStr'[s] = RandomId(preview'[s])
    <3>1. CASE s = t
      <4>1. Name(t)
        BY <1>2, <2>2, <3>1 DEF TypeOK, Call, LoadSeq, StoreSeq
      <4>2. preview' = preview
            /\ uuidStr' = [uuidStr EXCEPT ![t] = RandomId(preview[t])]
        BY <4>1, Zenon DEF Name
      <4> QED
        BY <3>1, <4>2, Zenon DEF TypeOK
    <3>2. CASE s # t
      <4>1. pc[s] = "insert" /\ uuidStr'[s] = uuidStr[s] /\ preview'[s] = preview[s]
        BY <1>2, <2>2, <3>2 DEF TypeOK, Call, LoadSeq, StoreSeq, Name
      <4> QED
        BY <1>1, <4>1, Zenon DEF RandomNames
    <3> QED
      BY <3>1, <3>2
  <2> QED
    BY <1>1, <2>1, <2>2, Zenon DEF RandomNames
<1>3. ASSUME NEW t \in Creators, Insert(t) PROVE RandomNames'
  <2>1. /\ uuidStr' = uuidStr /\ preview' = preview
        /\ pc[t] = "insert" /\ pc' = [pc EXCEPT ![t] = "idle"]
    BY <1>3, Zenon DEF Insert
  <2>2. \A s \in Creators : pc'[s] = "insert" => pc[s] = "insert"
    BY <2>1 DEF TypeOK
  <2>3. /\ Len(created') = Len(created) + 1
        /\ \A i \in 1 .. Len(created) : created'[i] = created[i]
        /\ created'[Len(created) + 1].id = uuidStr[t]
        /\ created'[Len(created) + 1].preview = preview[t]
    BY <1>3, InsertFacts, Zenon
  <2>4. uuidStr[t] = RandomId(preview[t])
    BY <1>1, <2>1, FreshId
  <2>5. \A i \in 1 .. Len(created') :
           i \in 1 .. Len(created) \/ i = Len(created) + 1
    BY <2>3 DEF TypeOK
  <2> QED
    BY <1>1, <2>1, <2>2, <2>3, <2>4, <2>5, Zenon DEF RandomNames
<1>4. CASE UNCHANGED <<created, pc, uuidStr, preview>>
  BY <1>1, <1>4, Zenon DEF RandomNames
<1> QED
  BY <1>2, <1>3, <1>4, Zenon DEF Next, Poll, vars, creatorVars, cacheVars

\* While creators have never overlapped, the only one at work is the one that
\* takes the step.
LEMMA SeqNamesStep ==
    ASSUME TypeOK, CallsInv, NamesInv, ~overlap', [Next]_vars
    PROVE  SeqNames'
<1>1. ~overlap /\ SeqNames /\ UniqueNames
  BY HistoryStep, Zenon DEF NamesInv, UniqueNames
<1>2. seq \in Nat
  BY DEF TypeOK
<1>3. ASSUME NEW t \in Creators, pc[t] # "idle"
      PROVE  \A s \in Creators \ {t} : pc[s] = "idle"
  BY <1>1, <1>3, Zenon DEF SeqNames
<1>4. ASSUME NEW t \in Creators, Call(t) PROVE SeqNames'
  <2>1. /\ created' = created /\ seq' = seq
        /\ overlap' = (overlap \/ \E s \in Creators \ {t} : pc[s] # "idle")
        /\ pc' = [pc EXCEPT ![t] = "load"]
    BY <1>4, Zenon DEF Call, cacheVars
  <2>2. \A s \in Creators \ {t} : pc[s] = "idle"
    BY <2>1, Zenon
  <2>3. pc'[t] = "load" /\ \A s \in Creators \ {t} : pc'[s] = "idle"
    BY <2>1, <2>2 DEF TypeOK
  <2> QED
    BY <1>1, <2>1, <2>3 DEF SeqNames
<1>5. ASSUME NEW t \in Creators, LoadSeq(t) PROVE SeqNames'
  <2>1. /\ created' = created /\ seq' = seq
        /\ pc[t] # "idle" /\ pc'[t] = "store" /\ loaded'[t] = seq
        /\ \A s \in Creators \ {t} : pc'[s] = pc[s]
    BY <1>5 DEF TypeOK, LoadSeq, cacheVars
  <2>2. \A s \in Creators \ {t} : pc'[s] = "idle"
    BY <1>3, <2>1, Zenon
  <2> QED
    BY <1>1, <2>1, <2>2 DEF SeqNames
<1>6. ASSUME NEW t \in Creators, StoreSeq(t) PROVE SeqNames'
  <2>1. /\ created' = created
        /\ seq' = loaded[t] + 1 /\ loaded[t] = seq
        /\ pc[t] # "idle" /\ pc'[t] = "name"
        /\ \A s \in Creators \ {t} : pc'[s] = pc[s]
    BY <1>1, <1>6 DEF TypeOK, StoreSeq, cacheVars, SeqNames
  <2>2. \A s \in Creators \ {t} : pc'[s] = "idle"
    BY <1>3, <2>1, Zenon
  <2>3. \A i \in 1 .. Len(created) :
           \/ created'[i].id = RandomId(created'[i].preview)
           \/ \E n \in 0 .. seq : created'[i].id = SeqId(n)
    BY <1>1, <2>1 DEF SeqNames
  <2>4. \A n \in 0 .. seq : n \in 0 .. seq' /\ n # seq'
    BY <1>2, <2>1
  <2>5. \A i \in 1 .. Len(created) : created'[i].id # SeqId(seq')
    BY <2>3, <2>4, IdFacts, Zenon
  <2>6. \A i \in 1 .. Len(created') :
           \/ created'[i].id = RandomId(created'[i].preview)
           \/ \E n \in 0 .. seq' : created'[i].id = SeqId(n)
    BY <2>1, <2>3, <2>4, Zenon
  <2> QED
    BY <2>1, <2>2, <2>5, <2>6 DEF SeqNames
<1>7. ASSUME NEW t \in Creators, Name(t) PROVE SeqNames'
  <2>1. /\ created' = created /\ seq' = seq /\ preview' = preview
        /\ pc[t] = "name" /\ pc'[t] = "insert"
        /\ \A s \in Creators \ {t} : pc'[s] = pc[s]
    BY <1>7 DEF TypeOK, Name, cacheVars
  <2>2. \A s \in Creators \ {t} : pc'[s] = "idle"
    BY <1>3, <2>1
  <2>3. uuidStr'[t] \in {RandomId(preview[t]), SeqId(seq)}
    BY <1>7, Zenon DEF TypeOK, Name, FallbackId
  <2> QED
    BY <1>1, <2>1, <2>2, <2>3 DEF SeqNames
<1>8. ASSUME NEW t \in Creators, Insert(t) PROVE SeqNames'
  <2>1. /\ seq' = seq /\ pc[t] = "insert" /\ pc'[t] = "idle"
        /\ \A s \in Creators \ {t} : pc'[s] = pc[s]
    BY <1>8 DEF TypeOK, Insert
  <2>2. \A s \in Creators : pc'[s] = "idle"
    BY <1>3, <2>1
  <2>3. /\ Len(created') = Len(created) + 1
        /\ \A i \in 1 .. Len(created) : created'[i] = created[i]
        /\ created'[Len(created) + 1].id = uuidStr[t]
        /\ created'[Len(created) + 1].preview = preview[t]
    BY <1>8, InsertFacts, Zenon
  <2>4. uuidStr[t] = RandomId(preview[t]) \/ uuidStr[t] = SeqId(seq)
    BY <1>1, <2>1, FreshId
  <2>5. \A i \in 1 .. Len(created') :
           i \in 1 .. Len(created) \/ i = Len(created) + 1
    BY <2>3 DEF TypeOK
  <2>6. seq \in 0 .. seq
    BY <1>2
  <2>7. \A i \in 1 .. Len(created') :
           \/ created'[i].id = RandomId(created'[i].preview)
           \/ \E n \in 0 .. seq : created'[i].id = SeqId(n)
    BY <1>1, <2>3, <2>4, <2>5, <2>6, Zenon DEF SeqNames
  <2> QED
    BY <2>1, <2>2, <2>7 DEF SeqNames
<1>9. CASE UNCHANGED <<created, seq, pc, loaded, uuidStr, preview>>
  BY <1>1, <1>9 DEF SeqNames
<1> QED
  BY <1>4, <1>5, <1>6, <1>7, <1>8, <1>9, Zenon
     DEF Next, Poll, vars, creatorVars, cacheVars

LEMMA NamesStep ==
    ASSUME TypeOK, CallsInv, NamesInv, [Next]_vars
    PROVE  NamesInv'
<1>1. ~fallback' => RandomNames'
  BY RandomNamesStep
<1>2. ~overlap' => SeqNames'
  BY SeqNamesStep
<1>3. ASSUME UniqueNames'
      PROVE  \A i, j \in 1 .. Len(created') :
                i # j => created'[i].id # created'[j].id
  <2>1. UniqueNames
    BY <1>3, UniqueNamesStep
  <2>2. ASSUME NEW t \in Creators, Insert(t)
        PROVE  \A i, j \in 1 .. Len(created') :
                  i # j => created'[i].id # created'[j].id
    <3> DEFINE n == Len(created) + 1
    <3>1. /\ Len(created') = n
          /\ \A i \in 1 .. Len(created) : created'[i] = created[i]
          /\ created'[n].id = uuidStr[t]
      BY <2>2, InsertFacts, Zenon
    <3>2. \A i \in 1 .. Len(created) : created[i].id # uuidStr[t]
      BY <2>1, <2>2, FreshId DEF Insert
    <3>3. \A i \in 1 .. Len(created) : created'[i].id # created'[n].id
      BY <3>1, <3>2, Zenon
    <3>4. \A i, j \in 1 .. Len(created) : i # j => created'[i].id # created'[j].id
      BY <2>1, <3>1, Zenon DEF NamesInv
    <3>5. \A i \in 1 .. Len(created') : i \in 1 .. Len(created) \/ i = n
      BY <3>1 DEF TypeOK
    <3> HIDE DEF n
    <3> QED
      BY <3>3, <3>4, <3>5
  <2>3. CASE UNCHANGED created
    BY <2>1, <2>3 DEF NamesInv
  <2> QED
    BY <2>2, <2>3, Zenon DEF Next, Call, LoadSeq, StoreSeq, Name, Poll, vars,
                             cacheVars
<1> QED
  BY <1>1, <1>2, <1>3, Zenon DEF NamesInv

\* List and map stay together as long as ids are unique: the evicted ids are
\* then none of those that stay.
LEMMA MatchStep ==
    ASSUME TypeOK, CallsInv, IdsAreRecent, NamesInv, PicturesMatchIds, NamesInv',
           IdsAreRecent', NoOrphans', [Next]_vars
    PROVE  PicturesMatchIds'
<1>1. SUFFICES ASSUME UniqueNames' PROVE PicturesMatchIds'
  BY Zenon DEF PicturesMatchIds
<1>2. UniqueNames
  BY <1>1, UniqueNamesStep
<1>3. ASSUME NEW t \in Creators, Insert(t) PROVE PicturesMatchIds'
  <2> DEFINE list == AtFront(uuidStr[t], ids)
             n == Len(created)
  <2>1. /\ \A key : key \in DOMAIN pictures' <=>
             /\ key \in DOMAIN pictures \/ key = uuidStr[t]
             /\ \A i \in CacheLimit + 1 .. Len(list) : key # list[i]
        /\ \A key \in DOMAIN pictures' :
             pictures'[key] = IF key \in DOMAIN pictures
                              THEN pictures[key] ELSE preview[t]
        /\ Len(list) = Len(ids) + 1
        /\ \A i \in 1 .. Len(list) :
             list[i] = IF i = 1 THEN uuidStr[t] ELSE ids[i - 1]
    BY <1>3, MapFacts
  <2> HIDE DEF list
  <2>2. /\ Len(ids') = IF Len(ids) < CacheLimit THEN Len(ids) + 1 ELSE CacheLimit
        /\ \A i \in 1 .. Len(ids') :
             ids'[i] = IF i = 1 THEN uuidStr[t] ELSE ids[i - 1]
        /\ ids' \in Seq(Id)
    BY <1>3, InsertFacts, Zenon
  <2>3. /\ Len(created') = n + 1
        /\ \A i \in 1 .. n : created'[i] = created[i]
        /\ created'[n + 1].id = uuidStr[t]
        /\ created'[n + 1].preview = preview[t]
    BY <1>3, InsertFacts, Zenon
  <2>4. Len(ids) \in Nat /\ n \in Nat /\ CacheLimit \in Nat /\ ids \in Seq(Id)
    BY CacheLimitAssumption DEF TypeOK
  <2>5. /\ Len(ids) <= n
        /\ \A i \in 1 .. Len(ids) : ids[i] = created[n + 1 - i].id
    BY <2>4 DEF IdsAreRecent
  <2>6. \A i, j \in 1 .. n + 1 : i # j => created'[i].id # created'[j].id
    BY <1>1, <2>3, Zenon DEF NamesInv
  <2>7. \A i \in 1 .. Len(list) : /\ n + 2 - i \in 1 .. n + 1
                                  /\ list[i] = created'[n + 2 - i].id
    <3> SUFFICES ASSUME NEW i \in 1 .. Len(list)
                 PROVE  /\ n + 2 - i \in 1 .. n + 1
                        /\ list[i] = created'[n + 2 - i].id
      OBVIOUS
    <3>1. CASE i = 1
      BY <2>1, <2>3, <2>4, <3>1
    <3>2. CASE i # 1
      <4>1. /\ i - 1 \in 1 .. Len(ids) /\ n + 1 - (i - 1) \in 1 .. n
            /\ n + 1 - (i - 1) = n + 2 - i
        BY <2>1, <2>4, <2>5, <3>2
      <4>2. created'[n + 2 - i] = created[n + 2 - i]
        BY <2>3, <4>1
      <4>3. list[i] = ids[i - 1] /\ ids[i - 1] = created[n + 2 - i].id
        BY <2>1, <2>5, <3>2, <4>1
      <4> QED
        BY <2>4, <4>1, <4>2, <4>3
    <3> QED
      BY <3>1, <3>2
  <2>8. \A i, j \in 1 .. Len(list) : i # j => list[i] # list[j]
    <3> HIDE DEF n
    <3> SUFFICES ASSUME NEW i \in 1 .. Len(list), NEW j \in 1 .. Len(list), i # j
                 PROVE  list[i] # list[j]
      OBVIOUS
    <3>1. n + 2 - i # n + 2 - j
      BY <2>4
    <3> QED
      BY <2>6, <2>7, <3>1, Zenon
  <2>9. \A i \in 1 .. Len(ids) : ids[i] \in DOMAIN pictures
    BY <1>2, <2>4 DEF PicturesMatchIds, Range
  <2>10. uuidStr[t] \notin DOMAIN pictures
    <3>1. \A i \in 1 .. n : created[i].id # uuidStr[t]
      BY <1>3, <1>2, FreshId DEF Insert
    <3>2. \A i \in 1 .. Len(ids) : ids[i] # uuidStr[t]
      BY <2>4, <2>5, <3>1
    <3>3. \A key \in DOMAIN pictures : \E i \in 1 .. Len(ids) : key = ids[i]
      BY <1>2, <2>4 DEF PicturesMatchIds, Range
    <3> QED
      BY <3>2, <3>3, Zenon
  <2>11. ASSUME NEW i \in 1 .. Len(ids')
         PROVE  /\ ids'[i] \in DOMAIN pictures'
                /\ pictures'[ids'[i]] = created'[n + 2 - i].preview
    <3>1. i \in 1 .. Len(list) /\ ids'[i] = list[i] /\ i <= CacheLimit
      BY <2>1, <2>2, <2>4
    <3>2. \A j \in CacheLimit + 1 .. Len(list) : list[i] # list[j]
      BY <2>4, <2>8, <3>1
    <3>3. CASE i = 1
      <4>1. ids'[i] = uuidStr[t] /\ created'[n + 2 - i].preview = preview[t]
        BY <2>2, <2>3, <2>4, <3>3
      <4> QED
        BY <2>1, <2>10, <3>1, <3>2, <4>1, Zenon
    <3>4. CASE i # 1
      <4>1. /\ i - 1 \in 1 .. Len(ids) /\ ids'[i] = ids[i - 1]
            /\ n + 1 - (i - 1) = n + 2 - i /\ n + 2 - i \in 1 .. n
        BY <2>1, <2>2, <2>4, <2>5, <3>1, <3>4
      <4>2. ids'[i] \in DOMAIN pictures
        BY <2>9, <4>1, Zenon
      <4>3. pictures[ids'[i]] = created[n + 2 - i].preview
        BY <1>2, <4>1 DEF PicturesMatchIds
      <4>4. ids'[i] \in DOMAIN pictures'
        BY <2>1, <3>1, <3>2, <4>2, Zenon
      <4>5. created'[n + 2 - i] = created[n + 2 - i]
        BY <2>3, <4>1, Zenon
      <4> QED
        BY <2>1, <4>2, <4>3, <4>4, <4>5, Zenon
    <3> QED
      BY <3>3, <3>4
  <2>12. DOMAIN pictures' = Range(ids')
    <3>1. DOMAIN ids' = 1 .. Len(ids')
      BY <2>2
    <3>2. Range(ids') \subseteq DOMAIN pictures'
      BY <2>11, <3>1 DEF Range
    <3> QED
      BY <3>2, Zenon DEF NoOrphans
  <2>13. \A i \in 1 .. Len(ids') :
            pictures'[ids'[i]] = created'[Len(created') + 1 - i].preview
    <3> SUFFICES ASSUME NEW i \in 1 .. Len(ids')
                 PROVE  pictures'[ids'[i]] = created'[Len(created') + 1 - i].preview
      OBVIOUS
    <3>1. Len(created') + 1 - i = n + 2 - i
      BY <2>2, <2>3, <2>4
    <3> QED
      BY <2>11, <3>1, Zenon
  <2> QED
    BY <2>12, <2>13, Zenon DEF PicturesMatchIds
<1>4. CASE UNCHANGED <<ids, pictures, created>>
  BY <1>2, <1>4 DEF PicturesMatchIds, Range
<1> QED
  BY <1>3, <1>4, Zenon DEF Next, Call, LoadSeq, StoreSeq, Name, Poll, vars,
                           creatorVars, cacheVars

\* Every step preserves the invariant.
LEMMA PreviewStep ==
    ASSUME PreviewInv, [Next]_vars
    PROVE  PreviewInv'
<1>1. /\ TypeOK /\ CallsInv /\ IdsAreRecent /\ NoOrphans /\ SeenInv
      /\ NamesInv /\ PicturesMatchIds
  BY Zenon DEF PreviewInv
<1>2. TypeOK' /\ CallsInv' /\ IdsAreRecent' /\ NoOrphans' /\ SeenInv'
  BY <1>1, TypeStep, CallsStep, RecentStep, OrphansStep, SeenStep
<1>3. NamesInv'
  BY <1>1, NamesStep
<1>4. PicturesMatchIds'
  BY <1>1, <1>2, <1>3, MatchStep
<1> QED
  BY <1>2, <1>3, <1>4, Zenon DEF PreviewInv

-----------------------------------------------------------------------------
(* The theorems. *)

\* The inductive invariant of the cache of previews holds in every state.
THEOREM PreviewInvariant == Spec => []PreviewInv
<1>1. Init => PreviewInv
  BY InitInv
<1>2. PreviewInv /\ [Next]_vars => PreviewInv'
  BY PreviewStep
<1> QED
  BY <1>1, <1>2, PTL DEF Spec

\* Every variable keeps to its type: the previews in the map are those that
\* createPreview was given, and the ids those it has chosen.
THEOREM TypeCorrect == Spec => []TypeOK
<1>1. PreviewInv => TypeOK
  BY Zenon DEF PreviewInv
<1> QED
  BY <1>1, PreviewInvariant, PTL

\* The list holds the newest previews, whichever threads insert them: the loop
\* that evicts (PicturePreviewHandler.cpp:160-164) takes the oldest one.
THEOREM ListIsRecent == Spec => []IdsAreRecent
<1>1. PreviewInv => IdsAreRecent
  BY Zenon DEF PreviewInv
<1> QED
  BY <1>1, PreviewInvariant, PTL

\* No preview outlives its place in the list, even when ids repeat.
THEOREM NothingIsOrphaned == Spec => []NoOrphans
<1>1. PreviewInv => NoOrphans
  BY Zenon DEF PreviewInv
<1> QED
  BY <1>1, PreviewInvariant, PTL

\* Where ids are unique, list and map agree, so that a listing never throws and
\* every id shows its own pictures.
THEOREM PicturesAreListed == Spec => []PicturesMatchIds
<1>1. PreviewInv => PicturesMatchIds
  BY Zenon DEF PreviewInv
<1> QED
  BY <1>1, PreviewInvariant, PTL

\* Where ids are unique, no client is ever given a preview twice, whatever was
\* evicted between its requests.
THEOREM ListingsAreNew == Spec => []NextListingIsNew
<1>1. ASSUME PreviewInv PROVE NextListingIsNew
  <2>1. TypeOK /\ IdsAreRecent /\ SeenInv /\ NamesInv
    BY <1>1, Zenon DEF PreviewInv
  <2> SUFFICES ASSUME UniqueNames, NEW c \in Clients,
                      NEW id \in Range(Listing(prev[c], ids)), id \in received[c]
               PROVE  FALSE
    BY DEF NextListingIsNew
  <2> DEFINE m == Len(created)
             listing == Listing(prev[c], ids)
  <2>2. ids \in Seq(Id) /\ Len(ids) \in Nat /\ m \in Nat /\ CacheLimit \in Nat
    BY <2>1, CacheLimitAssumption DEF TypeOK
  <2>3. PICK n \in 0 .. Len(ids) :
           /\ listing \in Seq(Id) /\ Len(listing) = n
           /\ \A i \in 1 .. n : listing[i] = ids[i] /\ ids[i] # prev[c]
    <3>1. \E n \in 0 .. Len(ids) :
             /\ listing = SubSeq(ids, 1, n)
             /\ listing \in Seq(Id)
             /\ Len(listing) = n
             /\ n <= ReturnLimit
             /\ n = ReturnLimit \/ n = Len(ids) \/ ids[n + 1] = prev[c]
             /\ \A i \in 1 .. n : listing[i] = ids[i] /\ ids[i] # prev[c]
      BY <2>2, ListingFacts, Zenon
    <3> HIDE DEF listing
    <3> QED
      BY <3>1, Zenon
  <2>4. id \in Range(listing)
    OBVIOUS
  <2> HIDE DEF listing
  <2>5. PICK i \in 1 .. n : id = ids[i]
    BY <2>2, <2>3, <2>4 DEF Range
  <2>6. PICK k \in 1 .. m :
            /\ prev[c] = created[k].id
            /\ received[c] \subseteq {created[j].id : j \in 1 .. k}
    BY <2>1 DEF SeenInv
  <2>7. PICK j \in 1 .. k : id = created[j].id
    BY <2>6
  <2>8. \A h \in 1 .. Len(ids) : ids[h] = created[m + 1 - h].id
    BY <2>1 DEF IdsAreRecent
  <2>9. Len(ids) <= m
    BY <2>1, <2>2 DEF IdsAreRecent
  <2>10. m + 1 - i \in 1 .. m /\ i \in 1 .. Len(ids) /\ j \in 1 .. m
    BY <2>2, <2>3, <2>5, <2>6, <2>7, <2>9
  <2>11. created[m + 1 - i].id = created[j].id
    BY <2>5, <2>7, <2>8, <2>10, Zenon
  <2>12. m + 1 - i = j
    BY <2>1, <2>10, <2>11, Zenon DEF NamesInv
  <2> HIDE DEF m
  <2>13. m + 1 - k \in 1 .. n /\ m + 1 - (m + 1 - k) = k
    BY <2>2, <2>3, <2>5, <2>6, <2>7, <2>12
  <2>14. m + 1 - k \in 1 .. Len(ids)
    BY <2>2, <2>3, <2>13
  <2>15. ids[m + 1 - k] = created[k].id
    BY <2>8, <2>13, <2>14 DEF m
  <2> QED
    BY <2>3, <2>6, <2>13, <2>15, Zenon
<1>2. PreviewInv => NextListingIsNew
  BY <1>1
<1> QED
  BY <1>2, PreviewInvariant, PTL
-----------------------------------------------------------------------------
(* What a client has been given. *)

\* The id a client gives is the newest that it has received, if there is one.
LastReceived ==
    \A c \in Clients : IF received[c] = {} THEN prev[c] = NoId
                                          ELSE prev[c] \in received[c]

LEMMA LastReceivedStep ==
    ASSUME TypeOK, LastReceived, [Next]_vars
    PROVE  LastReceived'
<1>1. ASSUME NEW c \in Clients, Poll(c) PROVE LastReceived'
  <2> DEFINE listing == Listing(prev[c], ids)
  <2>1. CASE UNCHANGED clientVars
    BY <2>1 DEF LastReceived, clientVars
  <2>2. CASE /\ prev' = [prev EXCEPT ![c] =
                            IF listing = <<>> THEN @ ELSE listing[1]]
             /\ received' = [received EXCEPT ![c] = @ \union Range(listing)]
    <3>1. ids \in Seq(Id)
      BY DEF TypeOK
    <3>2. listing \in Seq(Id)
      BY <3>1, ListingFacts
    <3> HIDE DEF listing
    <3>3. /\ \A d \in Clients \ {c} : prev'[d] = prev[d] /\ received'[d] = received[d]
          /\ prev'[c] = IF listing = <<>> THEN prev[c] ELSE listing[1]
          /\ received'[c] = received[c] \union Range(listing)
      BY <2>2 DEF TypeOK
    <3>4. CASE listing = <<>>
      <4>1. Range(listing) = {}
        BY <3>4 DEF Range
      <4> QED
        BY <3>3, <3>4, <4>1 DEF LastReceived
    <3>5. CASE listing # <<>>
      <4>1. listing[1] \in Range(listing)
        BY <3>2, <3>5 DEF Range
      <4> QED
        BY <3>3, <3>5, <4>1 DEF LastReceived
    <3> QED
      BY <3>4, <3>5
  <2> QED
    BY <1>1, <2>1, <2>2, Zenon DEF Poll
<1>2. CASE UNCHANGED clientVars
  BY <1>2 DEF LastReceived, clientVars
<1> QED
  BY <1>1, <1>2, Zenon DEF Next, Call, LoadSeq, StoreSeq, Name, Insert, vars

\* What a client is given next, where ids are unique: with m previews created, of
\* which the k-th is the newest that it has received, the n newest.
ListingGives(c, n, k) ==
    LET m       == Len(created)
        listing == Listing(prev[c], ids)
    IN  /\ Len(listing) = n /\ n <= ReturnLimit /\ k <= m - n
        /\ n = ReturnLimit \/ n = m - k
        /\ Range(listing) \subseteq DOMAIN pictures
        /\ \A j \in 1 .. m : created[j].id \in Range(listing) <=> j > m - n
        /\ Range(listing) \subseteq {created[j].id : j \in 1 .. m}
        /\ k # 0 => created[k].id \in received[c]
        /\ \A j \in 1 .. m : created[j].id \in received[c] => j <= k

LEMMA ListingIsNewest ==
    ASSUME PreviewInv, LastReceived, UniqueNames, NEW c \in Clients
    PROVE  \E n, k \in 0 .. Len(created) : ListingGives(c, n, k)
<1> DEFINE m == Len(created)
           listing == Listing(prev[c], ids)
<1>1. /\ TypeOK /\ IdsAreRecent /\ SeenInv /\ NamesInv /\ PicturesMatchIds
  BY Zenon DEF PreviewInv
<1>2. ids \in Seq(Id) /\ Len(ids) \in Nat /\ m \in Nat /\ CacheLimit \in Nat /\ ReturnLimit \in 1 .. CacheLimit
  BY <1>1, CacheLimitAssumption, ReturnLimitAssumption DEF TypeOK
<1>3. PICK n \in 0 .. Len(ids) :
         /\ listing \in Seq(Id) /\ Len(listing) = n /\ n <= ReturnLimit
         /\ n = ReturnLimit \/ n = Len(ids) \/ ids[n + 1] = prev[c]
         /\ \A i \in 1 .. n : listing[i] = ids[i] /\ ids[i] # prev[c]
  <2>1. \E n \in 0 .. Len(ids) :
           /\ listing = SubSeq(ids, 1, n)
           /\ listing \in Seq(Id)
           /\ Len(listing) = n
           /\ n <= ReturnLimit
           /\ n = ReturnLimit \/ n = Len(ids) \/ ids[n + 1] = prev[c]
           /\ \A i \in 1 .. n : listing[i] = ids[i] /\ ids[i] # prev[c]
    BY <1>2, ListingFacts, Zenon
  <2> HIDE DEF listing
  <2> QED
    BY <2>1, Zenon
<1> HIDE DEF listing
<1>4. /\ Len(ids) = IF m < CacheLimit THEN m ELSE CacheLimit
      /\ \A i \in 1 .. Len(ids) : ids[i] = created[m + 1 - i].id
  BY <1>1 DEF IdsAreRecent
<1>5. \A i, j \in 1 .. m : i # j => created[i].id # created[j].id
  BY <1>1 DEF NamesInv
<1>6. \A j \in 1 .. m : created[j].id # NoId
  <2>1. \A j \in 1 .. m : \E x : created[j].id = RandomId(x) \/ created[j].id = SeqId(x)
    <3>1. CASE ~fallback
      BY <1>1, <3>1, Zenon DEF NamesInv, RandomNames
    <3>2. CASE ~overlap
      BY <1>1, <3>2, Zenon DEF NamesInv, SeqNames
    <3> QED
      BY <3>1, <3>2, Zenon DEF UniqueNames
  <2>2. \A x : NoId # RandomId(x) /\ NoId # SeqId(x)
    BY DEF NoId, RandomId, SeqId
  <2> QED
    BY <2>1, <2>2, Zenon
<1> HIDE DEF m
<1>7. PICK k \in 0 .. m :
         /\ k # 0 => created[k].id = prev[c] /\ created[k].id \in received[c]
         /\ k = 0 => prev[c] = NoId
         /\ \A j \in 1 .. m : created[j].id \in received[c] => j <= k
  <2>1. CASE received[c] = {}
    <3>1. prev[c] = NoId
      BY <2>1 DEF LastReceived
    <3> QED
      BY <1>2, <2>1, <3>1
  <2>2. CASE received[c] # {}
    <3>1. PICK k \in 1 .. m :
              /\ prev[c] = created[k].id
              /\ received[c] \subseteq {created[i].id : i \in 1 .. k}
      BY <1>1, <2>2 DEF SeenInv, m
    <3>2. prev[c] \in received[c]
      BY <2>2 DEF LastReceived
    <3>3. ASSUME NEW j \in 1 .. m, created[j].id \in received[c] PROVE j <= k
      <4>1. PICK i \in 1 .. k : created[j].id = created[i].id
        BY <3>1, <3>3
      <4>2. i \in 1 .. m
        BY <1>2, <3>1
      <4> QED
        BY <1>2, <1>5, <3>1, <4>1, <4>2
    <3>4. k \in 0 .. m /\ k # 0
      BY <1>2, <3>1
    <3> QED
      BY <3>1, <3>2, <3>3, <3>4
  <2> QED
    BY <2>1, <2>2
<1>8. n \in 0 .. m /\ Len(ids) <= m
  BY <1>2, <1>3, <1>4
<1>9. ASSUME NEW j \in 1 .. m, j > m - n
      PROVE  /\ m + 1 - j \in 1 .. n /\ m + 1 - j \in 1 .. Len(ids)
             /\ ids[m + 1 - j] = created[j].id
  <2>1. m + 1 - j \in 1 .. n /\ m + 1 - j \in 1 .. Len(ids) /\ m + 1 - (m + 1 - j) = j
    BY <1>2, <1>3, <1>8, <1>9
  <2> QED
    BY <1>4, <2>1
<1>10. \A i \in 1 .. n : /\ i \in 1 .. Len(ids) /\ m + 1 - i \in 1 .. m
                          /\ m + 1 - i > m - n /\ listing[i] = created[m + 1 - i].id
  BY <1>2, <1>3, <1>4, <1>8
<1>11. DOMAIN listing = 1 .. n
  BY <1>3
<1>12. \A j \in 1 .. m : created[j].id \in Range(listing) <=> j > m - n
  <2>1. ASSUME NEW j \in 1 .. m, j > m - n PROVE created[j].id \in Range(listing)
    <3>1. m + 1 - j \in 1 .. n /\ ids[m + 1 - j] = created[j].id
      BY <1>9, <2>1
    <3> QED
      BY <1>3, <1>11, <3>1 DEF Range
  <2>2. ASSUME NEW j \in 1 .. m, created[j].id \in Range(listing) PROVE j > m - n
    <3>1. PICK i \in 1 .. n : listing[i] = created[j].id
      BY <1>11, <2>2 DEF Range
    <3>2. m + 1 - i \in 1 .. m /\ m + 1 - i > m - n /\ created[m + 1 - i].id = created[j].id
      BY <1>10, <3>1
    <3>3. m + 1 - i = j
      BY <1>5, <3>2, Zenon
    <3> QED
      BY <3>2, <3>3
  <2> QED
    BY <2>1, <2>2
<1>13. Range(listing) \subseteq {created[j].id : j \in 1 .. m}
  BY <1>10, <1>11 DEF Range
<1>14. Range(listing) \subseteq DOMAIN pictures
  <2>1. DOMAIN ids = 1 .. Len(ids) /\ DOMAIN pictures = Range(ids)
    BY <1>1, <1>2 DEF PicturesMatchIds
  <2> QED
    BY <1>3, <1>10, <1>11, <2>1 DEF Range
<1>15. k <= m - n
  <2>1. CASE k = 0
    BY <1>2, <1>8, <2>1
  <2>2. CASE k # 0
    <3> SUFFICES ASSUME k > m - n PROVE FALSE
      BY <1>2, <1>7, <1>8
    <3>1. k \in 1 .. m
      BY <1>2, <1>7, <2>2
    <3>2. m + 1 - k \in 1 .. n /\ ids[m + 1 - k] = created[k].id
      BY <1>9, <3>1
    <3> QED
      BY <1>3, <1>7, <2>2, <3>2
  <2> QED
    BY <2>1, <2>2
<1>16. n = ReturnLimit \/ n = m - k
  <2> SUFFICES ASSUME n # ReturnLimit PROVE n = m - k
    OBVIOUS
  <2>1. CASE n = Len(ids)
    <3>1. n = m
      BY <1>2, <1>3, <1>4, <2>1
    <3> QED
      BY <1>2, <1>7, <1>15, <3>1
  <2>2. CASE n # Len(ids) /\ ids[n + 1] = prev[c]
    <3>1. n + 1 \in 1 .. Len(ids) /\ m - n \in 1 .. m /\ m + 1 - (n + 1) = m - n
      BY <1>2, <1>3, <1>8, <2>2
    <3>2. created[m - n].id = prev[c]
      BY <1>4, <2>2, <3>1
    <3>3. k # 0
      BY <1>6, <1>7, <3>1, <3>2
    <3>4. k \in 1 .. m /\ created[k].id = created[m - n].id
      BY <1>2, <1>7, <3>2, <3>3
    <3>5. k = m - n
      BY <1>5, <3>1, <3>4, Zenon
    <3> QED
      BY <1>2, <1>8, <3>5
  <2> QED
    BY <1>3, <2>1, <2>2
<1>17. ListingGives(c, n, k)
  BY <1>3, <1>7, <1>12, <1>13, <1>14, <1>15, <1>16 DEF ListingGives, m, listing
<1> QED
  BY <1>7, <1>8, <1>17 DEF m

LEMMA MissedStep ==
    ASSUME PreviewInv, PreviewInv', LastReceived, NothingMissed, [Next]_vars
    PROVE  NothingMissed'
<1> DEFINE m == Len(created)
<1>0. TypeOK /\ CallsInv /\ SeenInv /\ NamesInv
  BY Zenon DEF PreviewInv
<1> SUFFICES ASSUME UniqueNames',
                    NEW d \in Clients, ~overrun'[d],
                    NEW i \in 1 .. Len(created'), NEW j \in 1 .. Len(created'),
                    i < j, created'[j].id \in received'[d]
             PROVE  created'[i].id \in received'[d]
  BY DEF NothingMissed
<1>1. UniqueNames
  BY <1>0, UniqueNamesStep
<1>2. \A a, b \in 1 .. m : ~overrun[d] /\ a < b /\ created[b].id \in received[d]
                            => created[a].id \in received[d]
  BY <1>1 DEF NothingMissed
<1>3. m \in Nat
  BY <1>0 DEF TypeOK
<1>4. ASSUME NEW t \in Creators, Insert(t) PROVE created'[i].id \in received'[d]
  <2>1. /\ Len(created') = m + 1
        /\ \A a \in 1 .. m : created'[a] = created[a]
        /\ created'[m + 1].id = uuidStr[t]
    BY <1>0, <1>4, InsertFacts, Zenon
  <2>2. received' = received /\ overrun' = overrun
    BY <1>4 DEF Insert, clientVars
  <2>3. \A a \in 1 .. m : created[a].id # uuidStr[t]
    BY <1>0, <1>1, <1>4, FreshId DEF Insert
  <2>4. \A id \in received[d] : \E a \in 1 .. m : id = created[a].id
    <3> SUFFICES ASSUME NEW id \in received[d] PROVE \E a \in 1 .. m : id = created[a].id
      OBVIOUS
    <3>1. PICK k \in 1 .. m : received[d] \subseteq {created[a].id : a \in 1 .. k}
      BY <1>0 DEF SeenInv
    <3>2. PICK a \in 1 .. k : id = created[a].id
      BY <3>1
    <3> QED
      BY <1>3, <3>1, <3>2
  <2>5. uuidStr[t] \notin received[d]
    BY <2>3, <2>4
  <2>6. j \in 1 .. m /\ i \in 1 .. m
    <3>1. j # m + 1
      BY <2>1, <2>2, <2>5
    <3> QED
      BY <1>3, <2>1, <3>1
  <2> QED
    BY <1>2, <2>1, <2>2, <2>6
<1>5. ASSUME NEW c \in Clients, Poll(c), c = d PROVE created'[i].id \in received'[d]
  <2> DEFINE listing == Listing(prev[d], ids)
  <2>1. PICK n, k \in 0 .. m : ListingGives(d, n, k)
    BY <1>1, ListingIsNewest
  <2>2. /\ Len(listing) = n /\ n <= ReturnLimit /\ k <= m - n
        /\ n = ReturnLimit \/ n = m - k
        /\ Range(listing) \subseteq DOMAIN pictures
        /\ \A a \in 1 .. m : created[a].id \in Range(listing) <=> a > m - n
        /\ k # 0 => created[k].id \in received[d]
        /\ \A a \in 1 .. m : created[a].id \in received[d] => a <= k
    BY <2>1, Zenon DEF ListingGives
  <2>3. /\ created' = created
        /\ received'[d] = received[d] \union Range(listing)
        /\ ~overrun[d] /\ Len(listing) # ReturnLimit
    <3>1. /\ created' = created
          /\ received' = [received EXCEPT ![d] = @ \union Range(listing)]
          /\ overrun' = [overrun EXCEPT ![d] = @ \/ Len(listing) = ReturnLimit]
      BY <1>5, <2>2, Zenon DEF Poll, cacheVars
    <3> HIDE DEF listing
    <3>2. received'[d] = received[d] \union Range(listing)
      BY <1>0, <3>1 DEF TypeOK
    <3>3. overrun'[d] = (overrun[d] \/ Len(listing) = ReturnLimit)
      BY <1>0, <3>1, Zenon DEF TypeOK
    <3> QED
      BY <3>1, <3>2, <3>3, Zenon
  <2> HIDE DEF listing
  <2>4. n = m - k
    BY <2>2, <2>3
  <2>5. i \in 1 .. m /\ j \in 1 .. m
    BY <2>3
  <2>6. CASE i > m - n
    BY <2>2, <2>3, <2>5, <2>6
  <2>7. CASE ~(i > m - n)
    <3>1. i <= k /\ k # 0 /\ k \in 1 .. m
      BY <1>3, <2>4, <2>5, <2>7
    <3>2. i = k \/ i < k
      BY <1>3, <2>5, <3>1
    <3>3. created[k].id \in received[d]
      BY <2>2, <3>1
    <3>4. created[i].id \in received[d]
      BY <1>2, <2>3, <2>5, <3>1, <3>2, <3>3
    <3> QED
      BY <2>3, <3>4
  <2> QED
    BY <2>6, <2>7
<1>6. ASSUME NEW c \in Clients, Poll(c), c # d PROVE created'[i].id \in received'[d]
  <2>1. created' = created /\ received'[d] = received[d] /\ overrun'[d] = overrun[d]
    <3>1. CASE UNCHANGED clientVars
      BY <1>6, <3>1, Zenon DEF Poll, cacheVars, clientVars
    <3>2. CASE ~UNCHANGED clientVars
      BY <1>0, <1>6, <3>2, Zenon DEF Poll, cacheVars, TypeOK
    <3> QED
      BY <3>1, <3>2
  <2> QED
    BY <1>2, <2>1
<1>7. CASE UNCHANGED <<created, received, overrun>>
  BY <1>2, <1>7
<1> QED
  BY <1>4, <1>5, <1>6, <1>7, Zenon DEF Next, Call, LoadSeq, StoreSeq, Name, vars,
                                       cacheVars, clientVars

LEMMA LastIsReceived == Spec => []LastReceived
<1>1. Init => LastReceived
  BY DEF Init, LastReceived
<1>2. TypeOK /\ LastReceived /\ [Next]_vars => LastReceived'
  BY LastReceivedStep
<1> QED
  BY <1>1, <1>2, TypeCorrect, PTL DEF Spec

\* Where ids are unique, eviction takes nothing from a client whose listings are
\* never full (PicturePreviewHandler.cpp:158-193).
THEOREM NothingIsMissed == Spec => []NothingMissed
<1> DEFINE Inv == PreviewInv /\ LastReceived /\ NothingMissed
<1>1. Init => Inv
  <2> SUFFICES ASSUME Init PROVE LastReceived /\ NothingMissed
    BY InitInv
  <2>1. Len(created) = 0 /\ \A c \in Clients : received[c] = {} /\ prev[c] = NoId
    BY DEF Init
  <2> QED
    BY <2>1 DEF LastReceived, NothingMissed
<1>2. PreviewInv /\ [Next]_vars => PreviewInv'
  BY PreviewStep
<1>3. Inv /\ [Next]_vars => Inv'
  BY <1>2, LastReceivedStep, MissedStep, Zenon DEF PreviewInv
<1> QED
  BY <1>1, <1>3, PTL DEF Spec

-----------------------------------------------------------------------------
(* One thread. *)

\* With one thread in createPreview the ids are unique even where the generator
\* always fails: nothing comes between the increment of seq and its reading
\* (PicturePreviewHandler.cpp:138-156).  List and map then agree without
\* condition, and pictures.at never throws.
THEOREM OneThreadNamesApart ==
    ASSUME \A s, t \in Creators : s = t
    PROVE  Spec => [](UniqueNames /\ DOMAIN pictures = Range(ids))
<1>1. Init => ~overlap
  BY DEF Init
<1>2. ~overlap /\ [Next]_vars => ~overlap'
  BY DEF Next, Call, LoadSeq, StoreSeq, Name, Insert, Poll, vars, history
<1>3. ~overlap /\ PicturesMatchIds => UniqueNames /\ DOMAIN pictures = Range(ids)
  BY DEF UniqueNames, PicturesMatchIds
<1> QED
  BY <1>1, <1>2, <1>3, PicturesAreListed, PTL DEF Spec

-----------------------------------------------------------------------------
(* The map as its readers see it. *)

\* The map holds each preview until CacheLimit newer ones have been inserted, and
\* gives its own pictures for its id: what a reader of the map may rely on.
KeptAreNewest == UniqueNames =>
    \A i \in 1 .. Len(created) :
        IF i > Len(created) - CacheLimit
        THEN created[i].id \in DOMAIN pictures /\ pictures[created[i].id] = created[i].preview
        ELSE created[i].id \notin DOMAIN pictures

\* visitPreview finds exactly the newest previews, each under its own id, in
\* whatever order threads have inserted them: the map that ApiClients takes for
\* granted (PicturePreviewHandler.cpp:157-164, 200-212).
THEOREM NewestAreServed == Spec => []KeptAreNewest
<1>1. ASSUME PreviewInv PROVE KeptAreNewest
  <2>1. TypeOK /\ IdsAreRecent /\ NamesInv /\ PicturesMatchIds
    BY <1>1, Zenon DEF PreviewInv
  <2> SUFFICES ASSUME UniqueNames, NEW i \in 1 .. Len(created)
               PROVE  IF i > Len(created) - CacheLimit
                      THEN /\ created[i].id \in DOMAIN pictures
                           /\ pictures[created[i].id] = created[i].preview
                      ELSE created[i].id \notin DOMAIN pictures
    BY DEF KeptAreNewest
  <2> DEFINE m == Len(created)
  <2>2. Len(ids) \in Nat /\ m \in Nat /\ CacheLimit \in Nat
    BY <2>1, CacheLimitAssumption DEF TypeOK
  <2>3. /\ Len(ids) = IF m < CacheLimit THEN m ELSE CacheLimit
        /\ \A h \in 1 .. Len(ids) : ids[h] = created[m + 1 - h].id
    BY <2>1 DEF IdsAreRecent
  <2>4. /\ DOMAIN pictures = {ids[h] : h \in 1 .. Len(ids)}
        /\ \A h \in 1 .. Len(ids) : pictures[ids[h]] = created[m + 1 - h].preview
    <3>1. ids \in Seq(Id) /\ DOMAIN ids = 1 .. Len(ids)
      BY <2>1 DEF TypeOK
    <3> QED
      BY <2>1, <3>1 DEF PicturesMatchIds, Range
  <2>5. \A j \in 1 .. m : created[j].id = created[i].id => j = i
    BY <2>1 DEF NamesInv
  <2> HIDE DEF m
  <2>6. i \in 1 .. m
    BY DEF m
  <2>7. CASE i > m - CacheLimit
    <3>1. m + 1 - i \in 1 .. Len(ids) /\ m + 1 - (m + 1 - i) = i
      BY <2>2, <2>3, <2>6, <2>7
    <3>2. ids[m + 1 - i] = created[i].id /\ pictures[ids[m + 1 - i]] = created[i].preview
      BY <2>3, <2>4, <3>1
    <3> QED
      BY <2>4, <2>7, <3>1, <3>2 DEF m
  <2>8. CASE ~(i > m - CacheLimit)
    <3>1. ASSUME NEW h \in 1 .. Len(ids), ids[h] = created[i].id PROVE FALSE
      <4>1. m + 1 - h \in 1 .. m /\ m + 1 - h # i
        BY <2>2, <2>3, <2>6, <2>8
      <4> QED
        BY <2>3, <2>5, <3>1, <4>1
    <3> QED
      BY <2>4, <2>8, <3>1 DEF m
  <2> QED
    BY <2>7, <2>8
<1> QED
  BY <1>1, PreviewInvariant, PTL
=============================================================================
