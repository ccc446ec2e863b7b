---------------------------- MODULE Channel_proofs ----------------------------
(***************************************************************************)
(* Proofs about Channel, for every set of writers and readers, every       *)
(* capacity and any number of writes: no waiter is lost or resumed twice   *)
(* and no wait is in vain (ChannelInv), what is handed to a reader arrives *)
(* at one reader (HandedArrives), and values leave in the order in which   *)
(* they came (the refinement of FifoChannel).                              *)
(***************************************************************************)
EXTENDS Channel, SequenceLemmas

-----------------------------------------------------------------------------
(***************************************************************************)
(* What the threads inside a push have still to resume.                    *)
(***************************************************************************)

\* The awaiters in a set of such lists.
Items(R) == UNION {{s[i] : i \in DOMAIN s} : s \in R}

\* What Resume(s) makes of that set.
Without(R, s) == (R \ {s}) \cup (IF Len(s) = 1 THEN {} ELSE {Tail(s)})

\* No coroutine is in it twice.
NoTwice(R) ==
  \A s, t \in R : \A i \in DOMAIN s, j \in DOMAIN t :
    s[i].to = t[j].to => s = t /\ i = j

\* A reader gets a value with its resumption, a writer gets none.
Item == [to : Readers, value : Values] \cup [to : Writers, value : {None}]

\* The lists have one or two entries.
ItemLists == {s \in Seq(Item) : Len(s) \in {1, 2}}

LEMMA NoTwiceItems ==
  ASSUME NEW R, NoTwice(R), NEW x \in Items(R), NEW y \in Items(R), x.to = y.to
  PROVE  x = y
<1>1. PICK s \in R : \E i \in DOMAIN s : x = s[i]
  BY DEF Items
<1>2. PICK i \in DOMAIN s : x = s[i]
  BY <1>1
<1>3. PICK t \in R : \E j \in DOMAIN t : y = t[j]
  BY DEF Items
<1>4. PICK j \in DOMAIN t : y = t[j]
  BY <1>3
<1> QED
  BY <1>2, <1>4 DEF NoTwice

\* A push that resumes one coroutine.
LEMMA AddOne ==
  ASSUME NEW R, NoTwice(R), NEW x \in Item, \A z \in Items(R) : z.to # x.to
  PROVE  /\ NoTwice(R \cup {<<x>>})
         /\ Items(R \cup {<<x>>}) = Items(R) \cup {x}
         /\ <<x>> \in ItemLists
<1> DEFINE q == <<x>>
<1>1. DOMAIN q = {1} /\ q[1] = x /\ Len(q) = 1 /\ q \in Seq(Item)
  OBVIOUS
<1> HIDE DEF q
<1>2. Items(R \cup {q}) = Items(R) \cup {x}
  BY <1>1 DEF Items
<1>3. NoTwice(R \cup {q})
  BY <1>1 DEF NoTwice, Items
<1> QED
  BY <1>1, <1>2, <1>3 DEF ItemLists, q

\* A push that resumes two coroutines, one after the other.
LEMMA AddTwo ==
  ASSUME NEW R, NoTwice(R), NEW x \in Item, NEW y \in Item, x.to # y.to,
         \A z \in Items(R) : z.to # x.to /\ z.to # y.to
  PROVE  /\ NoTwice(R \cup {<<x, y>>})
         /\ Items(R \cup {<<x, y>>}) = Items(R) \cup {x, y}
         /\ <<x, y>> \in ItemLists
<1> DEFINE q == <<x, y>>
<1>1. DOMAIN q = {1, 2} /\ q[1] = x /\ q[2] = y /\ Len(q) = 2 /\ q \in Seq(Item)
  OBVIOUS
<1> HIDE DEF q
<1>2. Items(R \cup {q}) = Items(R) \cup {x, y}
  BY <1>1 DEF Items
<1>3. NoTwice(R \cup {q})
  BY <1>1 DEF NoTwice, Items
<1> QED
  BY <1>1, <1>2, <1>3 DEF ItemLists, q

\* Resuming the first coroutine of a list takes it, and nobody else, out.
LEMMA ResumeFirst ==
  ASSUME NEW R \in SUBSET ItemLists, NoTwice(R), NEW s \in R
  PROVE  /\ Head(s) \in Item /\ Head(s) \in Items(R)
         /\ NoTwice(Without(R, s))
         /\ Items(Without(R, s)) = Items(R) \ {Head(s)}
         /\ Without(R, s) \subseteq ItemLists
<1>1. s \in Seq(Item) /\ Len(s) \in {1, 2} /\ s # <<>> /\ DOMAIN s = 1 .. Len(s)
  <2>1. s \in Seq(Item) /\ Len(s) \in {1, 2}
    BY DEF ItemLists
  <2> QED
    BY <2>1, EmptySeq, LenProperties
<1>2. Head(s) = s[1] /\ s[1] \in Item
  BY <1>1, ElementOfSeq
<1>3. Head(s) \in Items(R)
  BY <1>1, <1>2 DEF Items
<1>4. CASE Len(s) = 1
  <2>1. DOMAIN s = {1} /\ Without(R, s) = R \ {s}
    BY <1>1, <1>4 DEF Without
  <2>2. NoTwice(Without(R, s))
    BY <2>1 DEF NoTwice
  <2>3. \A t \in R \ {s} : \A i \in DOMAIN t : t[i] # s[1]
    BY <2>1 DEF NoTwice
  <2>4. Items(Without(R, s)) = Items(R) \ {s[1]}
    BY <2>1, <2>3 DEF Items
  <2> QED
    BY <1>2, <1>3, <2>1, <2>2, <2>4
<1>5. CASE Len(s) = 2
  <2> DEFINE q == Tail(s)
  <2>1. q \in Seq(Item) /\ Len(q) = 1 /\ q[1] = s[2] /\ DOMAIN q = {1} /\ DOMAIN s = {1, 2}
    <3>1. /\ q \in Seq(Item) /\ Len(q) = Len(s) - 1
          /\ \A i \in 1 .. Len(q) : q[i] = s[i + 1]
      BY <1>1, HeadTailProperties
    <3>2. DOMAIN q = 1 .. Len(q)
      BY <3>1, LenProperties
    <3> HIDE DEF q
    <3>3. Len(q) = 1 /\ 1 \in 1 .. Len(q)
      BY <1>5, <3>1
    <3>4. q[1] = s[1 + 1]
      BY <3>1, <3>3, Zenon
    <3> QED
      BY <1>1, <1>5, <3>1, <3>2, <3>3, <3>4
  <2>2. Without(R, s) = (R \ {s}) \cup {q}
    BY <1>5 DEF Without
  <2> HIDE DEF q
  <2>3. NoTwice(Without(R, s))
    BY <2>1, <2>2 DEF NoTwice
  <2>4. /\ \A t \in R \ {s} : \A i \in DOMAIN t : t[i] # s[1]
        /\ s[2] # s[1]
    BY <2>1 DEF NoTwice
  <2>5. Items(Without(R, s)) = Items(R) \ {s[1]}
    BY <2>1, <2>2, <2>4 DEF Items
  <2>6. q \in ItemLists
    BY <2>1 DEF ItemLists
  <2> QED
    BY <1>2, <1>3, <2>2, <2>3, <2>5, <2>6
<1> QED
  BY <1>1, <1>4, <1>5

LEMMA DueItems ==
  ASSUME NEW R \in SUBSET ItemLists
  PROVE  Items(R) \subseteq Item
<1> SUFFICES ASSUME NEW s \in R, NEW i \in DOMAIN s PROVE s[i] \in Item
  BY DEF Items
<1>1. s \in Seq(Item)
  BY DEF ItemLists
<1> QED
  BY <1>1, LenProperties

-----------------------------------------------------------------------------
(***************************************************************************)
(* The inductive invariant.                                                *)
(***************************************************************************)

\* The awaiters that a thread is about to resume; the values that readers have
\* been handed and those in the buffer; and the value v on its way to r.
Due == Items(resuming)
Handed == ToSet(handed)
Buffered == ToSet(buffer)
Carries(r, v) == v # None /\ (result[r] = v \/ \E x \in Due : x.to = r /\ x.value = v)

\* A suspended coroutine is on one list, or is due to be resumed, once.
Accounted ==
  /\ resuming \in SUBSET ItemLists /\ NoTwice(resuming)
  /\ IsInjective(writerList) /\ IsInjective(readerList)
  /\ \A c \in Coros :
       pc[c] = "suspended" <=> \/ Contains(writerList, c)
                               \/ Contains(readerList, c)
                               \/ \E x \in Due : x.to = c
  /\ \A x \in Due : ~Contains(writerList, x.to) /\ ~Contains(readerList, x.to)

\* A Result is set only once its reader has been given to the scheduler.
ResultsScheduled == \A r \in Readers : result[r] # None => pc[r] = "scheduled"

\* Only values that were written have entered the channel, each once, and not
\* while their writer waits for room.
WrittenOnce ==
  /\ \A v \in Handed \cup Buffered : v[2] <= wrote[v[1]]
  /\ \A w \in Writers : Contains(writerList, w) => Value(w) \notin Handed \cup Buffered
  /\ IsInjective(buffer) /\ Handed \cap Buffered = {}

\* In an open channel the value of a writer that is due or scheduled is in.
WritesEntered ==
  /\ \A w \in Writers : pc[w] # "idle" => wrote[w] > 0
  /\ active => \A w \in Writers :
       pc[w] # "idle" /\ ~Contains(writerList, w) => Value(w) \in Handed \cup Buffered

\* HandedArrives, in terms of Carries.
Arrives ==
  active =>
    /\ \A v \in Values : v \in Handed <=> v \in received \/ \E r \in Readers : Carries(r, v)
    /\ \A r, q \in Readers : \A v \in Values : Carries(r, v) /\ Carries(q, v) => r = q
    /\ \A r \in Readers : \A v \in Values : Carries(r, v) => v \notin received
    /\ \A r \in Readers : pc[r] = "scheduled" => result[r] # None
    /\ acked \subseteq Handed \cup Buffered

CleanedClosed == cleaned => ~active

IInv ==
  /\ TypeOK /\ WaitsJustified /\ Accounted /\ ResultsScheduled
  /\ WrittenOnce /\ WritesEntered /\ Arrives /\ CleanedClosed

\* What IInv says of the awaiters that are due is what ChannelInv and
\* HandedArrives say of them.
LEMMA IInvImplies == IInv => ChannelInv /\ HandedArrives
<1> SUFFICES ASSUME IInv PROVE ChannelInv /\ HandedArrives
  OBVIOUS
<1> USE NoneAssumption DEF IInv
<1>0. Due \subseteq Item
  BY DueItems DEF Accounted, Due
<1>1. \A c : BeingResumed(c) <=> \E x \in Due : x.to = c
  BY DEF BeingResumed, Due, Items
<1>2. WaitersAccounted
  BY <1>1 DEF Accounted, WaitersAccounted, NoTwice
<1>3. \A r, v : v \in InFlight(r) <=> Carries(r, v)
  BY DEF InFlight, Carries, Due, Items
<1>4. HandedArrives
  <2> SUFFICES ASSUME active PROVE HandedArrives
    BY DEF HandedArrives
  <2>1. \A r \in Readers : \A v : Carries(r, v) => v \in Values
    BY <1>0 DEF Carries, TypeOK, Item
  <2>2. Handed \subseteq Values /\ received \subseteq Values
    BY ToSetProperties DEF Handed, TypeOK
  <2>3. ToSet(handed) = received \cup UNION {InFlight(r) : r \in Readers}
    BY <1>3, <2>1, <2>2 DEF Arrives, Handed
  <2>4. \A r, q \in Readers : r # q => InFlight(r) \cap InFlight(q) = {}
    BY <1>3, <2>1 DEF Arrives
  <2>5. \A r \in Readers : InFlight(r) \cap received = {}
    BY <1>3, <2>1 DEF Arrives
  <2> QED
    BY <2>3, <2>4, <2>5 DEF Arrives, HandedArrives, Handed, Buffered
<1> QED
  BY <1>2, <1>4 DEF ChannelInv

LEMMA InitEstablishes == Init => IInv
<1> SUFFICES ASSUME Init PROVE IInv
  OBVIOUS
<1>1. /\ Due = {} /\ Handed = {} /\ Buffered = {}
      /\ \A x : ~Contains(writerList, x) /\ ~Contains(readerList, x)
      /\ IsInjective(writerList) /\ IsInjective(readerList) /\ IsInjective(buffer)
  BY DEF Init, Due, Items, Handed, Buffered, ToSet, Contains, IsInjective
<1>2. TypeOK
  <2>1. <<>> \in Seq(Values) /\ <<>> \in Seq(Writers) /\ <<>> \in Seq(Readers)
    BY EmptySeq
  <2>2. \A w \in Writers : wrote[w] <= MaxWrites[w]
    BY ChannelAssumption DEF Init
  <2> QED
    BY <2>1, <2>2 DEF Init, TypeOK
<1>3. WaitsJustified
  BY ChannelAssumption, EmptySeq DEF Init, WaitsJustified
<1>4. Accounted
  BY <1>1 DEF Init, Accounted, NoTwice
<1>5. ResultsScheduled /\ WrittenOnce /\ WritesEntered /\ CleanedClosed
  BY <1>1 DEF Init, ResultsScheduled, WrittenOnce, WritesEntered, CleanedClosed, Coros
<1>6. Arrives
  BY <1>1 DEF Init, Arrives, Carries, Coros
<1> QED
  BY <1>2, <1>3, <1>4, <1>5, <1>6 DEF IInv

-----------------------------------------------------------------------------
(***************************************************************************)
(* Every step preserves it.                                                *)
(***************************************************************************)

\* Where the parts of the channel are; a reader is no writer.
LEMMA Members ==
  ASSUME IInv
  PROVE  /\ Due \subseteq Item /\ Handed \subseteq Values /\ Buffered \subseteq Values
         /\ \A x \in Item : x.to \in Coros
         /\ \A c : Contains(writerList, c) => c \in Writers /\ c \notin Readers /\ c \in Coros
         /\ \A c : Contains(readerList, c) => c \in Readers /\ c \notin Writers /\ c \in Coros
         /\ \A v \in Values : v[1] \in Writers /\ v[2] \in 1 .. MaxWrites[v[1]]
<1> USE DEF IInv
<1>1. Due \subseteq Item
  BY DueItems DEF Accounted, Due
<1>2. Handed \subseteq Values /\ Buffered \subseteq Values
  BY ToSetProperties DEF TypeOK, Handed, Buffered
<1>3. \A x \in Item : x.to \in Coros
  BY DEF Item, Coros
<1>4. /\ \A c : Contains(writerList, c) => c \in Writers
      /\ \A c : Contains(readerList, c) => c \in Readers
  BY ElementOfSeq DEF TypeOK, Contains
<1>5. \A v \in Values : v[1] \in Writers /\ v[2] \in 1 .. MaxWrites[v[1]]
  BY DEF Values
<1> QED
  BY <1>1, <1>2, <1>3, <1>4, <1>5, ChannelAssumption DEF Coros

\* A write takes the next value of its writer, which the channel has not seen.
LEMMA NextValue ==
  ASSUME IInv, NEW w \in Writers, BeginWrite(w)
  PROVE  /\ Value(w)' \in Values /\ Value(w)' # None
         /\ Value(w)' \notin Handed \cup Buffered
         /\ Value(w)'[1] = w /\ Value(w)'[2] = wrote'[w]
         /\ wrote' \in [Writers -> Nat] /\ \A u \in Writers : wrote'[u] <= MaxWrites[u]
         /\ wrote'[w] > 0 /\ \A u \in Writers \ {w} : wrote'[u] = wrote[u]
         /\ \A u \in Writers \ {w} : Value(u)' = Value(u) /\ Value(u) # Value(w)'
         /\ \A v \in Handed \cup Buffered : v[2] <= wrote'[v[1]]
         /\ ~Contains(writerList, w) /\ ~Contains(readerList, w)
         /\ \A x \in Due : x.to # w
<1> USE DEF IInv, TypeOK
<1>0. /\ wrote[w] \in Nat /\ MaxWrites[w] \in Nat /\ wrote[w] < MaxWrites[w]
      /\ wrote' = [wrote EXCEPT ![w] = @ + 1] /\ pc[w] = "idle"
  BY ChannelAssumption DEF BeginWrite
<1>1. /\ wrote' \in [Writers -> Nat] /\ wrote'[w] = wrote[w] + 1
      /\ \A u \in Writers \ {w} : wrote'[u] = wrote[u]
  BY <1>0
<1>2. \A u \in Writers : wrote'[u] <= MaxWrites[u]
  BY <1>0, <1>1
<1>3. Value(w)' = <<w, wrote[w] + 1>>
  BY <1>1 DEF Value
<1>4. Value(w)' \in Values
  BY <1>0, <1>3 DEF Values
<1>5. Value(w)' # None
  BY <1>4, NoneAssumption
<1>6. \A v \in Handed \cup Buffered : v[1] \in Writers /\ v[2] \in Nat /\ v[2] <= wrote[v[1]]
  <2>1. \A u \in Writers : MaxWrites[u] \in Nat
    BY ChannelAssumption
  <2>2. \A v \in Values : v[1] \in Writers /\ v[2] \in Nat
    BY <2>1, Members
  <2> QED
    BY <2>2, Members DEF WrittenOnce
<1>7. Value(w)' \notin Handed \cup Buffered
  <2> SUFFICES ASSUME Value(w)' \in Handed \cup Buffered PROVE FALSE
    OBVIOUS
  <2>1. Value(w)'[1] = w /\ Value(w)'[2] = wrote[w] + 1
    BY <1>3
  <2> QED
    BY <1>0, <1>6, <2>1
<1>8. \A v \in Handed \cup Buffered : v[2] <= wrote'[v[1]]
  <2>1. \A u \in Writers : wrote[u] \in Nat /\ wrote'[u] \in Nat /\ wrote[u] <= wrote'[u]
    BY <1>0, <1>1
  <2> QED
    BY <1>6, <2>1
<1>9. \A u \in Writers \ {w} : Value(u)' = Value(u) /\ Value(u) # Value(w)'
  BY <1>1, <1>3 DEF Value
<1>10. ~Contains(writerList, w) /\ ~Contains(readerList, w) /\ \A x \in Due : x.to # w
  BY <1>0 DEF Accounted, Coros
<1>11. Value(w)'[1] = w /\ Value(w)'[2] = wrote'[w] /\ wrote'[w] > 0
  BY <1>0, <1>1, <1>3
<1> QED
  BY <1>1, <1>2, <1>4, <1>5, <1>7, <1>8, <1>9, <1>10, <1>11

\* A value that no reader has been given is given to one who waits for it.
LEMMA HandOver ==
  ASSUME IInv, active, UNCHANGED <<active, received, acked>>,
         NEW r \in Readers, NEW v \in Values, NEW D,
         v \notin Handed, Handed' = Handed \cup {v},
         Buffered \subseteq Buffered' \cup {v},
         Due' = Due \cup D, ResumeReader(r, v) \in D,
         \A x \in D : x = ResumeReader(r, v) \/ x.value = None,
         \A z \in Due : z.to # r, pc[r] # "scheduled",
         \A q \in Readers : result'[q] = result[q],
         \A q \in Readers : pc'[q] = pc[q] \/ pc'[q] # "scheduled"
  PROVE  Arrives'
<1> USE DEF IInv
<1>1. \A q : \A u \in Values : q \in Readers =>
        (Carries(q, u)' <=> Carries(q, u) \/ (q = r /\ u = v))
  <2> SUFFICES ASSUME NEW q \in Readers, NEW u \in Values
               PROVE  Carries(q, u)' <=> Carries(q, u) \/ (q = r /\ u = v)
    OBVIOUS
  <2>1. u # None /\ ResumeReader(r, v).to = r /\ ResumeReader(r, v).value = v
    BY NoneAssumption DEF ResumeReader
  <2>2. (\E z \in Due' : z.to = q /\ z.value = u)
          <=> (\E z \in Due : z.to = q /\ z.value = u) \/ (q = r /\ u = v)
    BY <2>1
  <2> QED
    BY <2>1, <2>2 DEF Carries
<1>2. result[r] = None /\ \A u \in Values : ~Carries(r, u)
  BY DEF ResultsScheduled, Carries
<1>3. v \notin received /\ \A q \in Readers : ~Carries(q, v)
  BY DEF Arrives
<1>4. \A u \in Values : u \in Handed' <=> u \in received' \/ \E q \in Readers : Carries(q, u)'
  BY <1>1 DEF Arrives
<1>5. \A p, q \in Readers : \A u \in Values : Carries(p, u)' /\ Carries(q, u)' => p = q
  BY <1>1, <1>3 DEF Arrives
<1>6. \A q \in Readers : \A u \in Values : Carries(q, u)' => u \notin received'
  BY <1>1, <1>3 DEF Arrives
<1>7. \A q \in Readers : pc'[q] = "scheduled" => result'[q] # None
  BY DEF Arrives
<1>8. acked' \subseteq Handed' \cup Buffered'
  BY DEF Arrives
<1> QED
  BY <1>4, <1>5, <1>6, <1>7, <1>8 DEF Arrives

\* A write to a closed channel throws.
LEMMA WriteThrowsPreserves ==
  ASSUME IInv, NEW w \in Writers, WriteThrows(w)
  PROVE  IInv'
<1> USE DEF IInv
<1>0. BeginWrite(w) /\ ~active /\ pc[w] = "idle"
  BY DEF WriteThrows, BeginWrite
<1>1. /\ UNCHANGED <<capacity, active, cleaned, buffer, writerList, readerList, resuming,
                     pc, result, cwe, handed, received, acked>>
      /\ UNCHANGED <<Due, Handed, Buffered>>
  BY DEF WriteThrows, Due, Handed, Buffered
<1>2. TypeOK'
  BY <1>0, <1>1, NextValue DEF TypeOK
<1>3. WaitsJustified' /\ Accounted' /\ ResultsScheduled' /\ CleanedClosed' /\ Arrives'
  BY <1>0, <1>1 DEF WaitsJustified, Accounted, ResultsScheduled, CleanedClosed, Arrives
<1>4. WrittenOnce'
  BY <1>0, <1>1, NextValue DEF WrittenOnce
<1>5. WritesEntered'
  BY <1>0, <1>1, NextValue DEF WritesEntered
<1> QED
  BY <1>2, <1>3, <1>4, <1>5

\* A writer finds a reader waiting.
LEMMA WriteToReaderPreserves ==
  ASSUME IInv, NEW w \in Writers, WriteToReader(w)
  PROVE  IInv'
<1> DEFINE h == Head(readerList)
           v == Value(w)'
           x == ResumeReader(h, v)
           y == ResumeWriter(w)
<1> USE DEF IInv
<1>0. /\ BeginWrite(w) /\ active /\ pc[w] = "idle" /\ readerList # <<>>
      /\ pc' = [pc EXCEPT ![w] = "suspended"]
      /\ UNCHANGED <<capacity, active, cleaned, buffer, writerList, result, cwe, received, acked>>
      /\ UNCHANGED Buffered
  BY DEF WriteToReader, BeginWrite, Buffered
<1>1. /\ h \in Readers /\ Contains(readerList, h)
      /\ readerList' \in Seq(Readers) /\ IsInjective(readerList')
      /\ \A c : Contains(readerList', c) <=> Contains(readerList, c) /\ c # h
  BY <1>0, TailProperties DEF WriteToReader, TypeOK, Accounted
<1>2. /\ v \in Values /\ v # None /\ v \notin Handed \cup Buffered /\ v[1] = w /\ v[2] = wrote'[w]
      /\ ~Contains(writerList, w) /\ ~Contains(readerList, w)
      /\ \A z \in Due : z.to # w
  BY <1>0, NextValue
<1>3. handed' \in Seq(Values) /\ Handed' = Handed \cup {v}
  BY <1>2, ToSetProperties, AppendProperties DEF WriteToReader, TypeOK, Handed
<1> HIDE DEF h, v
<1>4. /\ x.to = h /\ y.to = w /\ x.value = v /\ y.value = None
      /\ x \in Item /\ y \in Item /\ h # w
  BY <1>1, <1>2, ChannelAssumption DEF ResumeReader, ResumeWriter, Item
<1>5. resuming' = resuming \cup {<<x, y>>}
  BY DEF WriteToReader, h, v
<1> HIDE DEF x, y
<1>6. Due' = Due \cup {x, y} /\ NoTwice(resuming') /\ resuming' \in SUBSET ItemLists
  <2>1. \A z \in Items(resuming) : z.to # x.to /\ z.to # y.to
    BY <1>1, <1>2, <1>4 DEF Accounted, Due
  <2>2. resuming \in SUBSET ItemLists /\ NoTwice(resuming)
    BY DEF Accounted
  <2>3. /\ NoTwice(resuming') /\ Items(resuming') = Items(resuming) \cup {x, y}
        /\ <<x, y>> \in ItemLists
    BY <1>4, <1>5, <2>1, <2>2, AddTwo
  <2> QED
    BY <1>5, <2>2, <2>3 DEF Due
<1>7. TypeOK'
  BY <1>0, <1>1, <1>3, NextValue DEF TypeOK
<1>8. buffer = <<>> /\ writerList = <<>>
  BY <1>0 DEF WaitsJustified
<1>9. WaitsJustified'
  BY <1>0, <1>8 DEF WaitsJustified
<1>10. Accounted'
  BY <1>0, <1>1, <1>2, <1>4, <1>6, Members DEF Accounted, TypeOK, Coros
<1>11. ResultsScheduled' /\ CleanedClosed'
  BY <1>0 DEF ResultsScheduled, CleanedClosed, TypeOK, Coros
<1>12. WrittenOnce'
  <2>1. \A u : ~Contains(writerList, u)
    BY <1>8 DEF Contains
  <2> QED
    BY <1>0, <1>2, <1>3, <2>1, NextValue DEF WrittenOnce
<1>13. WritesEntered'
  BY <1>0, <1>3, NextValue DEF WritesEntered, TypeOK, Coros, v
<1>14. Arrives'
  <2>1. h \in Readers /\ (\A q \in Readers : result'[q] = result[q])
    BY <1>0, <1>1
  <2>2. \A q \in Readers : pc'[q] = pc[q]
    BY <1>0, ChannelAssumption DEF TypeOK, Coros
  <2>3. pc[h] = "suspended" /\ \A z \in Due : z.to # h
    BY <1>1, Members DEF Accounted
  <2> DEFINE D == {x, y}
  <2>4. /\ Due' = Due \cup D /\ ResumeReader(h, v) \in D
        /\ \A z \in D : z = ResumeReader(h, v) \/ z.value = None
    BY <1>4, <1>6 DEF x
  <2> HIDE DEF D
  <2> QED
    BY <1>0, <1>2, <1>3, <2>1, <2>2, <2>3, <2>4, HandOver
<1> QED
  BY <1>7, <1>9, <1>10, <1>11, <1>12, <1>13, <1>14

\* A writer finds room in the buffer.
LEMMA WriteToBufferPreserves ==
  ASSUME IInv, NEW w \in Writers, WriteToBuffer(w)
  PROVE  IInv'
<1> DEFINE v == Value(w)'
           y == ResumeWriter(w)
<1> USE DEF IInv
<1>0. /\ BeginWrite(w) /\ active /\ pc[w] = "idle" /\ readerList = <<>>
      /\ Len(buffer) < capacity /\ buffer' = Append(buffer, v)
      /\ pc' = [pc EXCEPT ![w] = "suspended"]
      /\ UNCHANGED <<capacity, active, cleaned, writerList, readerList, result, cwe,
                     handed, received, acked>>
      /\ UNCHANGED Handed
  BY DEF WriteToBuffer, BeginWrite, Handed
<1>1. /\ v \in Values /\ v # None /\ v \notin Handed \cup Buffered /\ v[1] = w /\ v[2] = wrote'[w]
      /\ ~Contains(writerList, w) /\ ~Contains(readerList, w)
      /\ \A z \in Due : z.to # w
  BY <1>0, NextValue
<1>2. /\ buffer' \in Seq(Values) /\ Buffered' = Buffered \cup {v}
      /\ IsInjective(buffer') /\ Len(buffer') = Len(buffer) + 1
  <2>1. buffer \in Seq(Values) /\ IsInjective(buffer) /\ ~Contains(buffer, v)
    BY <1>1, ToSetProperties DEF TypeOK, WrittenOnce, Buffered
  <2> QED
    BY <1>0, <1>1, <2>1, AppendFresh, AppendProperties, ToSetProperties DEF Buffered
<1>3. y.to = w /\ y.value = None /\ y \in Item
  BY DEF ResumeWriter, Item
<1>4. resuming' = resuming \cup {<<y>>}
  BY DEF WriteToBuffer
<1> HIDE DEF v, y
<1>5. Due' = Due \cup {y} /\ NoTwice(resuming') /\ resuming' \in SUBSET ItemLists
  <2>1. \A z \in Items(resuming) : z.to # y.to
    BY <1>1, <1>3 DEF Due
  <2>2. resuming \in SUBSET ItemLists /\ NoTwice(resuming)
    BY DEF Accounted
  <2>3. /\ NoTwice(resuming') /\ Items(resuming') = Items(resuming) \cup {y}
        /\ <<y>> \in ItemLists
    BY <1>3, <1>4, <2>1, <2>2, AddOne
  <2> QED
    BY <1>4, <2>2, <2>3 DEF Due
<1>6. TypeOK'
  BY <1>0, <1>2, NextValue DEF TypeOK
<1>7. WaitsJustified'
  <2>1. Len(buffer) \in Nat /\ capacity \in Nat
    BY ChannelAssumption, LenProperties DEF TypeOK
  <2> QED
    BY <1>0, <1>2, <2>1 DEF WaitsJustified
<1>8. Accounted'
  BY <1>0, <1>1, <1>3, <1>5, Members DEF Accounted, TypeOK, Coros
<1>9. ResultsScheduled' /\ CleanedClosed'
  BY <1>0 DEF ResultsScheduled, CleanedClosed, TypeOK, Coros
<1>10. WrittenOnce'
  <2>1. \A u : ~Contains(writerList, u)
    <3>1. writerList = <<>>
      <4>1. Len(buffer) \in Nat /\ capacity \in Nat
        BY ChannelAssumption, LenProperties DEF TypeOK
      <4> QED
        BY <1>0, <4>1 DEF WaitsJustified
    <3> QED
      BY <3>1 DEF Contains
  <2> QED
    BY <1>0, <1>1, <1>2, <2>1, NextValue DEF WrittenOnce
<1>11. WritesEntered'
  BY <1>0, <1>2, NextValue DEF WritesEntered, TypeOK, Coros, v
<1>12. Arrives'
  <2>1. \A r \in Readers : pc'[r] = pc[r]
    BY <1>0, ChannelAssumption DEF TypeOK, Coros
  <2>2. \A r : \A u \in Values : Carries(r, u)' <=> Carries(r, u)
    BY <1>0, <1>3, <1>5, NoneAssumption DEF Carries
  <2> QED
    BY <1>0, <1>2, <2>1, <2>2 DEF Arrives
<1> QED
  BY <1>6, <1>7, <1>8, <1>9, <1>10, <1>11, <1>12

\* A writer finds the buffer full.
LEMMA WriteWaitsPreserves ==
  ASSUME IInv, NEW w \in Writers, WriteWaits(w)
  PROVE  IInv'
<1> USE DEF IInv
<1>0. /\ BeginWrite(w) /\ active /\ pc[w] = "idle" /\ readerList = <<>>
      /\ Len(buffer) >= capacity /\ writerList' = Append(writerList, w)
      /\ pc' = [pc EXCEPT ![w] = "suspended"]
      /\ UNCHANGED <<capacity, active, cleaned, buffer, readerList, resuming, result, cwe,
                     handed, received, acked>>
      /\ UNCHANGED <<Due, Handed, Buffered>>
  BY DEF WriteWaits, BeginWrite, Due, Handed, Buffered
<1>1. /\ Value(w)' \notin Handed \cup Buffered
      /\ ~Contains(writerList, w) /\ ~Contains(readerList, w)
      /\ \A z \in Due : z.to # w
  BY <1>0, NextValue
<1>2. /\ writerList' \in Seq(Writers) /\ IsInjective(writerList')
      /\ \A c : Contains(writerList', c) <=> Contains(writerList, c) \/ c = w
  BY <1>0, <1>1, AppendFresh DEF TypeOK, Accounted
<1>3. TypeOK'
  BY <1>0, <1>2, NextValue DEF TypeOK
<1>4. WaitsJustified'
  <2>1. Len(buffer) \in Nat /\ capacity \in Nat
    BY ChannelAssumption, LenProperties DEF TypeOK
  <2> QED
    BY <1>0, <2>1 DEF WaitsJustified
<1>5. Accounted'
  BY <1>0, <1>1, <1>2, Members DEF Accounted, TypeOK, Coros
<1>6. ResultsScheduled' /\ CleanedClosed'
  BY <1>0 DEF ResultsScheduled, CleanedClosed, TypeOK, Coros
<1>7. WrittenOnce'
  BY <1>0, <1>1, <1>2, NextValue, ZenonT(60) DEF WrittenOnce
<1>8. WritesEntered'
  BY <1>0, <1>2, NextValue DEF WritesEntered, TypeOK, Coros
<1>9. Arrives'
  BY <1>0, ChannelAssumption DEF Arrives, Carries, TypeOK, Coros
<1> QED
  BY <1>3, <1>4, <1>5, <1>6, <1>7, <1>8, <1>9

\* A coroutine that reads is on no list, and its Result is and stays unset.
LEMMA NextRead ==
  ASSUME IInv, NEW r \in Readers, BeginRead(r)
  PROVE  /\ active /\ pc[r] = "idle" /\ result' = result
         /\ pc' = [pc EXCEPT ![r] = "suspended"]
         /\ \A w \in Writers : pc'[w] = pc[w]
         /\ ~Contains(writerList, r) /\ ~Contains(readerList, r)
         /\ \A x \in Due : x.to # r
<1>1. active /\ pc[r] = "idle" /\ pc' = [pc EXCEPT ![r] = "suspended"]
  BY DEF BeginRead
<1>2. \A w \in Writers : pc'[w] = pc[w]
  BY <1>1, ChannelAssumption DEF IInv, TypeOK, Coros
<1>3. result' = result
  <2>1. result[r] = None
    BY <1>1 DEF IInv, ResultsScheduled
  <2> QED
    BY <2>1 DEF BeginRead, IInv, TypeOK
<1>4. ~Contains(writerList, r) /\ ~Contains(readerList, r) /\ \A x \in Due : x.to # r
  BY <1>1 DEF IInv, Accounted, Coros
<1> QED
  BY <1>1, <1>2, <1>3, <1>4

\* The value of a writer who waits for room has not entered the channel.
LEMMA QueuedValue ==
  ASSUME IInv, NEW w, Contains(writerList, w)
  PROVE  /\ w \in Writers /\ w \notin Readers /\ w \in Coros /\ pc[w] = "suspended"
         /\ Value(w) \in Values /\ Value(w) \notin Handed \cup Buffered
         /\ Value(w)[1] = w /\ Value(w)[2] = wrote[w]
         /\ \A u : u # w => Value(u) # Value(w)
         /\ \A x \in Due : x.to # w
<1>1. w \in Writers /\ w \notin Readers /\ w \in Coros
  BY Members
<1>2. pc[w] = "suspended" /\ \A x \in Due : x.to # w
  BY <1>1 DEF IInv, Accounted
<1>3. wrote[w] \in 1 .. MaxWrites[w]
  <2>1. wrote[w] \in Nat /\ MaxWrites[w] \in Nat /\ wrote[w] <= MaxWrites[w]
    BY <1>1, ChannelAssumption DEF IInv, TypeOK
  <2>2. wrote[w] > 0
    BY <1>1, <1>2 DEF IInv, WritesEntered
  <2> QED
    BY <2>1, <2>2
<1>4. Value(w) \in Values
  BY <1>1, <1>3 DEF Value, Values
<1>5. Value(w) \notin Handed \cup Buffered
  BY <1>1 DEF IInv, WrittenOnce
<1> QED
  BY <1>1, <1>2, <1>4, <1>5 DEF Value

\* A reader takes the oldest buffered value, and nobody waits for room.
LEMMA ReadBufferAlonePreserves ==
  ASSUME IInv, NEW r \in Readers, ReadBuffer(r), writerList = <<>>
  PROVE  IInv'
<1> DEFINE v == Head(buffer)
           x == ResumeReader(r, v)
<1> USE DEF IInv
<1>0. /\ BeginRead(r) /\ buffer # <<>>
      /\ handed' = Append(handed, v) /\ buffer' = Tail(buffer)
      /\ resuming' = resuming \cup {<<x>>}
      /\ UNCHANGED <<capacity, active, cleaned, writerList, readerList, wrote, cwe, received, acked>>
  BY DEF ReadBuffer
<1>1. /\ v \in Values /\ buffer' \in Seq(Values) /\ IsInjective(buffer')
      /\ v \in Buffered /\ Buffered' = Buffered \ {v} /\ Len(buffer') = Len(buffer) - 1
  <2>1. buffer \in Seq(Values) /\ IsInjective(buffer) /\ buffer # <<>>
    BY <1>0 DEF TypeOK, WrittenOnce
  <2> QED
    BY <1>0, <2>1, TailProperties, ToSetProperties, HeadTailProperties DEF Buffered
<1> HIDE DEF v
<1>2. handed' \in Seq(Values) /\ Handed' = Handed \cup {v} /\ v \notin Handed
  BY <1>0, <1>1, ToSetProperties, AppendProperties DEF TypeOK, Handed, WrittenOnce
<1>3. /\ active /\ pc[r] = "idle" /\ result' = result
      /\ pc' = [pc EXCEPT ![r] = "suspended"]
      /\ \A w \in Writers : pc'[w] = pc[w]
      /\ ~Contains(writerList, r) /\ ~Contains(readerList, r)
      /\ \A z \in Due : z.to # r
  BY <1>0, NextRead
<1>4. x.to = r /\ x \in Item
  BY <1>1 DEF ResumeReader, Item
<1> HIDE DEF x
<1>5. Due' = Due \cup {x} /\ NoTwice(resuming') /\ resuming' \in SUBSET ItemLists
  <2>1. \A z \in Items(resuming) : z.to # x.to
    BY <1>3, <1>4 DEF Due
  <2>2. resuming \in SUBSET ItemLists /\ NoTwice(resuming)
    BY DEF Accounted
  <2>3. /\ NoTwice(resuming') /\ Items(resuming') = Items(resuming) \cup {x}
        /\ <<x>> \in ItemLists
    BY <1>0, <1>4, <2>1, <2>2, AddOne
  <2> QED
    BY <1>0, <2>2, <2>3 DEF Due
<1>6. TypeOK'
  BY <1>0, <1>1, <1>2, <1>3 DEF TypeOK
<1>7. WaitsJustified'
  <2>1. Len(buffer) \in Nat /\ capacity \in Nat /\ Len(buffer) <= capacity
    BY ChannelAssumption, LenProperties DEF TypeOK, WaitsJustified
  <2> QED
    BY <1>0, <1>1, <2>1 DEF WaitsJustified
<1>8. Accounted'
  BY <1>0, <1>3, <1>4, <1>5 DEF Accounted, TypeOK, Coros
<1>9. ResultsScheduled' /\ CleanedClosed'
  BY <1>0, <1>3 DEF ResultsScheduled, CleanedClosed, TypeOK, Coros
<1>10. WrittenOnce'
  BY <1>0, <1>1, <1>2 DEF WrittenOnce, Value
<1>11. WritesEntered'
  BY <1>0, <1>1, <1>2, <1>3 DEF WritesEntered, Value
<1>12. Arrives'
  <2> DEFINE D == {x}
  <2>1. /\ Due' = Due \cup D /\ ResumeReader(r, v) \in D
        /\ \A z \in D : z = ResumeReader(r, v) \/ z.value = None
    BY <1>5 DEF x
  <2>2. \A q \in Readers : pc'[q] = pc[q] \/ pc'[q] # "scheduled"
    BY <1>3 DEF TypeOK, Coros
  <2> HIDE DEF D
  <2> QED
    BY <1>0, <1>1, <1>2, <1>3, <2>1, <2>2, HandOver
<1> QED
  BY <1>6, <1>7, <1>8, <1>9, <1>10, <1>11, <1>12

\* A reader takes the oldest buffered value, and the oldest waiting writer
\* puts its own behind the others.
LEMMA ReadBufferPreserves ==
  ASSUME IInv, NEW r \in Readers, ReadBuffer(r), writerList # <<>>
  PROVE  IInv'
<1> DEFINE v == Head(buffer)
           h == Head(writerList)
           x == ResumeReader(r, v)
           y == ResumeWriter(h)
<1> USE DEF IInv
<1>0. /\ BeginRead(r) /\ buffer # <<>>
      /\ handed' = Append(handed, v) /\ buffer' = Append(Tail(buffer), Value(h))
      /\ writerList' = Tail(writerList)
      /\ resuming' = resuming \cup {<<y, x>>}
      /\ UNCHANGED <<capacity, active, cleaned, readerList, wrote, cwe, received, acked>>
  BY DEF ReadBuffer
<1>1. /\ Contains(writerList, h)
      /\ writerList' \in Seq(Writers) /\ IsInjective(writerList')
      /\ \A c : Contains(writerList', c) <=> Contains(writerList, c) /\ c # h
  BY <1>0, TailProperties DEF TypeOK, Accounted
<1> HIDE DEF h
<1>2. /\ h \in Writers /\ h \notin Readers /\ h \in Coros /\ pc[h] = "suspended"
      /\ Value(h) \in Values /\ Value(h) \notin Handed \cup Buffered
      /\ Value(h)[1] = h /\ Value(h)[2] = wrote[h]
      /\ \A u : u # h => Value(u) # Value(h)
      /\ \A z \in Due : z.to # h
  BY <1>1, QueuedValue
<1>3. /\ v \in Values /\ v \in Buffered
      /\ buffer' \in Seq(Values) /\ IsInjective(buffer')
      /\ Buffered' = (Buffered \ {v}) \cup {Value(h)} /\ Len(buffer') = Len(buffer)
  <2> DEFINE t == Tail(buffer)
  <2>1. buffer \in Seq(Values) /\ IsInjective(buffer) /\ buffer # <<>>
    BY <1>0 DEF TypeOK, WrittenOnce
  <2>2. /\ v \in Values /\ v \in Buffered /\ t \in Seq(Values) /\ IsInjective(t)
        /\ ToSet(t) = Buffered \ {v} /\ Len(t) = Len(buffer) - 1
    BY <2>1, TailProperties, ToSetProperties, HeadTailProperties DEF Buffered
  <2>3. buffer' = Append(t, Value(h))
    BY <1>0
  <2> HIDE DEF t, v
  <2>4. ~Contains(t, Value(h))
    BY <1>2, <2>2, ToSetProperties
  <2>5. /\ buffer' \in Seq(Values) /\ IsInjective(buffer')
        /\ ToSet(buffer') = ToSet(t) \cup {Value(h)} /\ Len(buffer') = Len(t) + 1
    BY <1>2, <2>2, <2>3, <2>4, AppendFresh, ToSetProperties, AppendProperties
  <2>6. Len(buffer) \in Nat
    BY <2>1, LenProperties
  <2> QED
    BY <2>2, <2>5, <2>6 DEF Buffered
<1> HIDE DEF v
<1>4. handed' \in Seq(Values) /\ Handed' = Handed \cup {v} /\ v \notin Handed
  BY <1>0, <1>3, ToSetProperties, AppendProperties DEF TypeOK, Handed, WrittenOnce
<1>5. /\ active /\ pc[r] = "idle" /\ result' = result
      /\ pc' = [pc EXCEPT ![r] = "suspended"]
      /\ \A w \in Writers : pc'[w] = pc[w]
      /\ ~Contains(writerList, r) /\ ~Contains(readerList, r)
      /\ \A z \in Due : z.to # r
  BY <1>0, NextRead
<1>6. x.to = r /\ x \in Item /\ y.to = h /\ y.value = None /\ y \in Item
  BY <1>2, <1>3 DEF ResumeReader, ResumeWriter, Item
<1> HIDE DEF x, y
<1>7. Due' = Due \cup {y, x} /\ NoTwice(resuming') /\ resuming' \in SUBSET ItemLists
  <2>1. \A z \in Items(resuming) : z.to # y.to /\ z.to # x.to
    BY <1>2, <1>5, <1>6 DEF Due
  <2>2. resuming \in SUBSET ItemLists /\ NoTwice(resuming) /\ y.to # x.to
    BY <1>2, <1>6 DEF Accounted
  <2>3. /\ NoTwice(resuming') /\ Items(resuming') = Items(resuming) \cup {y, x}
        /\ <<y, x>> \in ItemLists
    <3>1. /\ NoTwice(resuming \cup {<<y, x>>}) /\ <<y, x>> \in ItemLists
          /\ Items(resuming \cup {<<y, x>>}) = Items(resuming) \cup {y, x}
      BY <1>6, <2>1, <2>2, AddTwo
    <3> QED
      BY <1>0, <3>1
  <2> QED
    BY <1>0, <2>2, <2>3 DEF Due
<1>8. TypeOK'
  BY <1>0, <1>1, <1>3, <1>4, <1>5 DEF TypeOK
<1>9. WaitsJustified'
  BY <1>0, <1>3 DEF WaitsJustified
<1>10. Accounted'
  <2>1. ~Contains(readerList, h)
    BY <1>2, Members
  <2>2. \A c \in Coros : (\E z \in Due' : z.to = c) <=> (\E z \in Due : z.to = c) \/ c = h \/ c = r
    BY <1>6, <1>7
  <2>3. \A c \in Coros :
          pc'[c] = "suspended" <=> \/ Contains(writerList', c)
                                   \/ Contains(readerList', c)
                                   \/ \E z \in Due' : z.to = c
    BY <1>0, <1>1, <1>2, <1>5, <2>2, ZenonT(60) DEF Accounted, TypeOK
  <2> QED
    BY <1>0, <1>1, <1>2, <1>5, <1>6, <1>7, <2>1, <2>3 DEF Accounted
<1>11. ResultsScheduled' /\ CleanedClosed'
  BY <1>0, <1>5 DEF ResultsScheduled, CleanedClosed, TypeOK, Coros
<1>12. WrittenOnce'
  <2>1. \A u : Value(u)' = Value(u)
    BY <1>0 DEF Value
  <2>2. Handed' \cup Buffered' = Handed \cup Buffered \cup {Value(h)}
    BY <1>3, <1>4
  <2>3. \A u \in Handed' \cup Buffered' : u[2] <= wrote'[u[1]]
    <3>1. wrote[h] \in Nat
      BY <1>2 DEF TypeOK
    <3> QED
      BY <1>0, <1>2, <2>2, <3>1 DEF WrittenOnce
  <2>4. \A w \in Writers : Contains(writerList', w) => Value(w)' \notin Handed' \cup Buffered'
    BY <1>1, <1>2, <2>1, <2>2 DEF WrittenOnce
  <2>5. Handed' \cap Buffered' = {}
    BY <1>2, <1>3, <1>4 DEF WrittenOnce
  <2> QED
    BY <1>3, <2>3, <2>4, <2>5 DEF WrittenOnce
<1>13. WritesEntered'
  BY <1>0, <1>1, <1>3, <1>4, <1>5 DEF WritesEntered, Value
<1>14. Arrives'
  <2> DEFINE D == {y, x}
  <2>1. /\ Due' = Due \cup D /\ ResumeReader(r, v) \in D
        /\ \A z \in D : z = ResumeReader(r, v) \/ z.value = None
    BY <1>6, <1>7 DEF x
  <2>2. \A q \in Readers : pc'[q] = pc[q] \/ pc'[q] # "scheduled"
    BY <1>5 DEF TypeOK, Coros
  <2> HIDE DEF D
  <2> QED
    BY <1>0, <1>3, <1>4, <1>5, <2>1, <2>2, HandOver
<1> QED
  BY <1>8, <1>9, <1>10, <1>11, <1>12, <1>13, <1>14

\* A reader takes the value of the oldest waiting writer.
LEMMA ReadWriterPreserves ==
  ASSUME IInv, NEW r \in Readers, ReadWriter(r)
  PROVE  IInv'
<1> DEFINE h == Head(writerList)
           v == Value(h)
           x == ResumeReader(r, v)
           y == ResumeWriter(h)
<1> USE DEF IInv
<1>0. /\ BeginRead(r) /\ writerList # <<>> /\ buffer = <<>>
      /\ handed' = Append(handed, v) /\ writerList' = Tail(writerList)
      /\ resuming' = resuming \cup {<<x, y>>}
      /\ UNCHANGED <<capacity, active, cleaned, buffer, readerList, wrote, cwe, received, acked>>
      /\ UNCHANGED Buffered
  BY DEF ReadWriter, Buffered
<1>1. /\ Contains(writerList, h)
      /\ writerList' \in Seq(Writers) /\ IsInjective(writerList')
      /\ \A c : Contains(writerList', c) <=> Contains(writerList, c) /\ c # h
  BY <1>0, TailProperties DEF TypeOK, Accounted
<1> HIDE DEF h
<1>2. /\ h \in Writers /\ h \notin Readers /\ h \in Coros /\ pc[h] = "suspended"
      /\ v \in Values /\ v \notin Handed \cup Buffered /\ v[1] = h /\ v[2] = wrote[h]
      /\ \A u : u # h => Value(u) # v
      /\ \A z \in Due : z.to # h
  BY <1>1, QueuedValue
<1> HIDE DEF v
<1>3. handed' \in Seq(Values) /\ Handed' = Handed \cup {v}
  BY <1>0, <1>2, ToSetProperties, AppendProperties DEF TypeOK, Handed
<1>4. /\ active /\ pc[r] = "idle" /\ result' = result
      /\ pc' = [pc EXCEPT ![r] = "suspended"]
      /\ \A w \in Writers : pc'[w] = pc[w]
      /\ ~Contains(writerList, r) /\ ~Contains(readerList, r)
      /\ \A z \in Due : z.to # r
  BY <1>0, NextRead
<1>5. x.to = r /\ x \in Item /\ y.to = h /\ y.value = None /\ y \in Item
  BY <1>2 DEF ResumeReader, ResumeWriter, Item
<1> HIDE DEF x, y
<1>6. Due' = Due \cup {x, y} /\ NoTwice(resuming') /\ resuming' \in SUBSET ItemLists
  <2>1. \A z \in Items(resuming) : z.to # x.to /\ z.to # y.to
    BY <1>2, <1>4, <1>5 DEF Due
  <2>2. resuming \in SUBSET ItemLists /\ NoTwice(resuming) /\ x.to # y.to
    BY <1>2, <1>5 DEF Accounted
  <2>3. /\ NoTwice(resuming') /\ Items(resuming') = Items(resuming) \cup {x, y}
        /\ <<x, y>> \in ItemLists
    BY <1>0, <1>5, <2>1, <2>2, AddTwo, SMTT(30)
  <2> QED
    BY <1>0, <2>2, <2>3 DEF Due
<1>7. TypeOK'
  BY <1>0, <1>1, <1>3, <1>4 DEF TypeOK
<1>8. WaitsJustified'
  BY <1>0 DEF WaitsJustified
<1>9. Accounted'
  <2>1. ~Contains(readerList, h)
    BY <1>2, Members
  <2>2. \A c \in Coros : (\E z \in Due' : z.to = c) <=> (\E z \in Due : z.to = c) \/ c = h \/ c = r
    BY <1>5, <1>6
  <2>3. \A c \in Coros :
          pc'[c] = "suspended" <=> \/ Contains(writerList', c)
                                   \/ Contains(readerList', c)
                                   \/ \E z \in Due' : z.to = c
    BY <1>0, <1>1, <1>2, <1>4, <2>2, SMTT(30) DEF Accounted, TypeOK
  <2> QED
    BY <1>0, <1>1, <1>2, <1>4, <1>5, <1>6, <2>1, <2>3 DEF Accounted
<1>10. ResultsScheduled' /\ CleanedClosed'
  BY <1>0, <1>4 DEF ResultsScheduled, CleanedClosed, TypeOK, Coros
<1>11. WrittenOnce'
  <2>1. \A u : Value(u)' = Value(u)
    BY <1>0 DEF Value
  <2>2. wrote[h] \in Nat
    BY <1>2 DEF TypeOK
  <2> QED
    BY <1>0, <1>1, <1>2, <1>3, <2>1, <2>2 DEF WrittenOnce
<1>12. WritesEntered'
  BY <1>0, <1>1, <1>3, <1>4 DEF WritesEntered, Value, v
<1>13. Arrives'
  <2> DEFINE D == {x, y}
  <2>1. /\ Due' = Due \cup D /\ ResumeReader(r, v) \in D
        /\ \A z \in D : z = ResumeReader(r, v) \/ z.value = None
    BY <1>5, <1>6 DEF x
  <2>2. \A q \in Readers : pc'[q] = pc[q] \/ pc'[q] # "scheduled"
    BY <1>4 DEF TypeOK, Coros
  <2> HIDE DEF D
  <2> QED
    BY <1>0, <1>2, <1>3, <1>4, <2>1, <2>2, HandOver
<1> QED
  BY <1>7, <1>8, <1>9, <1>10, <1>11, <1>12, <1>13

\* A reader finds nothing to read.
LEMMA ReadWaitsPreserves ==
  ASSUME IInv, NEW r \in Readers, ReadWaits(r)
  PROVE  IInv'
<1> USE DEF IInv
<1>0. /\ BeginRead(r) /\ buffer = <<>> /\ writerList = <<>>
      /\ readerList' = Append(readerList, r)
      /\ UNCHANGED <<capacity, active, cleaned, buffer, writerList, resuming, wrote, cwe,
                     handed, received, acked>>
      /\ UNCHANGED <<Due, Handed, Buffered>>
  BY DEF ReadWaits, Due, Handed, Buffered
<1>1. /\ active /\ pc[r] = "idle" /\ result' = result
      /\ pc' = [pc EXCEPT ![r] = "suspended"]
      /\ \A w \in Writers : pc'[w] = pc[w]
      /\ ~Contains(writerList, r) /\ ~Contains(readerList, r)
      /\ \A z \in Due : z.to # r
  BY <1>0, NextRead
<1>2. /\ readerList' \in Seq(Readers) /\ IsInjective(readerList')
      /\ \A c : Contains(readerList', c) <=> Contains(readerList, c) \/ c = r
  BY <1>0, <1>1, AppendFresh DEF TypeOK, Accounted
<1>3. TypeOK'
  BY <1>0, <1>1, <1>2 DEF TypeOK
<1>4. WaitsJustified'
  BY <1>0 DEF WaitsJustified
<1>5. Accounted'
  BY <1>0, <1>1, <1>2 DEF Accounted, TypeOK, Coros
<1>6. ResultsScheduled' /\ CleanedClosed'
  BY <1>0, <1>1 DEF ResultsScheduled, CleanedClosed, TypeOK, Coros
<1>7. WrittenOnce' /\ WritesEntered'
  BY <1>0, <1>1 DEF WrittenOnce, WritesEntered, Value
<1>8. Arrives'
  <2>1. \A q \in Readers : pc'[q] = "scheduled" => pc[q] = "scheduled"
    BY <1>1 DEF TypeOK, Coros
  <2>2. \A q, u : Carries(q, u)' <=> Carries(q, u)
    BY <1>0, <1>1 DEF Carries
  <2> QED
    BY <1>0, <1>1, <2>1, <2>2 DEF Arrives
<1> QED
  BY <1>3, <1>4, <1>5, <1>6, <1>7, <1>8

\* A push resumes the next awaiter that it took off a list.
LEMMA ResumePreserves ==
  ASSUME IInv, NEW s \in resuming, Resume(s)
  PROVE  IInv'
<1> DEFINE x == Head(s)
<1> USE DEF IInv
<1>0. /\ resuming' = Without(resuming, s)
      /\ pc' = [pc EXCEPT ![x.to] = "scheduled"]
      /\ result' = IF x.to \in Readers THEN [result EXCEPT ![x.to] = x.value] ELSE result
      /\ UNCHANGED <<capacity, active, cleaned, buffer, writerList, readerList, wrote, cwe,
                     handed, received, acked>>
      /\ UNCHANGED <<Handed, Buffered>>
  BY DEF Resume, Without, Handed, Buffered
<1>1. /\ x \in Item /\ x \in Due /\ Due' = Due \ {x}
      /\ NoTwice(resuming') /\ resuming' \in SUBSET ItemLists
  BY <1>0, ResumeFirst DEF Accounted, Due
<1> HIDE DEF x
<1>2. \A z \in Due : z.to = x.to => z = x
  BY <1>1, NoTwiceItems DEF Accounted, Due
<1>3. x.to \in Coros /\ pc[x.to] = "suspended" /\ (x.to \in Readers => x.value \in Values)
  BY <1>1, Members, ChannelAssumption DEF Accounted, Item
<1>4. ~Contains(writerList, x.to) /\ ~Contains(readerList, x.to)
  BY <1>1 DEF Accounted
<1>5. TypeOK'
  BY <1>0, <1>3 DEF TypeOK
<1>6. WaitsJustified'
  BY <1>0 DEF WaitsJustified
<1>7. Accounted'
  <2>1. \A c \in Coros : (\E z \in Due' : z.to = c) <=> (\E z \in Due : z.to = c) /\ c # x.to
    BY <1>1, <1>2
  <2>2. \A c \in Coros :
          pc'[c] = "suspended" <=> \/ Contains(writerList', c)
                                   \/ Contains(readerList', c)
                                   \/ \E z \in Due' : z.to = c
    BY <1>0, <1>3, <1>4, <2>1 DEF Accounted, TypeOK
  <2> QED
    BY <1>0, <1>1, <2>2 DEF Accounted
<1>8. ResultsScheduled' /\ CleanedClosed'
  BY <1>0, <1>3 DEF ResultsScheduled, CleanedClosed, TypeOK, Coros
<1>9. WrittenOnce'
  BY <1>0 DEF WrittenOnce, Value
<1>10. WritesEntered'
  BY <1>0, <1>3 DEF WritesEntered, Value, TypeOK, Coros
<1>11. Arrives'
  <2>1. \A q \in Readers : \A u \in Values : Carries(q, u)' <=> Carries(q, u)
    <3> SUFFICES ASSUME NEW q \in Readers, NEW u \in Values
                 PROVE  Carries(q, u)' <=> Carries(q, u)
      OBVIOUS
    <3>1. CASE q = x.to
      <4>1. result[q] = None /\ result'[q] = x.value
        BY <1>0, <1>3, <3>1 DEF ResultsScheduled, TypeOK
      <4>2. ~ \E z \in Due' : z.to = q
        BY <1>1, <1>2, <3>1
      <4>3. (\E z \in Due : z.to = q /\ z.value = u) <=> x.value = u
        BY <1>1, <1>2, <3>1
      <4> QED
        BY <4>1, <4>2, <4>3, NoneAssumption DEF Carries
    <3>2. CASE q # x.to
      <4>1. result'[q] = result[q]
        BY <1>0, <3>2 DEF TypeOK
      <4> QED
        BY <1>1, <3>2, <4>1 DEF Carries
    <3> QED
      BY <3>1, <3>2
  <2>2. active => \A q \in Readers : pc'[q] = "scheduled" => result'[q] # None
    BY <1>0, <1>3, NoneAssumption DEF Arrives, TypeOK, Coros
  <2> QED
    BY <1>0, <2>1, <2>2 DEF Arrives
<1> QED
  BY <1>5, <1>6, <1>7, <1>8, <1>9, <1>10, <1>11

\* A worker resumes a writer.
LEMMA FinishWritePreserves ==
  ASSUME IInv, NEW w \in Writers, FinishWrite(w)
  PROVE  IInv'
<1> USE DEF IInv
<1>0. /\ pc[w] = "scheduled" /\ pc' = [pc EXCEPT ![w] = "idle"]
      /\ acked' = IF active THEN acked \cup {Value(w)} ELSE acked
      /\ UNCHANGED <<capacity, active, cleaned, buffer, writerList, readerList, resuming,
                     wrote, result, cwe, handed, received>>
      /\ UNCHANGED <<Due, Handed, Buffered>>
  BY DEF FinishWrite, Due, Handed, Buffered
<1>1. active => Value(w) \in Handed \cup Buffered
  <2>1. ~Contains(writerList, w)
    BY <1>0 DEF Accounted, Coros
  <2> QED
    BY <1>0, <2>1 DEF WritesEntered
<1>2. \A r \in Readers : pc'[r] = pc[r]
  BY <1>0, ChannelAssumption DEF TypeOK, Coros
<1>3. TypeOK'
  BY <1>0, <1>1, Members DEF TypeOK
<1>4. WaitsJustified' /\ ResultsScheduled' /\ CleanedClosed' /\ WrittenOnce'
  BY <1>0, <1>2 DEF WaitsJustified, ResultsScheduled, CleanedClosed, WrittenOnce, Value
<1>5. Accounted'
  BY <1>0 DEF Accounted, TypeOK, Coros
<1>6. WritesEntered'
  BY <1>0 DEF WritesEntered, Value, TypeOK, Coros
<1>7. Arrives'
  BY <1>0, <1>1, <1>2 DEF Arrives, Carries
<1> QED
  BY <1>3, <1>4, <1>5, <1>6, <1>7

\* A worker resumes a reader.
LEMMA FinishReadPreserves ==
  ASSUME IInv, NEW r \in Readers, FinishRead(r)
  PROVE  IInv'
<1> USE DEF IInv
<1>0. /\ pc[r] = "scheduled" /\ pc' = [pc EXCEPT ![r] = "idle"]
      /\ result' = [result EXCEPT ![r] = None]
      /\ received' = IF active THEN received \cup {result[r]} ELSE received
      /\ UNCHANGED <<capacity, active, cleaned, buffer, writerList, readerList, resuming,
                     wrote, cwe, handed, acked>>
      /\ UNCHANGED <<Due, Handed, Buffered>>
  BY DEF FinishRead, Due, Handed, Buffered
<1>1. \A w \in Writers : pc'[w] = pc[w]
  BY <1>0, ChannelAssumption DEF TypeOK, Coros
<1>2. result[r] \in Values \cup {None} /\ (active => result[r] \in Values)
  BY <1>0 DEF TypeOK, Arrives
<1>3. TypeOK'
  BY <1>0, <1>2 DEF TypeOK
<1>4. WaitsJustified' /\ CleanedClosed' /\ WrittenOnce' /\ WritesEntered'
  BY <1>0, <1>1 DEF WaitsJustified, CleanedClosed, WrittenOnce, WritesEntered, Value
<1>5. ResultsScheduled'
  BY <1>0 DEF ResultsScheduled, TypeOK, Coros
<1>6. Accounted'
  BY <1>0 DEF Accounted, TypeOK, Coros
<1>7. Arrives'
  <2>1. \A u \in Values : Carries(r, u) <=> u = result[r]
    <3>1. ~ \E z \in Due : z.to = r
      BY <1>0 DEF Accounted, Coros
    <3> QED
      BY <3>1, NoneAssumption DEF Carries
  <2>2. \A q \in Readers : \A u \in Values : Carries(q, u)' <=> Carries(q, u) /\ q # r
    <3>1. ~ \E z \in Due : z.to = r
      BY <1>0 DEF Accounted, Coros
    <3>2. \A q \in Readers : result'[q] = IF q = r THEN None ELSE result[q]
      BY <1>0 DEF TypeOK
    <3> QED
      BY <1>0, <3>1, <3>2 DEF Carries
  <2>3. \A q \in Readers : pc'[q] = "scheduled" => q # r /\ pc[q] = "scheduled" /\ result'[q] = result[q]
    BY <1>0 DEF TypeOK, Coros
  <2> SUFFICES ASSUME active PROVE Arrives'
    BY <1>0 DEF Arrives
  <2>4. received' = received \cup {result[r]}
    BY <1>0
  <2>5. \A u \in Values : u \in Handed' <=> u \in received' \/ \E q \in Readers : Carries(q, u)'
    BY <1>0, <2>1, <2>2, <2>4 DEF Arrives
  <2>6. \A q \in Readers : \A u \in Values : Carries(q, u)' => u \notin received'
    BY <2>1, <2>2, <2>4 DEF Arrives
  <2> QED
    BY <1>0, <2>2, <2>3, <2>5, <2>6 DEF Arrives
<1> QED
  BY <1>3, <1>4, <1>5, <1>6, <1>7

\* A coroutine that waits for room is destroyed.
LEMMA AbandonWritePreserves ==
  ASSUME IInv, NEW w \in Writers, AbandonWrite(w)
  PROVE  IInv'
<1> USE DEF IInv
<1>0. /\ Contains(writerList, w) /\ pc' = [pc EXCEPT ![w] = "idle"]
      /\ UNCHANGED <<capacity, active, cleaned, buffer, readerList, resuming, wrote, result,
                     cwe, handed, received, acked>>
      /\ UNCHANGED <<Due, Handed, Buffered>>
  BY DEF AbandonWrite, Due, Handed, Buffered
<1>1. /\ writerList' \in Seq(Writers) /\ IsInjective(writerList')
      /\ \A c : Contains(writerList', c) <=> Contains(writerList, c) /\ c # w
      /\ writerList # <<>>
  <2>1. writerList # <<>>
    BY <1>0 DEF Contains
  <2> QED
    BY <2>1, RemoveFirstProperties DEF AbandonWrite, TypeOK, Accounted
<1>2. \A z \in Due : z.to # w
  BY <1>0, QueuedValue
<1>3. ~Contains(readerList, w) /\ \A r \in Readers : pc'[r] = pc[r]
  BY <1>0, Members, ChannelAssumption DEF TypeOK, Coros
<1>4. TypeOK'
  BY <1>0, <1>1 DEF TypeOK
<1>5. WaitsJustified'
  BY <1>0, <1>1 DEF WaitsJustified
<1>6. ResultsScheduled' /\ CleanedClosed'
  BY <1>0, <1>3 DEF ResultsScheduled, CleanedClosed
<1>7. Accounted'
  BY <1>0, <1>1, <1>2, <1>3 DEF Accounted, TypeOK, Coros
<1>8. WrittenOnce' /\ WritesEntered'
  BY <1>0, <1>1 DEF WrittenOnce, WritesEntered, Value, TypeOK, Coros
<1>9. Arrives'
  BY <1>0, <1>3 DEF Arrives, Carries
<1> QED
  BY <1>4, <1>5, <1>6, <1>7, <1>8, <1>9

\* A coroutine that waits for a value is destroyed.
LEMMA AbandonReadPreserves ==
  ASSUME IInv, NEW r \in Readers, AbandonRead(r)
  PROVE  IInv'
<1> USE DEF IInv
<1>0. /\ Contains(readerList, r) /\ pc' = [pc EXCEPT ![r] = "idle"]
      /\ UNCHANGED <<capacity, active, cleaned, buffer, writerList, resuming, wrote, result,
                     cwe, handed, received, acked>>
      /\ UNCHANGED <<Due, Handed, Buffered>>
  BY DEF AbandonRead, Due, Handed, Buffered
<1>1. /\ readerList' \in Seq(Readers) /\ IsInjective(readerList')
      /\ \A c : Contains(readerList', c) <=> Contains(readerList, c) /\ c # r
      /\ readerList # <<>>
  <2>1. readerList # <<>>
    BY <1>0 DEF Contains
  <2> QED
    BY <2>1, RemoveFirstProperties DEF AbandonRead, TypeOK, Accounted
<1>2. /\ \A z \in Due : z.to # r
      /\ ~Contains(writerList, r) /\ pc[r] = "suspended"
      /\ \A w \in Writers : pc'[w] = pc[w]
  BY <1>0, Members, ChannelAssumption DEF Accounted, TypeOK, Coros
<1>3. TypeOK'
  BY <1>0, <1>1 DEF TypeOK
<1>4. WaitsJustified'
  BY <1>0, <1>1 DEF WaitsJustified
<1>5. ResultsScheduled' /\ CleanedClosed'
  BY <1>0, <1>2 DEF ResultsScheduled, CleanedClosed, TypeOK, Coros
<1>6. Accounted'
  BY <1>0, <1>1, <1>2 DEF Accounted, TypeOK, Coros
<1>7. WrittenOnce' /\ WritesEntered'
  BY <1>0, <1>2 DEF WrittenOnce, WritesEntered, Value
<1>8. Arrives'
  BY <1>0 DEF Arrives, Carries, TypeOK, Coros
<1> QED
  BY <1>3, <1>4, <1>5, <1>6, <1>7, <1>8

\* clean_up schedules all who wait.
LEMMA CleanUpPreserves == ASSUME IInv, CleanUp PROVE IInv'
<1> USE DEF IInv
<1>0. /\ ~active /\ cleaned' = TRUE
      /\ pc' = [c \in Coros |-> IF Contains(writerList, c) \/ Contains(readerList, c)
                                THEN "scheduled" ELSE pc[c]]
      /\ writerList' = <<>> /\ readerList' = <<>> /\ buffer' = <<>>
      /\ UNCHANGED <<capacity, active, resuming, wrote, result, cwe, handed, received, acked>>
      /\ UNCHANGED <<Due, Handed>> /\ Buffered' = {}
  BY DEF CleanUp, Due, Handed, Buffered, ToSet
<1>1. /\ \A c : ~Contains(writerList', c) /\ ~Contains(readerList', c)
      /\ IsInjective(writerList') /\ IsInjective(readerList') /\ IsInjective(buffer')
  BY <1>0 DEF Contains, IsInjective
<1>2. TypeOK'
  <2>1. writerList' \in Seq(Writers) /\ readerList' \in Seq(Readers) /\ buffer' \in Seq(Values)
    BY <1>0, EmptySeq
  <2>2. pc' \in [Coros -> {"idle", "suspended", "scheduled"}]
    BY <1>0 DEF TypeOK
  <2> QED
    BY <1>0, <2>1, <2>2 DEF TypeOK
<1>3. WaitsJustified'
  BY <1>0, <1>2, ChannelAssumption DEF WaitsJustified, TypeOK
<1>4. Accounted'
  <2>1. \A c \in Coros : pc'[c] = "suspended" <=> \E z \in Due : z.to = c
    BY <1>0 DEF Accounted
  <2> QED
    BY <1>0, <1>1, <2>1 DEF Accounted
<1>5. ResultsScheduled' /\ CleanedClosed' /\ WrittenOnce'
  BY <1>0, <1>1 DEF ResultsScheduled, CleanedClosed, WrittenOnce, Value, Coros
<1>6. WritesEntered'
  <2>1. \A w \in Writers : pc'[w] # "idle" => pc[w] # "idle"
    BY <1>0 DEF Accounted, Coros
  <2> QED
    BY <1>0, <2>1 DEF WritesEntered
<1>7. Arrives'
  BY <1>0 DEF Arrives
<1> QED
  BY <1>2, <1>3, <1>4, <1>5, <1>6, <1>7

\* close() and the polling of close_when_empty touch no list.
LEMMA CloseStepsPreserve ==
  ASSUME IInv, \/ Close \/ CweCall \/ CweFindsEmpty \/ CweGivesUp \/ CweClose
               \/ UNCHANGED vars
  PROVE  IInv'
<1> USE DEF IInv
<1>0. /\ UNCHANGED <<capacity, cleaned, buffer, writerList, readerList, resuming, pc, wrote,
                     result, handed, received, acked>>
      /\ active' = active \/ active' = FALSE
      /\ cwe' \in {"off", "polling", "empty", "done"}
      /\ UNCHANGED <<Due, Handed, Buffered>>
  BY DEF Close, CweCall, CweFindsEmpty, CweGivesUp, CweClose, CweGoto, vars, TypeOK,
     Due, Handed, Buffered
<1>1. TypeOK'
  BY <1>0 DEF TypeOK
<1>2. WaitsJustified' /\ Accounted' /\ ResultsScheduled' /\ CleanedClosed'
  BY <1>0 DEF WaitsJustified, Accounted, ResultsScheduled, CleanedClosed
<1>3. WrittenOnce' /\ WritesEntered' /\ Arrives'
  BY <1>0 DEF WrittenOnce, WritesEntered, Value, Arrives, Carries
<1> QED
  BY <1>1, <1>2, <1>3

LEMMA StepPreserves == IInv /\ [Next]_vars => IInv'
<1> SUFFICES ASSUME IInv, [Next]_vars PROVE IInv'
  OBVIOUS
<1>1. ASSUME NEW w \in Writers,
             \/ WriteThrows(w) \/ WriteToReader(w) \/ WriteToBuffer(w) \/ WriteWaits(w)
             \/ FinishWrite(w) \/ AbandonWrite(w)
      PROVE  IInv'
  BY <1>1, WriteThrowsPreserves, WriteToReaderPreserves, WriteToBufferPreserves,
     WriteWaitsPreserves, FinishWritePreserves, AbandonWritePreserves
<1>2. ASSUME NEW r \in Readers,
             \/ ReadBuffer(r) \/ ReadWriter(r) \/ ReadWaits(r)
             \/ FinishRead(r) \/ AbandonRead(r)
      PROVE  IInv'
  BY <1>2, ReadBufferPreserves, ReadBufferAlonePreserves, ReadWriterPreserves,
     ReadWaitsPreserves, FinishReadPreserves, AbandonReadPreserves
<1>3. ASSUME NEW s \in resuming, Resume(s) PROVE IInv'
  BY <1>3, ResumePreserves
<1>4. CASE CleanUp
  BY <1>4, CleanUpPreserves
<1>5. CASE \/ Close \/ CweCall \/ CweFindsEmpty \/ CweGivesUp \/ CweClose
           \/ UNCHANGED vars
  BY <1>5, CloseStepsPreserve
<1> QED
  BY <1>1, <1>2, <1>3, <1>4, <1>5 DEF Next

\* IInv holds in every reachable state.
LEMMA IInvariant == Spec => []IInv
BY InitEstablishes, StepPreserves, PTL DEF Spec

\* No reader waits while there is a value, no writer while there is room; and
\* close(), reads, writes and destroyed awaiters race without losing a waiter
\* or resuming one twice (channel.hpp:32-103, 185-203).
THEOREM ChannelInvariant == Spec => []ChannelInv
<1>1. IInv => ChannelInv
  BY IInvImplies
<1> QED
  BY <1>1, IInvariant, PTL

\* While the channel is open, each value that was handed to a reader is
\* returned by one read or on its way to one reader; and what a write that has
\* returned wrote is in the buffer or has a reader.
THEOREM ChannelArrives == Spec => []HandedArrives
<1>1. IInv => HandedArrives
  BY IInvImplies
<1> QED
  BY <1>1, IInvariant, PTL

-----------------------------------------------------------------------------
(***************************************************************************)
(* A channel hands out values in the order in which it accepted them:      *)
(* every step is a step of FifoChannel, whose queue is the buffer followed *)
(* by the values of the writers who wait, or leaves it as it is.           *)
(***************************************************************************)

\* Accepted, place by place.
AcceptedShape ==
  /\ Len(buffer) \in Nat /\ Len(writerList) \in Nat
  /\ Accepted \in Seq(Values)
  /\ Len(Accepted) = Len(buffer) + Len(writerList)
  /\ \A i \in 1 .. Len(buffer) : Accepted[i] = buffer[i]
  /\ \A i \in 1 .. Len(writerList) : Accepted[Len(buffer) + i] = Value(writerList[i])

LEMMA ShapeOfAccepted == IInv => AcceptedShape
<1> SUFFICES ASSUME IInv PROVE AcceptedShape
  OBVIOUS
<1> DEFINE b == buffer
           l == writerList
           m == [i \in DOMAIN writerList |-> Value(writerList[i])]
<1>1. b \in Seq(Values) /\ Len(b) \in Nat /\ Len(l) \in Nat /\ DOMAIN l = 1 .. Len(l)
  BY LenProperties DEF IInv, TypeOK
<1>2. m \in Seq(Values) /\ Len(m) = Len(l) /\ \A i \in 1 .. Len(l) : m[i] = Value(l[i])
  <2>1. \A i \in 1 .. Len(l) : Value(l[i]) \in Values
    BY QueuedValue DEF Contains
  <2>2. m \in [1 .. Len(l) -> Values]
    BY <1>1, <2>1
  <2> QED
    BY <1>1, <2>2
<1>3. Accepted = b \o m
  BY DEF Accepted
<1> HIDE DEF b, m, l
<1>4. /\ b \o m \in Seq(Values) /\ Len(b \o m) = Len(b) + Len(m)
      /\ \A i \in 1 .. Len(b) + Len(m) : (b \o m)[i] = IF i <= Len(b) THEN b[i] ELSE m[i - Len(b)]
  BY <1>1, <1>2, ConcatProperties
<1>5. \A i \in 1 .. Len(b) : (b \o m)[i] = b[i]
  BY <1>1, <1>2, <1>4
<1>6. \A i \in 1 .. Len(l) : (b \o m)[Len(b) + i] = Value(l[i])
  <2> SUFFICES ASSUME NEW i \in 1 .. Len(l) PROVE (b \o m)[Len(b) + i] = m[i]
    BY <1>2
  <2>1. Len(b) + i \in 1 .. Len(b) + Len(m) /\ ~(Len(b) + i <= Len(b)) /\ Len(b) + i - Len(b) = i
    BY <1>1, <1>2
  <2> QED
    BY <1>4, <2>1
<1> QED
  BY <1>1, <1>2, <1>3, <1>4, <1>5, <1>6 DEF AcceptedShape, b, l

\* With nobody waiting for room, it is the buffer.
AcceptedAlone == writerList = <<>> => Accepted = buffer

LEMMA AcceptedIsBuffer == IInv => AcceptedAlone
<1> SUFFICES ASSUME IInv, writerList = <<>> PROVE Accepted = buffer
  BY DEF AcceptedAlone
<1>1. AcceptedShape /\ buffer \in Seq(Values) /\ Len(writerList) = 0
  BY ShapeOfAccepted DEF IInv, TypeOK
<1>2. Len(Accepted) = Len(buffer) /\ \A i \in 1 .. Len(Accepted) : Accepted[i] = buffer[i]
  BY <1>1 DEF AcceptedShape
<1> QED
  BY <1>1, <1>2, SeqEqual DEF AcceptedShape

\* A sequence is determined by its parts.
LEMMA AcceptedPrimeIs ==
  ASSUME IInv', NEW q \in Seq(Values),
         Len(q) = Len(buffer') + Len(writerList'),
         \A i \in 1 .. Len(buffer') : q[i] = buffer'[i],
         \A i \in 1 .. Len(writerList') : 
           q[Len(buffer') + i] = <<writerList'[i], wrote'[writerList'[i]]>>
  PROVE  Accepted' = q
<1>1. AcceptedShape'
  BY ShapeOfAccepted, PTL
<1>2. Len(Accepted') = Len(q) /\ Accepted' \in Seq(Values)
  BY <1>1 DEF AcceptedShape
<1>3. ASSUME NEW i \in 1 .. Len(q) PROVE Accepted'[i] = q[i]
  <2>1. CASE i \in 1 .. Len(buffer')
    BY <1>1, <2>1 DEF AcceptedShape
  <2>2. CASE i \notin 1 .. Len(buffer')
    <3>1. /\ i - Len(buffer') \in 1 .. Len(writerList')
          /\ Len(buffer') + (i - Len(buffer')) = i
      BY <1>1, <2>2 DEF AcceptedShape
    <3>2. Accepted'[i] = <<writerList'[i - Len(buffer')], wrote'[writerList'[i - Len(buffer')]]>>
      BY <1>1, <3>1 DEF AcceptedShape, Value
    <3> QED
      BY <3>1, <3>2
  <2> QED
    BY <2>1, <2>2
<1> QED
  BY <1>2, <1>3, SeqEqual

\* A write that waits puts its value behind all the others.
LEMMA WriteWaitsAppends ==
  ASSUME IInv, IInv', NEW w \in Writers, WriteWaits(w)
  PROVE  Accepted' = Append(Accepted, Value(w)')
<1> DEFINE v == Value(w)'
           q == Append(Accepted, v)
<1>0. /\ BeginWrite(w) /\ buffer' = buffer /\ writerList' = Append(writerList, w)
      /\ writerList \in Seq(Writers) /\ AcceptedShape
  BY ShapeOfAccepted DEF WriteWaits, IInv, TypeOK
<1>1. /\ v \in Values /\ ~Contains(writerList, w)
      /\ \A u \in Writers \ {w} : wrote'[u] = wrote[u]
  BY <1>0, NextValue
<1>2. v = <<w, wrote'[w]>>
  BY DEF Value
<1> HIDE DEF v
<1>3. /\ q \in Seq(Values) /\ Len(q) = Len(Accepted) + 1 /\ q[Len(Accepted) + 1] = v
      /\ \A i \in 1 .. Len(Accepted) : q[i] = Accepted[i]
  BY <1>0, <1>1, AppendProperties DEF AcceptedShape
<1>4. /\ Len(writerList') = Len(writerList) + 1 /\ writerList'[Len(writerList) + 1] = w
      /\ \A i \in 1 .. Len(writerList) : writerList'[i] = writerList[i]
  BY <1>0, AppendProperties
<1> HIDE DEF q
<1>5. ASSUME NEW i \in 1 .. Len(writerList')
      PROVE  q[Len(buffer') + i] = <<writerList'[i], wrote'[writerList'[i]]>>
  <2>1. CASE i = Len(writerList) + 1
    <3>1. Len(buffer') + i = Len(Accepted) + 1
      BY <1>0, <2>1 DEF AcceptedShape
    <3> QED
      BY <1>2, <1>3, <1>4, <2>1, <3>1
  <2>2. CASE i # Len(writerList) + 1
    <3>1. /\ i \in 1 .. Len(writerList) /\ Len(buffer) + i \in 1 .. Len(Accepted)
      BY <1>0, <1>4, <2>2 DEF AcceptedShape
    <3>2. writerList[i] \in Writers \ {w}
      BY <1>0, <1>1, <3>1, ElementOfSeq DEF Contains
    <3>3. q[Len(buffer') + i] = <<writerList[i], wrote[writerList[i]]>>
      BY <1>0, <1>3, <3>1 DEF AcceptedShape, Value
    <3> QED
      BY <1>1, <1>4, <3>1, <3>2, <3>3
  <2> QED
    BY <2>1, <2>2
<1>6. /\ Len(q) = Len(buffer') + Len(writerList')
      /\ \A i \in 1 .. Len(buffer') : q[i] = buffer'[i]
  BY <1>0, <1>3, <1>4 DEF AcceptedShape
<1>7. Accepted' = q
  BY <1>3, <1>5, <1>6, AcceptedPrimeIs
<1> QED
  BY <1>7 DEF q, v

\* A read takes the head of the queue: of the buffer, where the oldest waiting
\* writer makes up for it, or of the writers who wait.
LEMMA ReadTakesHead ==
  ASSUME IInv, IInv', NEW r \in Readers, ReadBuffer(r) \/ ReadWriter(r)
  PROVE  /\ Accepted # <<>> /\ handed' = Append(handed, Head(Accepted))
         /\ Accepted' = Tail(Accepted)
<1> DEFINE q == Tail(Accepted)
<1>0. /\ AcceptedShape /\ wrote' = wrote
      /\ buffer \in Seq(Values) /\ writerList \in Seq(Writers)
  BY ShapeOfAccepted DEF IInv, TypeOK, ReadBuffer, ReadWriter
<1>1. buffer # <<>> \/ writerList # <<>>
  BY DEF ReadBuffer, ReadWriter
<1>2. Accepted # <<>>
  <2>1. Len(buffer) + Len(writerList) > 0
    <3>1. Len(buffer) > 0 \/ Len(writerList) > 0
      BY <1>0, <1>1, EmptySeq DEF AcceptedShape
    <3> QED
      BY <1>0, <3>1 DEF AcceptedShape
  <2>2. Len(Accepted) > 0
    BY <1>0, <2>1 DEF AcceptedShape
  <2> QED
    BY <2>2
<1>3. /\ Head(Accepted) = Accepted[1] /\ q \in Seq(Values) /\ Len(q) = Len(Accepted) - 1
      /\ \A i \in 1 .. Len(q) : q[i] = Accepted[i + 1]
  BY <1>0, <1>2, HeadTailProperties DEF AcceptedShape
<1> HIDE DEF q
<1>4. CASE buffer # <<>> /\ writerList = <<>>
  <2>1. Accepted = buffer /\ handed' = Append(handed, Head(buffer)) /\ buffer' = Tail(buffer)
    BY <1>0, <1>4, AcceptedIsBuffer DEF AcceptedAlone, ReadBuffer, ReadWriter
  <2>2. writerList' = <<>>
    BY <1>4 DEF ReadBuffer, ReadWriter
  <2>3. Accepted' = buffer'
    <3>1. AcceptedAlone'
      BY AcceptedIsBuffer, PTL
    <3> QED
      BY <2>2, <3>1 DEF AcceptedAlone
  <2> QED
    BY <1>2, <2>1, <2>3
<1>5. CASE buffer # <<>> /\ writerList # <<>>
  <2> DEFINE t == Tail(buffer)
             h == Head(writerList)
  <2>1. /\ handed' = Append(handed, Head(buffer))
        /\ buffer' = Append(t, Value(h)) /\ writerList' = Tail(writerList)
    BY <1>5 DEF ReadBuffer, ReadWriter
  <2>2. /\ t \in Seq(Values) /\ Len(t) = Len(buffer) - 1 /\ Head(buffer) = buffer[1]
        /\ \A i \in 1 .. Len(t) : t[i] = buffer[i + 1]
    BY <1>0, <1>5, HeadTailProperties
  <2>3. /\ h = writerList[1] /\ Len(writerList') = Len(writerList) - 1
        /\ \A i \in 1 .. Len(writerList') : writerList'[i] = writerList[i + 1]
    BY <1>0, <1>5, <2>1, HeadTailProperties
  <2>4. Len(buffer) > 0 /\ Len(writerList) > 0
    BY <1>0, <1>5, EmptySeq DEF AcceptedShape
  <2>5. Value(h) \in Values
    <3>1. Contains(writerList, h)
      BY <1>0, <2>3, <2>4 DEF Contains, AcceptedShape
    <3> QED
      BY <3>1, QueuedValue
  <2> HIDE DEF t, h
  <2>6. /\ Len(buffer') = Len(buffer) /\ buffer'[Len(buffer)] = Value(h)
        /\ \A i \in 1 .. Len(buffer) - 1 : buffer'[i] = buffer[i + 1]
    <3>1. /\ Len(buffer') = Len(t) + 1 /\ buffer'[Len(t) + 1] = Value(h)
          /\ \A i \in 1 .. Len(t) : buffer'[i] = t[i]
      BY <2>1, <2>2, <2>5, AppendProperties
    <3>2. Len(t) + 1 = Len(buffer)
      BY <1>0, <2>2 DEF AcceptedShape
    <3> QED
      BY <2>2, <3>1, <3>2
  <2>7. Len(q) = Len(buffer') + Len(writerList')
    BY <1>0, <1>3, <2>3, <2>6 DEF AcceptedShape
  <2>8. ASSUME NEW i \in 1 .. Len(buffer') PROVE q[i] = buffer'[i]
    <3>1. i \in 1 .. Len(q) /\ q[i] = Accepted[i + 1]
      BY <1>0, <1>3, <2>3, <2>4, <2>6 DEF AcceptedShape
    <3>2. CASE i = Len(buffer)
      <4>1. i + 1 = Len(buffer) + 1 /\ 1 \in 1 .. Len(writerList)
        BY <1>0, <2>4, <3>2 DEF AcceptedShape
      <4>2. Accepted[Len(buffer) + 1] = Value(h)
        BY <1>0, <2>3, <4>1 DEF AcceptedShape
      <4> QED
        BY <2>6, <3>1, <3>2, <4>1, <4>2
    <3>3. CASE i # Len(buffer)
      <4>1. i \in 1 .. Len(buffer) - 1 /\ i + 1 \in 1 .. Len(buffer)
        BY <1>0, <2>6, <3>3 DEF AcceptedShape
      <4> QED
        BY <1>0, <2>6, <3>1, <4>1 DEF AcceptedShape
    <3> QED
      BY <3>2, <3>3
  <2>9. ASSUME NEW i \in 1 .. Len(writerList')
        PROVE  q[Len(buffer') + i] = <<writerList'[i], wrote'[writerList'[i]]>>
    <3>1. /\ Len(buffer) + i \in 1 .. Len(q) /\ i + 1 \in 1 .. Len(writerList)
          /\ Len(buffer) + i + 1 = Len(buffer) + (i + 1)
      BY <1>0, <1>3, <2>3, <2>6, <2>7 DEF AcceptedShape
    <3>2. q[Len(buffer) + i] = Accepted[Len(buffer) + (i + 1)]
      BY <1>3, <3>1
    <3>3. Accepted[Len(buffer) + (i + 1)] = Value(writerList[i + 1])
      BY <1>0, <3>1 DEF AcceptedShape
    <3> QED
      BY <1>0, <2>3, <2>6, <3>2, <3>3 DEF Value
  <2>10. Accepted' = q
    BY <1>3, <2>7, <2>8, <2>9, AcceptedPrimeIs
  <2>11. Head(Accepted) = Head(buffer)
    <3>1. 1 \in 1 .. Len(buffer)
      BY <1>0, <2>4 DEF AcceptedShape
    <3> QED
      BY <1>0, <1>3, <2>2, <3>1 DEF AcceptedShape
  <2> QED
    BY <1>2, <2>1, <2>10, <2>11 DEF q
<1>6. CASE buffer = <<>> /\ writerList # <<>>
  <2> DEFINE h == Head(writerList)
  <2>1. /\ handed' = Append(handed, Value(h))
        /\ buffer' = buffer /\ writerList' = Tail(writerList)
    BY <1>6 DEF ReadBuffer, ReadWriter
  <2>2. /\ h = writerList[1] /\ Len(writerList') = Len(writerList) - 1
        /\ \A i \in 1 .. Len(writerList') : writerList'[i] = writerList[i + 1]
    BY <1>0, <1>6, <2>1, HeadTailProperties
  <2>3. Len(writerList) > 0 /\ Len(buffer) = 0
    BY <1>0, <1>6, EmptySeq DEF AcceptedShape
  <2> HIDE DEF h
  <2>4. /\ Len(q) = Len(buffer') + Len(writerList')
        /\ \A i \in 1 .. Len(buffer') : q[i] = buffer'[i]
    BY <1>0, <1>3, <2>1, <2>2, <2>3 DEF AcceptedShape
  <2>5. ASSUME NEW i \in 1 .. Len(writerList')
        PROVE  q[Len(buffer') + i] = <<writerList'[i], wrote'[writerList'[i]]>>
    <3>1. /\ Len(buffer') + i = i /\ i \in 1 .. Len(q) /\ i + 1 \in 1 .. Len(writerList)
          /\ Len(buffer) + (i + 1) = i + 1
      BY <1>0, <1>3, <2>1, <2>2, <2>3 DEF AcceptedShape
    <3>2. q[i] = Accepted[Len(buffer) + (i + 1)]
      BY <1>3, <3>1
    <3>3. Accepted[Len(buffer) + (i + 1)] = Value(writerList[i + 1])
      BY <1>0, <3>1 DEF AcceptedShape
    <3> QED
      BY <1>0, <2>2, <3>1, <3>2, <3>3 DEF Value
  <2>6. Accepted' = q
    BY <1>3, <2>4, <2>5, AcceptedPrimeIs
  <2>7. Head(Accepted) = Value(h)
    <3>1. 1 \in 1 .. Len(writerList) /\ Len(buffer) + 1 = 1
      BY <1>0, <2>3 DEF AcceptedShape
    <3> QED
      BY <1>0, <1>3, <2>2, <3>1 DEF AcceptedShape
  <2> QED
    BY <1>2, <2>1, <2>6, <2>7 DEF q
<1> QED
  BY <1>1, <1>4, <1>5, <1>6

\* A writer who goes away takes its value out of the queue, and only that.
LEMMA AbandonWriteRemoves ==
  ASSUME IInv, IInv', NEW w \in Writers, AbandonWrite(w)
  PROVE  /\ Value(w) \in Values /\ Contains(Accepted, Value(w))
         /\ Accepted' = RemoveFirst(Accepted, Value(w))
<1> DEFINE v == Value(w)
           q == RemoveFirst(Accepted, v)
<1>0. /\ AcceptedShape /\ wrote' = wrote /\ buffer' = buffer
      /\ writerList' = RemoveFirst(writerList, w)
      /\ buffer \in Seq(Values) /\ writerList \in Seq(Writers) /\ IsInjective(writerList)
      /\ Contains(writerList, w)
  BY ShapeOfAccepted DEF IInv, TypeOK, Accounted, AbandonWrite
<1>1. v \in Values /\ v \notin Buffered /\ \A u : u # w => Value(u) # v
  BY <1>0, QueuedValue
<1>2. PICK k \in 1 .. Len(writerList) : writerList[k] = w
  BY <1>0 DEF Contains
<1> DEFINE n == Len(buffer) + k
<1>3. \A i \in 1 .. k - 1 : writerList[i] # w
  <2>1. DOMAIN writerList = 1 .. Len(writerList) /\ Len(writerList) \in Nat
    BY <1>0, LenProperties
  <2> QED
    BY <1>0, <1>2, <2>1 DEF IsInjective
<1>4. /\ Len(writerList') = Len(writerList) - 1
      /\ \A i \in 1 .. Len(writerList) - 1 :
           writerList'[i] = IF i < k THEN writerList[i] ELSE writerList[i + 1]
  BY <1>0, <1>2, <1>3, RemoveFirstAt
<1> HIDE DEF v
<1>5. n \in 1 .. Len(Accepted) /\ Accepted[n] = v
  BY <1>0, <1>2 DEF AcceptedShape, v
<1>6. ASSUME NEW i \in 1 .. n - 1 PROVE Accepted[i] # v
  <2>1. CASE i \in 1 .. Len(buffer)
    <3>1. buffer[i] \in Buffered
      BY <1>0, <2>1, ToSetProperties DEF Buffered, Contains
    <3> QED
      BY <1>0, <1>1, <2>1, <3>1 DEF AcceptedShape
  <2>2. CASE i \notin 1 .. Len(buffer)
    <3>1. /\ i - Len(buffer) \in 1 .. k - 1 /\ i - Len(buffer) \in 1 .. Len(writerList)
          /\ Len(buffer) + (i - Len(buffer)) = i
      BY <1>0, <1>2, <2>2 DEF AcceptedShape
    <3>2. Accepted[i] = Value(writerList[i - Len(buffer)])
      BY <1>0, <3>1 DEF AcceptedShape
    <3> QED
      BY <1>1, <1>3, <3>1, <3>2
  <2> QED
    BY <2>1, <2>2
<1>7. /\ q \in Seq(Values) /\ Len(q) = Len(Accepted) - 1
      /\ \A i \in 1 .. Len(Accepted) - 1 :
           q[i] = IF i < n THEN Accepted[i] ELSE Accepted[i + 1]
  <2> HIDE DEF n
  <2> QED
    BY <1>0, <1>5, <1>6, RemoveFirstAt, ZenonT(60) DEF AcceptedShape
<1> HIDE DEF q
<1>8. Len(q) = Len(buffer') + Len(writerList')
  BY <1>0, <1>4, <1>7 DEF AcceptedShape
<1>9. ASSUME NEW i \in 1 .. Len(buffer') PROVE q[i] = buffer'[i]
  <2>1. i < n /\ i \in 1 .. Len(Accepted) - 1
    BY <1>0, <1>2 DEF AcceptedShape
  <2> QED
    BY <1>0, <1>7, <2>1 DEF AcceptedShape
<1>10. ASSUME NEW i \in 1 .. Len(writerList')
       PROVE  q[Len(buffer') + i] = <<writerList'[i], wrote'[writerList'[i]]>>
  <2>1. /\ i \in 1 .. Len(writerList) /\ i + 1 \in 1 .. Len(writerList)
        /\ i \in 1 .. Len(writerList) - 1
        /\ Len(buffer) + i \in 1 .. Len(Accepted) - 1
        /\ Len(buffer) + i + 1 = Len(buffer) + (i + 1)
    BY <1>0, <1>4 DEF AcceptedShape
  <2>2. CASE i < k
    <3>1. Len(buffer) + i < n
      BY <1>0, <1>2, <2>2 DEF AcceptedShape
    <3>2. q[Len(buffer) + i] = Value(writerList[i])
      BY <1>0, <1>7, <2>1, <3>1 DEF AcceptedShape
    <3> QED
      BY <1>0, <1>4, <2>1, <2>2, <3>2 DEF Value
  <2>3. CASE ~(i < k)
    <3>1. ~(Len(buffer) + i < n)
      BY <1>0, <1>2, <2>3 DEF AcceptedShape
    <3>2. q[Len(buffer) + i] = Value(writerList[i + 1])
      BY <1>0, <1>7, <2>1, <3>1 DEF AcceptedShape
    <3> QED
      BY <1>0, <1>4, <2>1, <2>3, <3>2 DEF Value
  <2> QED
    BY <2>2, <2>3
<1>11. Accepted' = q
  BY <1>7, <1>8, <1>9, <1>10, AcceptedPrimeIs
<1> QED
  BY <1>1, <1>5, <1>11 DEF Contains, q, v

LEMMA StepRefines == IInv /\ IInv' /\ [Next]_vars => [Fifo!Next]_(Fifo!chanVars)
<1> SUFFICES ASSUME IInv, IInv', [Next]_vars PROVE [Fifo!Next]_(Fifo!chanVars)
  OBVIOUS
<1> DEFINE stutter == UNCHANGED <<active, Accepted, handed>>
<1>0. AcceptedAlone /\ AcceptedAlone'
  BY AcceptedIsBuffer, PTL
<1>1. ASSUME UNCHANGED <<buffer, writerList, wrote>> PROVE Accepted' = Accepted
  BY <1>1 DEF Accepted, Value
<1>2. ASSUME NEW w \in Writers, WriteThrows(w) PROVE stutter
  <2>1. /\ UNCHANGED <<active, buffer, writerList, handed>> /\ BeginWrite(w)
        /\ AcceptedShape /\ writerList \in Seq(Writers)
    BY <1>2, ShapeOfAccepted DEF WriteThrows, IInv, TypeOK
  <2>2. \A i \in 1 .. Len(writerList) :
          Value(writerList[i]) = <<writerList'[i], wrote'[writerList'[i]]>>
    <3>1. \A i \in 1 .. Len(writerList) : writerList[i] \in Writers \ {w}
      BY <2>1, NextValue, ElementOfSeq DEF Contains
    <3> QED
      BY <2>1, <3>1, NextValue DEF Value
  <2>3. Accepted' = Accepted
    BY <2>1, <2>2, AcceptedPrimeIs DEF AcceptedShape
  <2> QED
    BY <2>1, <2>3
<1>3. ASSUME NEW w \in Writers, WriteToReader(w) PROVE Fifo!Pass(Value(w)')
  <2>1. readerList # <<>> /\ active /\ UNCHANGED <<active, buffer, writerList>>
    BY <1>3 DEF WriteToReader
  <2>2. Accepted = <<>> /\ Accepted' = <<>>
    BY <1>0, <2>1 DEF IInv, WaitsJustified, AcceptedAlone
  <2> QED
    BY <1>3, <2>1, <2>2 DEF WriteToReader, Fifo!Pass
<1>4. ASSUME NEW w \in Writers, WriteToBuffer(w) PROVE Fifo!Put(Value(w)')
  <2>1. Len(buffer) \in Nat /\ capacity \in Nat
    BY ChannelAssumption, LenProperties DEF IInv, TypeOK
  <2>2. writerList = <<>> /\ writerList' = <<>>
    BY <1>4, <2>1 DEF WriteToBuffer, IInv, WaitsJustified
  <2>3. Accepted = buffer /\ Accepted' = buffer'
    BY <1>0, <2>2 DEF AcceptedAlone
  <2> QED
    BY <1>4, <2>3 DEF WriteToBuffer, Fifo!Put
<1>5. ASSUME NEW w \in Writers, WriteWaits(w) PROVE Fifo!Put(Value(w)')
  <2>1. Accepted' = Append(Accepted, Value(w)')
    BY <1>5, WriteWaitsAppends
  <2> QED
    BY <1>5, <2>1 DEF WriteWaits, Fifo!Put
<1>6. ASSUME NEW w \in Writers, BeginWrite(w) PROVE Value(w)' \in Values
  BY <1>6, NextValue
<1>7. ASSUME NEW w \in Writers, AbandonWrite(w)
      PROVE  Value(w) \in Values /\ Fifo!Withdraw(Value(w))
  <2>1. /\ Value(w) \in Values /\ Contains(Accepted, Value(w))
        /\ Accepted' = RemoveFirst(Accepted, Value(w))
    BY <1>7, AbandonWriteRemoves
  <2>2. Fifo!RemoveFirst(Accepted, Value(w)) = RemoveFirst(Accepted, Value(w))
    BY DEF RemoveFirst, Fifo!RemoveFirst, RemoveAt, Fifo!RemoveAt,
           SelectInSeq, Fifo!SelectInSeq, Min, Fifo!Min
  <2> QED
    BY <1>7, <2>1, <2>2 DEF AbandonWrite, Fifo!Withdraw, Contains, Fifo!Contains
<1>8. ASSUME NEW r \in Readers, ReadBuffer(r) \/ ReadWriter(r) PROVE Fifo!Take
  <2>1. /\ Accepted # <<>> /\ handed' = Append(handed, Head(Accepted))
        /\ Accepted' = Tail(Accepted)
    BY <1>8, ReadTakesHead
  <2> QED
    BY <1>8, <2>1 DEF ReadBuffer, ReadWriter, BeginRead, Fifo!Take
<1>9. ASSUME NEW c \in Coros, \/ FinishWrite(c) \/ ReadWaits(c) \/ FinishRead(c)
                              \/ AbandonRead(c)
      PROVE  stutter
  BY <1>1, <1>9 DEF FinishWrite, ReadWaits, FinishRead, AbandonRead
<1>10. ASSUME NEW s \in resuming, Resume(s) PROVE stutter
  BY <1>1, <1>10 DEF Resume
<1>11. CASE Close
  BY <1>1, <1>11 DEF Close, Fifo!Shut, Fifo!Next
<1>12. CASE CweClose
  <2>1. Accepted' = Accepted /\ handed' = handed /\ active' = FALSE /\ active \in BOOLEAN
    BY <1>1, <1>12 DEF CweClose, CweGoto, IInv, TypeOK
  <2> QED
    BY <2>1 DEF Fifo!Shut, Fifo!Next, Fifo!chanVars
<1>13. CASE CleanUp
  <2>1. Accepted' = <<>>
    BY <1>0, <1>13 DEF CleanUp, AcceptedAlone
  <2> QED
    BY <1>13, <2>1 DEF CleanUp, Fifo!Discard, Fifo!Next
<1>14. CASE CweCall \/ CweFindsEmpty \/ CweGivesUp \/ UNCHANGED vars
  <2>1. stutter
    BY <1>1, <1>14 DEF CweCall, CweFindsEmpty, CweGivesUp, CweGoto, vars
  <2> QED
    BY <2>1 DEF Fifo!chanVars
<1>15. \A w \in Writers : WriteToReader(w) \/ WriteToBuffer(w) \/ WriteWaits(w) => BeginWrite(w)
  BY DEF WriteToReader, WriteToBuffer, WriteWaits
<1>16. ASSUME stutter PROVE UNCHANGED Fifo!chanVars
  BY <1>16 DEF Fifo!chanVars
<1> HIDE DEF stutter
<1>17. CASE \E w \in Writers :
              \/ WriteThrows(w) \/ WriteToReader(w) \/ WriteToBuffer(w) \/ WriteWaits(w)
              \/ FinishWrite(w) \/ AbandonWrite(w)
  BY <1>2, <1>3, <1>4, <1>5, <1>6, <1>7, <1>9, <1>15, <1>16, <1>17 DEF Fifo!Next, Coros
<1>18. CASE \E r \in Readers :
              \/ ReadBuffer(r) \/ ReadWriter(r) \/ ReadWaits(r)
              \/ FinishRead(r) \/ AbandonRead(r)
  BY <1>8, <1>9, <1>16, <1>18 DEF Fifo!Next, Coros
<1> QED
  BY <1>10, <1>11, <1>12, <1>13, <1>14, <1>16, <1>17, <1>18 DEF Next

\* Channel implements the first-in first-out channel of FifoChannel, whatever
\* its capacity: a value that finds the buffer full is not overtaken by those
\* that are written later, and a writer who goes away takes only its own along.
THEOREM ChannelRefinesFifoChannel == Spec => ImplementsFifoChannel
<1>1. Init => Fifo!Init
  <2> SUFFICES ASSUME Init PROVE Fifo!Init
    OBVIOUS
  <2>1. IInv
    BY InitEstablishes
  <2>2. Accepted = <<>>
    BY <2>1, AcceptedIsBuffer DEF AcceptedAlone, Init
  <2> QED
    BY <2>2 DEF Init, Fifo!Init
<1> QED
  BY <1>1, IInvariant, StepRefines, PTL DEF Spec, ImplementsFifoChannel, Fifo!Spec
==============================================================================
