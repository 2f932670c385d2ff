--------------------------- MODULE SsrLeases_proofs ----------------------------
(***************************************************************************)
(* The leases of a team are one per process, bounded in number and all in  *)
(* the ledger, for any deployments, nodes and limits and any number of     *)
(* handlers at work.                                                       *)
(* IInv adds to the properties what an acquisition holds: between its      *)
(* check and its commit, exactly the leases it is to replace are the       *)
(* unreleased ones of its process, and its deployment has room for one.    *)
(***************************************************************************)
EXTENDS SsrLeases, FiniteSetTheorems, SequenceTheorems, TLAPS

Acquiring(d) == acquiring[d] # Free

(* An acquisition holds every unreleased lease of its process.             *)
LockInv ==
    \A d \in Deployments :
        Acquiring(d) =>
            /\ acquiring[d].node \in Nodes
            /\ acquiring[d].replaced = {l \in Lease : l[1] = d /\ l[2] = acquiring[d].node /\ Held(l)}

(* A handler that still owes something has an event to write next.         *)
OwedInv == \A s \in owed : s # <<>>

(* What the limit counts, of the team and of one deployment.               *)
Counted == Live \ late
CountedOf(d) == {l \in Counted : l[1] = d}
Holders == {d \in Deployments : Acquiring(d)}

(* An acquisition that passed the check has its place, and so has every    *)
(* other deployment at most one.                                           *)
CountInv ==
    /\ \A d \in Deployments : Cardinality(CountedOf(d)) + (IF Acquiring(d) THEN 1 ELSE 0) <= ProcessLimit
    /\ Cardinality(Counted) + Cardinality(Holders) <= ProcessLimit - 1 + Cardinality(Deployments)

(* A renewal that found the hour over charges one there is room for.       *)
BlockInv == \A l \in Lease : renewing[l] = "next" => lease[l].block < MaxBlock

(* The conjunction that every step preserves.                              *)
IInv ==
    /\ TypeOK /\ OwedInv /\ BlockInv /\ LockInv /\ OneLeasePerProcess
    /\ CountInv /\ RefundIsLastHour /\ LeasesAccounted

-------------------------------------------------------------------------------
(* Leases, events and the handlers that owe them.                          *)

(* The identity of a lease is its process and its generation.              *)
LEMMA LeaseParts ==
    /\ \A d \in Deployments, n \in Nodes, g \in Generations :
          /\ <<d, n, g>> \in Lease
          /\ <<d, n, g>>[1] = d /\ <<d, n, g>>[2] = n
    /\ \A l \in Lease : l[1] \in Deployments /\ l[2] \in Nodes
  BY DEF Lease

(* The events of a lease are events.                                       *)
LEMMA EventTypes ==
    \A l \in Lease, b \in 0..MaxBlock :
        /\ ProcessEvent(l) \in Event /\ ProcessRelease(l) \in Event
        /\ HourEvent(l, b) \in Event /\ HourRelease(l, b) \in Event
  <1>1. 0 \in 0..MaxBlock
    BY SsrAssumption
  <1> QED BY <1>1 DEF ProcessEvent, ProcessRelease, HourEvent, HourRelease, Event

(* What a handler owes is its next event and the rest.                     *)
LEMMA NextEvent ==
    ASSUME NEW s \in Seq(Event), s # <<>>
    PROVE  /\ Head(s) \in Event /\ Head(s) \in ToSet(s)
           /\ Len(s) # 1 => Tail(s) \in Seq(Event) /\ Tail(s) # <<>>
           /\ \A e \in ToSet(s) : e = Head(s) \/ (Len(s) # 1 /\ e \in ToSet(Tail(s)))
           /\ Len(s) # 1 => ToSet(Tail(s)) \subseteq ToSet(s)
  <1>1. /\ Head(s) \in Event /\ Tail(s) \in Seq(Event)
        /\ Len(Tail(s)) = Len(s) - 1
        /\ \A i \in 1 .. Len(Tail(s)) : Tail(s)[i] = s[i + 1]
    BY HeadTailProperties
  <1>2. Head(s) = s[1] /\ Len(s) \in Nat \ {0} /\ DOMAIN s = 1 .. Len(s)
    BY EmptySeq
  <1>3. DOMAIN Tail(s) = 1 .. Len(Tail(s))
    BY <1>1
  <1>4. Head(s) \in ToSet(s)
    BY <1>2 DEF ToSet
  <1>5. Len(s) # 1 => Tail(s) # <<>>
    BY <1>1, <1>2
  <1>6. ASSUME NEW e \in ToSet(s)
        PROVE  e = Head(s) \/ (Len(s) # 1 /\ e \in ToSet(Tail(s)))
    <2>1. PICK i \in 1 .. Len(s) : e = s[i]
      BY <1>2 DEF ToSet
    <2>2. CASE i = 1
      BY <2>1, <2>2, <1>2
    <2>3. CASE i # 1
      <3>1. i - 1 \in 1 .. Len(Tail(s)) /\ (i - 1) + 1 = i /\ Len(s) # 1
        BY <2>3, <1>1, <1>2
      <3>2. e = Tail(s)[i - 1]
        BY <3>1, <2>1, <1>1
      <3> QED BY <3>1, <3>2, <1>3 DEF ToSet
    <2> QED BY <2>2, <2>3
  <1>7. ToSet(Tail(s)) \subseteq ToSet(s)
    <2> SUFFICES ASSUME NEW i \in 1 .. Len(Tail(s)) PROVE Tail(s)[i] \in ToSet(s)
      BY <1>3 DEF ToSet
    <2>1. i + 1 \in 1 .. Len(s) /\ Tail(s)[i] = s[i + 1]
      BY <1>1, <1>2
    <2> QED BY <2>1, <1>2 DEF ToSet
  <1> QED BY <1>1, <1>4, <1>5, <1>6, <1>7

(* What the handlers of a lease owe, in order.                             *)
LEMMA ShortSequences ==
    ASSUME NEW a \in Event, NEW b \in Event, NEW c \in Event
    PROVE  /\ <<a>> \in Seq(Event) /\ <<a, b>> \in Seq(Event) /\ <<a>> \o <<b, c>> \in Seq(Event)
           /\ <<a>> # <<>> /\ <<a, b>> # <<>> /\ <<a>> \o <<b, c>> # <<>>
           /\ ToSet(<<a>>) = {a} /\ ToSet(<<a, b>>) = {a, b}
           /\ ToSet(<<a>> \o <<b, c>>) = {a, b, c}
  <1> DEFINE t == <<b, c>>
             s == <<a>> \o t
  <1>1. /\ <<a>> \in Seq(Event) /\ t \in Seq(Event)
        /\ Len(<<a>>) = 1 /\ Len(t) = 2 /\ t[1] = b /\ t[2] = c
    OBVIOUS
  <1>2. s \in Seq(Event) /\ Len(s) = 3
    BY <1>1, ConcatProperties
  <1>3. s[1] = a /\ s[2] = b /\ s[3] = c
    <2> HIDE DEF t
    <2>1. \A i \in 1 .. 3 : s[i] = IF i <= 1 THEN <<a>>[i] ELSE t[i - 1]
      <3>1. \A i \in 1 .. Len(<<a>>) + Len(t) :
               s[i] = IF i <= Len(<<a>>) THEN <<a>>[i] ELSE t[i - Len(<<a>>)]
        BY <1>1, ConcatProperties
      <3>2. Len(<<a>>) = 1 /\ Len(t) = 2 /\ 1 + 2 = 3
        BY <1>1
      <3> HIDE DEF s
      <3> QED BY <3>1, <3>2
    <2>2. s[1] = <<a>>[1] /\ s[2] = t[1] /\ s[3] = t[2]
      <3> HIDE DEF s
      <3> QED BY <2>1
    <2>3. <<a>>[1] = a
      OBVIOUS
    <2> QED BY <2>2, <2>3, <1>1
  <1>4. s # <<>> /\ ToSet(s) = {a, b, c}
    <2> HIDE DEF s
    <2>1. DOMAIN s = 1 .. 3 /\ s # <<>>
      <3>1. DOMAIN s = 1 .. Len(s)
        BY <1>2, LenProperties
      <3>2. Len(<<>>) # 3
        OBVIOUS
      <3>3. s # <<>>
        BY <1>2, <3>2, Zenon
      <3> QED BY <1>2, <3>1, <3>3
    <2>2. ToSet(s) = {s[1], s[2], s[3]}
      <3>1. DOMAIN s = {1, 2, 3}
        BY <2>1
      <3> QED BY <3>1 DEF ToSet
    <2> QED BY <2>1, <2>2, <1>3
  <1>5. /\ <<a, b>> \in Seq(Event) /\ <<a>> # <<>> /\ <<a, b>> # <<>>
        /\ ToSet(<<a>>) = {a} /\ ToSet(<<a, b>>) = {a, b}
    BY DEF ToSet
  <1> QED BY <1>1, <1>2, <1>4, <1>5

(* What is written or owed stays so while handlers only get more to do.    *)
LEMMA AccountedGrows ==
    ASSUME owed \subseteq owed', events \subseteq events', lost \subseteq lost',
           NEW e, Accounted(e)
    PROVE  Accounted(e)'
  BY DEF Accounted

(* Events written and owed are events.                                     *)
LEMMA EventsTyped ==
    ASSUME TypeOK, NEW e \in events \cup UNION {ToSet(s) : s \in owed}
    PROVE  e \in Event
  <1>1. CASE e \in events
    BY <1>1 DEF TypeOK
  <1>2. CASE e \notin events
    <2>1. PICK s \in owed : e \in ToSet(s)
      BY <1>2
    <2>2. s \in Seq(Event)
      BY DEF TypeOK
    <2>3. PICK i \in DOMAIN s : e = s[i]
      BY <2>1 DEF ToSet
    <2> QED BY <2>2, <2>3, ElementOfSeq, LenProperties
  <1> QED BY <1>1, <1>2

(* The ledger stays right while no lease begins, ends or is charged.       *)
LEMMA LedgerKept ==
    ASSUME IInv, UNCHANGED <<owed, events, lost>>,
           \A l \in Lease :
               /\ lease'[l].block = lease[l].block
               /\ lease'[l].state = "absent" <=> lease[l].state = "absent"
               /\ lease'[l].state = "released" <=> lease[l].state = "released"
    PROVE  OwedInv' /\ RefundIsLastHour' /\ LeasesAccounted'
  <1>1. OwedInv'
    BY DEF IInv, OwedInv
  <1>2. RefundIsLastHour'
    <2> SUFFICES ASSUME NEW e \in events \cup UNION {ToSet(s) : s \in owed}, e.kind = "hour_release"
                 PROVE  lease'[e.lease].state = "released" /\ e.block = lease'[e.lease].block
      BY DEF RefundIsLastHour
    <2>1. e \in Event
      BY EventsTyped DEF IInv
    <2>2. e.lease \in Lease
      BY <2>1 DEF Event
    <2>3. lease[e.lease].state = "released" /\ e.block = lease[e.lease].block
      BY DEF IInv, RefundIsLastHour
    <2> QED BY <2>2, <2>3
  <1>3. LeasesAccounted'
    <2> SUFFICES ASSUME NEW l \in Lease
                 PROVE  /\ lease'[l].state # "absent" =>
                              /\ Accounted(ProcessEvent(l))'
                              /\ \A b \in 0..lease'[l].block : Accounted(HourEvent(l, b))'
                        /\ lease'[l].state = "released" => Accounted(ProcessRelease(l))'
      BY DEF LeasesAccounted
    <2>1. \A e : Accounted(e) => Accounted(e)'
      BY AccountedGrows
    <2>2. /\ lease[l].state # "absent" =>
               Accounted(ProcessEvent(l)) /\ \A b \in 0..lease[l].block : Accounted(HourEvent(l, b))
          /\ lease[l].state = "released" => Accounted(ProcessRelease(l))
      BY DEF IInv, LeasesAccounted
    <2> QED BY <2>1, <2>2
  <1> QED BY <1>1, <1>2, <1>3

(* The ledger stays right when a handler comes to owe what a lease that    *)
(* begins, is charged or ends makes it owe.                                *)
LEMMA LedgerOwes ==
    ASSUME IInv, NEW s \in Seq(Event), s # <<>>,
           owed' = owed \cup {s}, UNCHANGED <<events, lost>>, lease' \in [Lease -> Row],
           \A e \in ToSet(s) :
               e.kind = "hour_release" =>
                   lease'[e.lease].state = "released" /\ e.block = lease'[e.lease].block,
           \A m \in Lease :
               /\ lease[m].state = "released" => lease'[m] = lease[m]
               /\ lease[m].state = "absent" =>
                     \/ lease'[m].state = "absent"
                     \/ /\ lease'[m].state = "live" /\ lease'[m].block = 0
                        /\ ProcessEvent(m) \in ToSet(s) /\ HourEvent(m, 0) \in ToSet(s)
               /\ lease[m].state # "absent" =>
                     \/ lease'[m].block = lease[m].block
                     \/ lease'[m].block = lease[m].block + 1 /\ HourEvent(m, lease[m].block + 1) \in ToSet(s)
               /\ lease[m].state # "released" /\ lease'[m].state = "released" =>
                     ProcessRelease(m) \in ToSet(s)
    PROVE  OwedInv' /\ RefundIsLastHour' /\ LeasesAccounted'
  <1>1. OwedInv'
    BY DEF IInv, OwedInv
  <1>2. RefundIsLastHour'
    <2> SUFFICES ASSUME NEW e \in events \cup UNION {ToSet(t) : t \in owed'}, e.kind = "hour_release"
                 PROVE  lease'[e.lease].state = "released" /\ e.block = lease'[e.lease].block
      BY DEF RefundIsLastHour
    <2>1. CASE e \in ToSet(s)
      BY <2>1
    <2>2. CASE e \in events \cup UNION {ToSet(t) : t \in owed}
      <3>1. e.lease \in Lease
        BY <2>2, EventsTyped DEF IInv, Event
      <3>2. lease[e.lease].state = "released" /\ e.block = lease[e.lease].block
        BY <2>2 DEF IInv, RefundIsLastHour
      <3> QED BY <3>1, <3>2
    <2> QED BY <2>1, <2>2
  <1>3. \A e : Accounted(e) \/ e \in ToSet(s) => Accounted(e)'
    <2>1. \A e : Accounted(e) => Accounted(e)'
      BY AccountedGrows
    <2>2. \A e \in ToSet(s) : Accounted(e)'
      BY DEF Accounted
    <2> QED BY <2>1, <2>2
  <1>4. LeasesAccounted'
    <2> SUFFICES ASSUME NEW m \in Lease
                 PROVE  /\ lease'[m].state # "absent" =>
                              /\ Accounted(ProcessEvent(m))'
                              /\ \A b \in 0..lease'[m].block : Accounted(HourEvent(m, b))'
                        /\ lease'[m].state = "released" => Accounted(ProcessRelease(m))'
      BY DEF LeasesAccounted
    <2>1. /\ lease[m].state # "absent" =>
               Accounted(ProcessEvent(m)) /\ \A b \in 0..lease[m].block : Accounted(HourEvent(m, b))
          /\ lease[m].state = "released" => Accounted(ProcessRelease(m))
      BY DEF IInv, LeasesAccounted
    <2>2. lease[m].block \in Nat /\ lease'[m].block \in Nat
      BY SsrAssumption DEF IInv, TypeOK, Row
    <2>3. CASE lease[m].state = "absent"
      <3>1. CASE lease'[m].state = "absent"
        BY <3>1
      <3>2. CASE lease'[m].state # "absent"
        <4>1. /\ lease'[m].state = "live" /\ lease'[m].block = 0
              /\ ProcessEvent(m) \in ToSet(s) /\ HourEvent(m, 0) \in ToSet(s)
          BY <2>3, <3>2
        <4>2. Accounted(ProcessEvent(m))' /\ Accounted(HourEvent(m, 0))'
          BY <4>1, <1>3
        <4>3. \A b \in 0..lease'[m].block : b = 0
          BY <4>1
        <4> QED BY <4>1, <4>2, <4>3
      <3> QED BY <3>1, <3>2
    <2>4. CASE lease[m].state # "absent"
      <3>1. Accounted(ProcessEvent(m))' /\ \A b \in 0..lease[m].block : Accounted(HourEvent(m, b))'
        BY <2>1, <2>4, <1>3
      <3>2. ASSUME NEW b \in 0..lease'[m].block PROVE Accounted(HourEvent(m, b))'
        <4>1. CASE b \in 0..lease[m].block
          BY <4>1, <3>1
        <4>2. CASE b \notin 0..lease[m].block
          <5>1. b = lease[m].block + 1 /\ HourEvent(m, lease[m].block + 1) \in ToSet(s)
            BY <4>2, <2>2, <2>4
          <5> QED BY <5>1, <1>3
        <4> QED BY <4>1, <4>2
      <3>3. lease'[m].state = "released" => Accounted(ProcessRelease(m))'
        BY <2>1, <1>3
      <3> QED BY <3>1, <3>2, <3>3
    <2> QED BY <2>3, <2>4
  <1> QED BY <1>1, <1>2, <1>4

(* A process has one lease while none begins.                              *)
LEMMA OneLeaseKept ==
    ASSUME IInv, \A l \in Lease : Held(l)' => Held(l)
    PROVE  OneLeasePerProcess'
  BY DEF IInv, OneLeasePerProcess, SameProcess

(* Acquisitions hold what they are to replace while no lease begins and    *)
(* none that they hold ends.                                               *)
LEMMA LockKept ==
    ASSUME IInv, acquiring' = acquiring,
           \A l \in Lease : /\ Held(l)' => Held(l)
                            /\ Held(l) /\ Locked(l) => Held(l)'
    PROVE  LockInv'
  <1> SUFFICES ASSUME NEW d \in Deployments, Acquiring(d)
               PROVE  /\ acquiring[d].node \in Nodes
                      /\ acquiring[d].replaced =
                            {l \in Lease : l[1] = d /\ l[2] = acquiring[d].node /\ Held(l)'}
    BY DEF LockInv, Acquiring, Free
  <1>1. /\ acquiring[d].node \in Nodes
        /\ acquiring[d].replaced = {l \in Lease : l[1] = d /\ l[2] = acquiring[d].node /\ Held(l)}
    BY DEF IInv, LockInv
  <1>2. \A l \in acquiring[d].replaced : Locked(l)
    BY DEF Locked
  <1> QED BY <1>1, <1>2

-------------------------------------------------------------------------------
(* Counting leases and acquisitions.                                       *)

(* There are finitely many leases.                                         *)
LEMMA FiniteLeases == IsFiniteSet(Lease)
  <1> DEFINE f == [p \in (Deployments \X Nodes) \X Generations |-> <<p[1][1], p[1][2], p[2]>>]
  <1>1. IsFiniteSet((Deployments \X Nodes) \X Generations)
    BY FS_Product, SsrAssumption
  <1>2. f \in [(Deployments \X Nodes) \X Generations -> Lease]
    BY DEF Lease
  <1>3. ASSUME NEW l \in Lease
        PROVE  \E p \in (Deployments \X Nodes) \X Generations : f[p] = l
    <2>1. PICK d \in Deployments, n \in Nodes, g \in Generations : l = <<d, n, g>>
      BY DEF Lease
    <2>2. <<<<d, n>>, g>> \in (Deployments \X Nodes) \X Generations
      OBVIOUS
    <2>3. f[<<<<d, n>>, g>>] = <<d, n, g>>
      BY <2>2
    <2> QED BY <2>1, <2>2, <2>3
  <1>4. f \in Surjection((Deployments \X Nodes) \X Generations, Lease)
    BY <1>2, <1>3 DEF Surjection
  <1> QED BY <1>1, <1>4, FS_Surjection

(* Numbers of leases and of acquisitions are natural and grow with their   *)
(* sets.                                                                   *)
LEMMA Counts ==
    /\ \A S \in SUBSET Lease :
          /\ IsFiniteSet(S) /\ Cardinality(S) \in Nat
          /\ \A T \in SUBSET S : Cardinality(T) <= Cardinality(S)
          /\ \A l : Cardinality(S \cup {l}) <= Cardinality(S) + 1
    /\ Cardinality(Deployments) \in Nat
    /\ \A S \in SUBSET Deployments :
          /\ IsFiniteSet(S) /\ Cardinality(S) \in Nat /\ Cardinality(S) <= Cardinality(Deployments)
          /\ \A T \in SUBSET S : Cardinality(T) <= Cardinality(S)
          /\ \A d \in S : Cardinality(S \ {d}) = Cardinality(S) - 1
  <1>1. ASSUME NEW S \in SUBSET Lease
        PROVE  /\ IsFiniteSet(S) /\ Cardinality(S) \in Nat
               /\ \A T \in SUBSET S : Cardinality(T) <= Cardinality(S)
               /\ \A l : Cardinality(S \cup {l}) <= Cardinality(S) + 1
    <2>1. IsFiniteSet(S) /\ Cardinality(S) \in Nat
      BY FiniteLeases, FS_Subset, FS_CardinalityType
    <2>2. \A T \in SUBSET S : Cardinality(T) <= Cardinality(S)
      BY <2>1, FS_Subset
    <2>3. ASSUME NEW l PROVE Cardinality(S \cup {l}) <= Cardinality(S) + 1
      <3>1. Cardinality(S \cup {l}) = IF l \in S THEN Cardinality(S) ELSE Cardinality(S) + 1
        BY <2>1, FS_AddElement
      <3> QED BY <3>1, <2>1
    <2> QED BY <2>1, <2>2, <2>3
  <1>2. IsFiniteSet(Deployments) /\ Cardinality(Deployments) \in Nat
    BY SsrAssumption, FS_CardinalityType
  <1>3. ASSUME NEW S \in SUBSET Deployments
        PROVE  /\ IsFiniteSet(S) /\ Cardinality(S) \in Nat /\ Cardinality(S) <= Cardinality(Deployments)
               /\ \A T \in SUBSET S : Cardinality(T) <= Cardinality(S)
               /\ \A d \in S : Cardinality(S \ {d}) = Cardinality(S) - 1
    <2>1. IsFiniteSet(S) /\ Cardinality(S) <= Cardinality(Deployments)
      BY <1>2, FS_Subset
    <2>2. Cardinality(S) \in Nat
      BY <2>1, FS_CardinalityType
    <2>3. \A T \in SUBSET S : Cardinality(T) <= Cardinality(S)
      BY <2>1, FS_Subset
    <2>4. \A d \in S : Cardinality(S \ {d}) = Cardinality(S) - 1
      BY <2>1, FS_RemoveElement
    <2> QED BY <2>1, <2>2, <2>3, <2>4
  <1> QED BY <1>1, <1>2, <1>3

(* The sets that are counted.                                              *)
LEMMA CountedSets ==
    /\ Live \subseteq Lease /\ Counted \subseteq Live
    /\ \A d : CountedOf(d) \subseteq Counted
    /\ Holders \subseteq Deployments
  BY DEF Live, Counted, CountedOf, Holders

(* The bounds hold while nothing more is counted.                          *)
LEMMA CountKept ==
    ASSUME IInv, Counted' \subseteq Counted, \A d \in Deployments : Acquiring(d)' => Acquiring(d)
    PROVE  CountInv'
  <1>1. \A d \in Deployments : CountedOf(d)' \subseteq CountedOf(d)
    BY DEF CountedOf
  <1>2. Holders' \subseteq Holders
    BY DEF Holders
  <1>3. ASSUME NEW d \in Deployments
        PROVE  Cardinality(CountedOf(d)') + (IF Acquiring(d)' THEN 1 ELSE 0) <= ProcessLimit
    <2>1. /\ Cardinality(CountedOf(d)) \in Nat /\ Cardinality(CountedOf(d)') \in Nat
          /\ Cardinality(CountedOf(d)') <= Cardinality(CountedOf(d))
      <3>1. CountedOf(d) \in SUBSET Lease /\ CountedOf(d)' \in SUBSET CountedOf(d)
        BY <1>1, CountedSets
      <3> QED BY <3>1, Counts
    <2>2. Cardinality(CountedOf(d)) + (IF Acquiring(d) THEN 1 ELSE 0) <= ProcessLimit
      BY DEF IInv, CountInv
    <2> QED BY <2>1, <2>2, SsrAssumption
  <1>4. Cardinality(Counted') + Cardinality(Holders') <= ProcessLimit - 1 + Cardinality(Deployments)
    <2>1. /\ Cardinality(Counted) \in Nat /\ Cardinality(Counted') \in Nat
          /\ Cardinality(Counted') <= Cardinality(Counted)
      <3>1. Counted \in SUBSET Lease /\ Counted' \in SUBSET Counted
        BY CountedSets
      <3> QED BY <3>1, Counts
    <2>2. /\ Cardinality(Holders) \in Nat /\ Cardinality(Holders') \in Nat
          /\ Cardinality(Holders') <= Cardinality(Holders)
      <3>1. Holders \in SUBSET Deployments /\ Holders' \in SUBSET Holders
        BY <1>2, CountedSets
      <3> QED BY <3>1, Counts
    <2>3. Cardinality(Counted) + Cardinality(Holders) <= ProcessLimit - 1 + Cardinality(Deployments)
      BY DEF IInv, CountInv
    <2> QED BY <2>1, <2>2, <2>3, Counts, SsrAssumption
  <1> QED BY <1>3, <1>4 DEF CountInv

-------------------------------------------------------------------------------
(* Steps that neither begin, end nor charge a lease.                       *)

(* The locks, the limit and the ledger, when leases stay held or not.      *)
LEMMA QuietStep ==
    ASSUME IInv, TypeOK', BlockInv', UNCHANGED <<acquiring, owed, events, lost>>,
           \A l \in Lease :
               /\ lease'[l].block = lease[l].block
               /\ lease'[l].state = "absent" <=> lease[l].state = "absent"
               /\ lease'[l].state = "released" <=> lease[l].state = "released",
           Counted' \subseteq Counted
    PROVE  IInv'
  <1>1. \A l \in Lease : Held(l)' <=> Held(l)
    BY DEF IInv, TypeOK, Row, Held
  <1>2. OwedInv' /\ RefundIsLastHour' /\ LeasesAccounted'
    BY LedgerKept
  <1>3. LockInv' /\ OneLeasePerProcess'
    BY <1>1, LockKept, OneLeaseKept
  <1>4. CountInv'
    BY CountKept DEF Acquiring, Free
  <1> QED BY <1>2, <1>3, <1>4 DEF IInv

(* A renewal that begins, or is given up, and the listing of the sweep.    *)
LEMMA ClientInv ==
    ASSUME IInv,
           \/ \E l \in Lease : RenewRefused(l) \/ \E block \in {"same", "next"} : RenewBegin(l, block)
           \/ SweepList
           \/ UNCHANGED vars
    PROVE  IInv'
  <1>1. UNCHANGED <<lease, acquiring, owed, events, lost, late>>
    BY DEF RenewRefused, RenewBegin, SweepList, vars
  <1>2. TypeOK'
    <2>1. renewing' \in [Lease -> {"none", "same", "next"}] /\ sweeping' \subseteq Lease
      BY DEF IInv, TypeOK, RenewRefused, RenewBegin, SweepList, vars
    <2> QED BY <1>1, <2>1 DEF IInv, TypeOK
  <1>3. Counted' = Counted
    BY <1>1 DEF Counted, Live
  <1>4. BlockInv'
    BY DEF IInv, TypeOK, BlockInv, RenewRefused, RenewBegin, SweepList, vars
  <1> QED BY <1>1, <1>2, <1>3, <1>4, QuietStep

(* An expired lease is still held, and no longer counted.                  *)
LEMMA ExpireInv ==
    ASSUME IInv, NEW l \in Lease, Expire(l)
    PROVE  IInv'
  <1>1. lease \in [Lease -> Row] /\ lease[l] \in Row /\ lease[l].state = "live"
    BY DEF IInv, TypeOK, Expire, Live
  <1>2. [lease[l] EXCEPT !.state = "expired"] \in Row
    BY <1>1 DEF Row
  <1>3. lease' = [lease EXCEPT ![l] = [lease[l] EXCEPT !.state = "expired"]]
    BY DEF Expire
  <1>4. TypeOK'
    BY <1>1, <1>2, <1>3 DEF IInv, TypeOK, Expire
  <1>5. \A m \in Lease :
           /\ lease'[m].block = lease[m].block
           /\ m # l => lease'[m] = lease[m]
           /\ lease'[l].state = "expired"
    BY <1>1, <1>3 DEF Row
  <1>6. Counted' \subseteq Counted
    BY <1>5 DEF Counted, Live, Expire
  <1>7. BlockInv'
    BY <1>5 DEF IInv, BlockInv, Expire
  <1> QED BY <1>1, <1>4, <1>5, <1>6, <1>7, QuietStep DEF Expire

(* Rolled back: the rows locked are free again, all is as before.          *)
LEMMA AcquireAbortInv ==
    ASSUME IInv, NEW d \in Deployments, AcquireAbort(d)
    PROVE  IInv'
  <1>1. \A e \in Deployments : acquiring'[e] = IF e = d THEN Free ELSE acquiring[e]
    BY DEF IInv, TypeOK, AcquireAbort
  <1>2. TypeOK'
    BY DEF IInv, TypeOK, AcquireAbort, Free
  <1>3. OwedInv' /\ RefundIsLastHour' /\ LeasesAccounted'
    BY LedgerKept DEF AcquireAbort
  <1>4. OneLeasePerProcess'
    BY OneLeaseKept DEF AcquireAbort, Held
  <1>5. LockInv'
    BY <1>1 DEF IInv, LockInv, Acquiring, AcquireAbort, Held, Free
  <1>6. CountInv'
    <2>1. Counted' = Counted
      BY DEF AcquireAbort, Counted, Live
    <2>2. \A e \in Deployments : Acquiring(e)' => Acquiring(e)
      BY <1>1 DEF Acquiring, Free
    <2> QED BY <2>1, <2>2, CountKept
  <1>7. BlockInv'
    BY DEF IInv, BlockInv, AcquireAbort
  <1> QED BY <1>2, <1>3, <1>4, <1>5, <1>6, <1>7 DEF IInv

(* The check of an acquisition locks what it will replace, and finds a     *)
(* place under the limit.                                                  *)
LEMMA AcquireCheckInv ==
    ASSUME IInv, NEW d \in Deployments, NEW n \in Nodes, AcquireCheck(d, n)
    PROVE  IInv'
  <1> DEFINE held == {l \in Lease : l[1] = d /\ l[2] = n /\ Held(l)}
  <1>1. /\ acquiring[d] = Free /\ Cardinality(Live) < ProcessLimit
        /\ acquiring' = [acquiring EXCEPT ![d] = [node |-> n, replaced |-> held]]
        /\ UNCHANGED <<lease, renewing, sweeping, owed, events, lost, late>>
    BY DEF AcquireCheck
  <1>2. \A e \in Deployments :
           acquiring'[e] = IF e = d THEN [node |-> n, replaced |-> held] ELSE acquiring[e]
    BY <1>1 DEF IInv, TypeOK
  <1>3. TypeOK'
    BY <1>1 DEF IInv, TypeOK
  <1>4. OwedInv' /\ RefundIsLastHour' /\ LeasesAccounted'
    BY <1>1, LedgerKept
  <1>5. OneLeasePerProcess'
    BY <1>1, OneLeaseKept DEF Held
  <1>6. LockInv'
    <2>1. \A l \in Lease : Held(l)' <=> Held(l)
      BY <1>1 DEF Held
    <2> SUFFICES ASSUME NEW e \in Deployments, Acquiring(e)'
                 PROVE  /\ acquiring'[e].node \in Nodes
                        /\ acquiring'[e].replaced =
                              {l \in Lease : l[1] = e /\ l[2] = acquiring'[e].node /\ Held(l)}
      BY <2>1 DEF LockInv
    <2>2. CASE e = d
      <3>1. acquiring'[e].node = n /\ acquiring'[e].replaced = held
        <4> HIDE DEF held
        <4> QED BY <2>2, <1>2
      <3> QED BY <2>2, <3>1
    <2>3. CASE e # d
      <3>1. acquiring'[e] = acquiring[e] /\ Acquiring(e)
        BY <2>3, <1>2 DEF Acquiring, Free
      <3>2. /\ acquiring[e].node \in Nodes
            /\ acquiring[e].replaced = {l \in Lease : l[1] = e /\ l[2] = acquiring[e].node /\ Held(l)}
        BY <3>1 DEF IInv, LockInv
      <3> QED BY <3>1, <3>2
    <2> QED BY <2>2, <2>3
  <1>7. CountInv'
    <2>1. Counted' = Counted /\ \A e \in Deployments : CountedOf(e)' = CountedOf(e)
      BY <1>1 DEF Counted, CountedOf, Live
    <2>2. \A e \in Deployments : e # d => (Acquiring(e)' <=> Acquiring(e))
      BY <1>2 DEF Acquiring, Free
    <2>3. Cardinality(Counted) \in Nat /\ Cardinality(Counted) < ProcessLimit
      <3>1. Live \in SUBSET Lease /\ Counted \in SUBSET Live /\ Counted \in SUBSET Lease
        BY CountedSets
      <3>2. Cardinality(Counted) <= Cardinality(Live) /\ Cardinality(Counted) \in Nat /\ Cardinality(Live) \in Nat
        BY <3>1, Counts
      <3> QED BY <3>2, <1>1, SsrAssumption
    <2>4. ASSUME NEW e \in Deployments
          PROVE  Cardinality(CountedOf(e)') + (IF Acquiring(e)' THEN 1 ELSE 0) <= ProcessLimit
      <3>1. CASE e = d
        <4>1. CountedOf(d) \in SUBSET Counted /\ Counted \in SUBSET Lease /\ CountedOf(d) \in SUBSET Lease
          BY CountedSets
        <4>2. Cardinality(CountedOf(d)) <= Cardinality(Counted) /\ Cardinality(CountedOf(d)) \in Nat
          BY <4>1, Counts
        <4>3. Cardinality(CountedOf(d)') = Cardinality(CountedOf(d))
          BY <2>1
        <4> QED BY <3>1, <4>2, <4>3, <2>3, SsrAssumption
      <3>2. CASE e # d
        <4>1. Cardinality(CountedOf(e)') = Cardinality(CountedOf(e))
          BY <2>1
        <4>2. Acquiring(e)' <=> Acquiring(e)
          BY <3>2, <2>2
        <4>3. Cardinality(CountedOf(e)) + (IF Acquiring(e) THEN 1 ELSE 0) <= ProcessLimit
          BY DEF IInv, CountInv
        <4> QED BY <4>1, <4>2, <4>3
      <3> QED BY <3>1, <3>2
    <2>5. Cardinality(Counted') + Cardinality(Holders') <= ProcessLimit - 1 + Cardinality(Deployments)
      <3>1. Holders' \in SUBSET Deployments
        BY DEF Holders
      <3>2. Cardinality(Holders') \in Nat /\ Cardinality(Holders') <= Cardinality(Deployments)
        BY <3>1, Counts
      <3>3. Cardinality(Counted') = Cardinality(Counted)
        BY <2>1
      <3> QED BY <3>2, <3>3, <2>3, Counts, SsrAssumption
    <2> QED BY <2>4, <2>5 DEF CountInv
  <1>8. BlockInv'
    BY <1>1 DEF IInv, BlockInv
  <1> QED BY <1>3, <1>4, <1>5, <1>6, <1>7, <1>8 DEF IInv

-------------------------------------------------------------------------------
(* The commit of an acquisition.                                           *)

(* The new lease replaces the only unreleased one of its process.          *)
LEMMA NewLeaseFacts ==
    ASSUME IInv, NEW d \in Deployments, NEW g \in Generations, NewLease(d, g),
           NEW new, new = <<d, acquiring[d].node, g>>
    PROVE  /\ Acquiring(d) /\ acquiring[d].node \in Nodes
           /\ new \in Lease /\ new[1] = d /\ new[2] = acquiring[d].node
           /\ lease[new].state = "absent" /\ new \notin acquiring[d].replaced
           /\ acquiring[d].replaced = {l \in Lease : l[1] = d /\ l[2] = acquiring[d].node /\ Held(l)}
           /\ \A l, m \in acquiring[d].replaced : l = m
           /\ lease' \in [Lease -> Row]
           /\ \A m \in Lease :
                 /\ m = new => lease'[m].state = "live" /\ lease'[m].block = 0
                 /\ m \in acquiring[d].replaced => lease'[m].state = "released" /\ lease'[m].block = lease[m].block
                 /\ m # new /\ m \notin acquiring[d].replaced => lease'[m] = lease[m]
  <1>1. /\ Acquiring(d) /\ IsNext(new)
        /\ lease' = [l \in Lease |->
               IF l = new THEN [state |-> "live", block |-> 0]
               ELSE IF l \in acquiring[d].replaced THEN [lease[l] EXCEPT !.state = "released"]
               ELSE lease[l]]
    BY DEF NewLease, Acquiring
  <1>2. /\ acquiring[d].node \in Nodes
        /\ acquiring[d].replaced = {l \in Lease : l[1] = d /\ l[2] = acquiring[d].node /\ Held(l)}
    BY <1>1 DEF IInv, LockInv
  <1>3. new \in Lease /\ new[1] = d /\ new[2] = acquiring[d].node
    BY <1>2, LeaseParts
  <1>4. lease[new].state = "absent"
    BY <1>1 DEF IsNext
  <1>5. new \notin acquiring[d].replaced
    BY <1>2, <1>4 DEF Held
  <1>6. \A l, m \in acquiring[d].replaced : l = m
    BY <1>2 DEF IInv, OneLeasePerProcess, SameProcess
  <1>7. 0 \in 0..MaxBlock
    BY SsrAssumption
  <1>8. lease \in [Lease -> Row]
    BY DEF IInv, TypeOK
  <1>9. [state |-> "live", block |-> 0] \in Row
    BY <1>7 DEF Row
  <1>10. \A m \in Lease : /\ [lease[m] EXCEPT !.state = "released"] \in Row
                          /\ [lease[m] EXCEPT !.state = "released"].state = "released"
                          /\ [lease[m] EXCEPT !.state = "released"].block = lease[m].block
    BY <1>8 DEF Row
  <1>11. lease' \in [Lease -> Row]
    BY <1>1, <1>8, <1>9, <1>10
  <1>12. ASSUME NEW m \in Lease
         PROVE  /\ m = new => lease'[m].state = "live" /\ lease'[m].block = 0
                /\ m \in acquiring[d].replaced =>
                      lease'[m].state = "released" /\ lease'[m].block = lease[m].block
                /\ m # new /\ m \notin acquiring[d].replaced => lease'[m] = lease[m]
    <2>1. m = new => lease'[m] = [state |-> "live", block |-> 0]
      BY <1>1
    <2>2. m \in acquiring[d].replaced => lease'[m] = [lease[m] EXCEPT !.state = "released"]
      BY <1>1, <1>5
    <2>3. m # new /\ m \notin acquiring[d].replaced => lease'[m] = lease[m]
      BY <1>1
    <2>4. m = new => lease'[m].state = "live" /\ lease'[m].block = 0
      BY <2>1
    <2>5. m \in acquiring[d].replaced =>
             lease'[m].state = "released" /\ lease'[m].block = lease[m].block
      BY <2>2, <1>10, Zenon
    <2> QED BY <2>3, <2>4, <2>5
  <1> QED BY <1>1, <1>2, <1>3, <1>4, <1>5, <1>6, <1>11, <1>12

(* The process keeps to one lease, and its lock is given back.             *)
LEMMA NewLeaseLocks ==
    ASSUME IInv, NEW d \in Deployments, NEW g \in Generations, NewLease(d, g)
    PROVE  LockInv' /\ OneLeasePerProcess' /\ BlockInv'
  <1> DEFINE new == <<d, acquiring[d].node, g>>
             replaced == acquiring[d].replaced
  <1> HIDE DEF new
  <1>1. /\ Acquiring(d) /\ acquiring[d].node \in Nodes
        /\ new \in Lease /\ new[1] = d /\ new[2] = acquiring[d].node
        /\ lease[new].state = "absent" /\ new \notin replaced
        /\ replaced = {l \in Lease : l[1] = d /\ l[2] = acquiring[d].node /\ Held(l)}
        /\ \A m \in Lease :
              /\ m = new => lease'[m].state = "live" /\ lease'[m].block = 0
              /\ m \in replaced => lease'[m].state = "released" /\ lease'[m].block = lease[m].block
              /\ m # new /\ m \notin replaced => lease'[m] = lease[m]
    BY NewLeaseFacts DEF new
  <1>2. \A m \in Lease : Held(m)' <=> m = new \/ (m \notin replaced /\ Held(m))
    BY <1>1 DEF Held
  <1>3. OneLeasePerProcess'
    <2> SUFFICES ASSUME NEW l \in Lease, NEW m \in Lease, Held(l)', Held(m)', SameProcess(l, m)
                 PROVE  l = m
      BY DEF OneLeasePerProcess, SameProcess
    <2>1. \A k \in Lease : k[1] = d /\ k[2] = acquiring[d].node /\ Held(k)' => k = new
      BY <1>1, <1>2
    <2>2. l = new <=> m = new
      BY <2>1, <1>1 DEF SameProcess
    <2> QED BY <2>2, <1>2 DEF IInv, OneLeasePerProcess
  <1>4. \A e \in Deployments : acquiring'[e] = IF e = d THEN Free ELSE acquiring[e]
    BY DEF IInv, TypeOK, NewLease
  <1>5. LockInv'
    <2> SUFFICES ASSUME NEW e \in Deployments, Acquiring(e)'
                 PROVE  /\ acquiring'[e].node \in Nodes
                        /\ acquiring'[e].replaced =
                              {l \in Lease : l[1] = e /\ l[2] = acquiring'[e].node /\ Held(l)'}
      BY DEF LockInv
    <2>1. e # d /\ acquiring'[e] = acquiring[e] /\ Acquiring(e)
      BY <1>4 DEF Acquiring, Free
    <2>2. /\ acquiring[e].node \in Nodes
          /\ acquiring[e].replaced = {l \in Lease : l[1] = e /\ l[2] = acquiring[e].node /\ Held(l)}
      BY <2>1 DEF IInv, LockInv
    <2>3. \A l \in Lease : l[1] = e => (Held(l)' <=> Held(l))
      BY <2>1, <1>1, <1>2
    <2> QED BY <2>1, <2>2, <2>3
  <1>6. BlockInv'
    <2> SUFFICES ASSUME NEW l \in Lease, renewing[l] = "next" PROVE lease'[l].block < MaxBlock
      BY DEF BlockInv, NewLease
    <2>1. lease[l].block < MaxBlock /\ lease[l].block \in Nat
      BY SsrAssumption DEF IInv, BlockInv, TypeOK, Row
    <2> QED BY <2>1, <1>1, SsrAssumption
  <1> QED BY <1>3, <1>5, <1>6

(* The place the acquisition had under the limits becomes a lease.         *)
LEMMA NewLeaseCounts ==
    ASSUME IInv, NEW d \in Deployments, NEW g \in Generations, NewLease(d, g)
    PROVE  CountInv'
  <1> DEFINE new == <<d, acquiring[d].node, g>>
             replaced == acquiring[d].replaced
  <1> HIDE DEF new
  <1>1. /\ Acquiring(d) /\ new \in Lease /\ new[1] = d
        /\ \A m \in Lease :
              /\ m \in replaced => lease'[m].state = "released"
              /\ m # new /\ m \notin replaced => lease'[m] = lease[m]
    BY NewLeaseFacts DEF new
  <1>2. \A e \in Deployments : acquiring'[e] = IF e = d THEN Free ELSE acquiring[e]
    BY DEF IInv, TypeOK, NewLease
  <1>3. late' = late \ replaced
    BY DEF NewLease
  <1>4. \A m \in Lease : m \in Counted' => m = new \/ m \in Counted
    BY <1>1, <1>3 DEF Counted, Live
  <1>5. Counted' \subseteq Counted \cup {new}
    BY <1>4 DEF Counted, Live
  <1>6. /\ CountedOf(d)' \subseteq CountedOf(d) \cup {new}
        /\ \A e \in Deployments \ {d} : CountedOf(e)' \subseteq CountedOf(e)
    BY <1>5, <1>1 DEF CountedOf
  <1>7. /\ ~Acquiring(d)' /\ \A e \in Deployments \ {d} : Acquiring(e)' <=> Acquiring(e)
        /\ d \in Holders /\ Holders' = Holders \ {d}
    BY <1>1, <1>2 DEF Acquiring, Holders, Free
  <1>8. ASSUME NEW S \in SUBSET Lease, NEW T, T \subseteq S \cup {new}
        PROVE  /\ Cardinality(S) \in Nat /\ Cardinality(T) \in Nat
               /\ Cardinality(T) <= Cardinality(S) + 1
    <2>1. S \in SUBSET Lease /\ S \cup {new} \in SUBSET Lease /\ T \in SUBSET Lease /\ T \in SUBSET (S \cup {new})
      BY <1>1, <1>8
    <2>2. /\ Cardinality(S) \in Nat /\ Cardinality(S \cup {new}) \in Nat /\ Cardinality(T) \in Nat
          /\ Cardinality(T) <= Cardinality(S \cup {new}) /\ Cardinality(S \cup {new}) <= Cardinality(S) + 1
      BY <2>1, Counts
    <2> QED BY <2>2
  <1>9. ASSUME NEW e \in Deployments
        PROVE  Cardinality(CountedOf(e)') + (IF Acquiring(e)' THEN 1 ELSE 0) <= ProcessLimit
    <2>1. Cardinality(CountedOf(e)) + (IF Acquiring(e) THEN 1 ELSE 0) <= ProcessLimit
      BY DEF IInv, CountInv
    <2>2. CountedOf(e) \in SUBSET Lease
      BY CountedSets
    <2>3. CASE e = d
      <3>1. /\ Cardinality(CountedOf(d)) \in Nat /\ Cardinality(CountedOf(d)') \in Nat
            /\ Cardinality(CountedOf(d)') <= Cardinality(CountedOf(d)) + 1
        BY <2>2, <2>3, <1>6, <1>8
      <3> QED BY <3>1, <2>1, <2>3, <1>1, <1>7, SsrAssumption
    <2>4. CASE e # d
      <3>1. CountedOf(e)' \in SUBSET CountedOf(e) /\ CountedOf(e)' \in SUBSET Lease
        BY <2>2, <2>4, <1>6
      <3>2. /\ Cardinality(CountedOf(e)) \in Nat /\ Cardinality(CountedOf(e)') \in Nat
            /\ Cardinality(CountedOf(e)') <= Cardinality(CountedOf(e))
        BY <3>1, <2>2, Counts
      <3>3. Acquiring(e)' <=> Acquiring(e)
        BY <2>4, <1>7
      <3> QED BY <3>2, <3>3, <2>1, SsrAssumption
    <2> QED BY <2>3, <2>4
  <1>10. Cardinality(Counted') + Cardinality(Holders') <= ProcessLimit - 1 + Cardinality(Deployments)
    <2>1. /\ Cardinality(Counted) \in Nat /\ Cardinality(Counted') \in Nat
          /\ Cardinality(Counted') <= Cardinality(Counted) + 1
      <3>1. Counted \in SUBSET Lease
        BY CountedSets
      <3> QED BY <3>1, <1>5, <1>8
    <2>2. /\ Cardinality(Holders) \in Nat
          /\ Cardinality(Holders') = Cardinality(Holders) - 1
      <3>1. Holders \in SUBSET Deployments
        BY CountedSets
      <3>2. Cardinality(Holders \ {d}) = Cardinality(Holders) - 1 /\ Cardinality(Holders) \in Nat
        BY <3>1, <1>7, Counts
      <3> QED BY <3>2, <1>7
    <2>3. Cardinality(Counted) + Cardinality(Holders) <= ProcessLimit - 1 + Cardinality(Deployments)
      BY DEF IInv, CountInv
    <2> QED BY <2>1, <2>2, <2>3, Counts, SsrAssumption
  <1> QED BY <1>9, <1>10 DEF CountInv

(* Its handler owes the events of the new lease, and of the replaced one.  *)
LEMMA AcquireCommitInv ==
    ASSUME IInv, NEW d \in Deployments, NEW g \in Generations, AcquireCommit(d, g)
    PROVE  IInv'
  <1> DEFINE new == <<d, acquiring[d].node, g>>
             replaced == acquiring[d].replaced
  <1>1. NewLease(d, g)
    BY DEF AcquireCommit
  <1>2. PICK s : /\ owed' = owed \cup {s}
                 /\ \/ replaced = {} /\ s = Consume(new)
                    \/ \E l \in replaced : s = <<ProcessRelease(l)>> \o Consume(new)
    BY DEF AcquireCommit, Owe
  <1> HIDE DEF new
  <1>3. /\ new \in Lease /\ lease[new].state = "absent" /\ new \notin replaced
        /\ replaced = {l \in Lease : l[1] = d /\ l[2] = acquiring[d].node /\ Held(l)}
        /\ \A l, m \in replaced : l = m
        /\ lease' \in [Lease -> Row]
        /\ \A m \in Lease :
              /\ m = new => lease'[m].state = "live" /\ lease'[m].block = 0
              /\ m \in replaced => lease'[m].state = "released" /\ lease'[m].block = lease[m].block
              /\ m # new /\ m \notin replaced => lease'[m] = lease[m]
    BY <1>1, NewLeaseFacts DEF new
  <1>4. ProcessEvent(new) \in Event /\ HourEvent(new, 0) \in Event
    BY <1>3, EventTypes, SsrAssumption
  <1>5. /\ s \in Seq(Event) /\ s # <<>>
        /\ ProcessEvent(new) \in ToSet(s) /\ HourEvent(new, 0) \in ToSet(s)
        /\ \A l \in replaced : ProcessRelease(l) \in ToSet(s)
        /\ \A e \in ToSet(s) : e.kind # "hour_release"
    <2>1. CASE replaced = {} /\ s = Consume(new)
      <3>1. s = <<ProcessEvent(new), HourEvent(new, 0)>>
        BY <2>1 DEF Consume
      <3>2. s \in Seq(Event) /\ s # <<>> /\ ToSet(s) = {ProcessEvent(new), HourEvent(new, 0)}
        BY <3>1, <1>4, ShortSequences
      <3> QED BY <3>2, <2>1 DEF ProcessEvent, HourEvent
    <2>2. CASE \E l \in replaced : s = <<ProcessRelease(l)>> \o Consume(new)
      <3>1. PICK l \in replaced : s = <<ProcessRelease(l)>> \o Consume(new)
        BY <2>2
      <3>2. s = <<ProcessRelease(l)>> \o <<ProcessEvent(new), HourEvent(new, 0)>>
        BY <3>1 DEF Consume
      <3>3. l \in Lease
        BY <3>1, <1>3
      <3>4. ProcessRelease(l) \in Event
        BY <3>3, EventTypes, SsrAssumption
      <3>5. /\ s \in Seq(Event) /\ s # <<>>
            /\ ToSet(s) = {ProcessRelease(l), ProcessEvent(new), HourEvent(new, 0)}
        BY <3>2, <3>4, <1>4, ShortSequences
      <3>6. \A m \in replaced : m = l
        BY <3>1, <1>3
      <3> QED BY <3>5, <3>6 DEF ProcessEvent, HourEvent, ProcessRelease
    <2> QED BY <2>1, <2>2, <1>2
  <1>6. UNCHANGED <<renewing, sweeping, events, lost>>
    BY <1>1 DEF NewLease
  <1>7. \A m \in replaced : m \in Lease /\ Held(m)
    BY <1>3
  <1>8. OwedInv' /\ RefundIsLastHour' /\ LeasesAccounted'
    <2>4. ASSUME NEW m \in Lease
          PROVE  /\ lease[m].state = "released" => lease'[m] = lease[m]
                 /\ lease[m].state = "absent" =>
                       \/ lease'[m].state = "absent"
                       \/ /\ lease'[m].state = "live" /\ lease'[m].block = 0
                          /\ ProcessEvent(m) \in ToSet(s) /\ HourEvent(m, 0) \in ToSet(s)
                 /\ lease[m].state # "absent" =>
                       \/ lease'[m].block = lease[m].block
                       \/ lease'[m].block = lease[m].block + 1 /\ HourEvent(m, lease[m].block + 1) \in ToSet(s)
                 /\ lease[m].state # "released" /\ lease'[m].state = "released" =>
                       ProcessRelease(m) \in ToSet(s)
      <3>1. CASE m = new
        BY <3>1, <1>3, <1>5
      <3>2. CASE m \in replaced
        BY <3>2, <1>3, <1>5, <1>7 DEF Held
      <3>3. CASE m # new /\ m \notin replaced
        BY <3>3, <1>3
      <3> QED BY <3>1, <3>2, <3>3
    <2> QED BY <2>4, <1>2, <1>3, <1>5, <1>6, LedgerOwes
  <1>9. TypeOK'
    <2>1. owed' \subseteq Seq(Event)
      BY <1>2, <1>5 DEF IInv, TypeOK
    <2>2. acquiring' \in [Deployments -> [node : Nodes \cup {NoNode}, replaced : SUBSET Lease]]
      BY <1>1 DEF IInv, TypeOK, NewLease, Free
    <2>3. late' \subseteq Lease
      BY <1>1 DEF IInv, TypeOK, NewLease
    <2> QED BY <2>1, <2>2, <2>3, <1>3, <1>6 DEF IInv, TypeOK
  <1>10. LockInv' /\ OneLeasePerProcess' /\ BlockInv' /\ CountInv'
    BY <1>1, NewLeaseLocks, NewLeaseCounts
  <1> QED BY <1>8, <1>9, <1>10 DEF IInv

-------------------------------------------------------------------------------
(* Renewals, releases and the sweep.                                       *)

(* A renewal extends a lease that is still held and charges the next hour  *)
(* if the current one was over.                                            *)
LEMMA RenewCommitInv ==
    ASSUME IInv, NEW l \in Lease, RenewCommit(l)
    PROVE  IInv'
  <1>1. /\ Held(l) /\ renewing[l] # "none"
        /\ late' = IF lease[l].state = "expired" THEN late \cup {l} ELSE late
        /\ renewing' = [renewing EXCEPT ![l] = "none"]
        /\ UNCHANGED <<acquiring, sweeping, events, lost>>
    BY DEF RenewCommit, RenewRow
  <1>2. lease \in [Lease -> Row] /\ lease[l] \in Row
    BY DEF IInv, TypeOK
  <1>3. renewing' \in [Lease -> {"none", "same", "next"}] /\ late' \subseteq Lease
    BY <1>1 DEF IInv, TypeOK
  <1>4. \A m \in Lease : renewing'[m] = "next" => m # l /\ renewing[m] = "next"
    BY <1>1 DEF IInv, TypeOK
  <1>5. CASE renewing[l] # "next"
    <2>1. lease' = [lease EXCEPT ![l] = [lease[l] EXCEPT !.state = "live"]] /\ owed' = owed
      BY <1>5 DEF RenewCommit, RenewRow
    <2>2. /\ [lease[l] EXCEPT !.state = "live"] \in Row
          /\ [lease[l] EXCEPT !.state = "live"].state = "live"
          /\ [lease[l] EXCEPT !.state = "live"].block = lease[l].block
      BY <1>2 DEF Row
    <2>3. /\ lease' \in [Lease -> Row]
          /\ lease'[l].state = "live" /\ lease'[l].block = lease[l].block
          /\ \A m \in Lease : m # l => lease'[m] = lease[m]
      BY <1>2, <2>1, <2>2
    <2>4. TypeOK'
      BY <1>1, <1>3, <2>1, <2>3 DEF IInv, TypeOK
    <2>5. BlockInv'
      BY <1>4, <2>3 DEF IInv, BlockInv
    <2>6. Counted' \subseteq Counted
      BY <1>1, <2>3 DEF Counted, Live, Held
    <2> QED BY <1>1, <2>1, <2>3, <2>4, <2>5, <2>6, QuietStep DEF Held
  <1>6. CASE renewing[l] = "next"
    <2> DEFINE b == lease[l].block + 1
               s == <<HourEvent(l, b)>>
    <2>1. /\ lease' = [lease EXCEPT ![l] = [lease[l] EXCEPT !.state = "live", !.block = b]]
          /\ owed' = owed \cup {s}
      BY <1>6 DEF RenewCommit, RenewRow, Owe
    <2>2. b \in 0..MaxBlock
      BY <1>2, <1>6, SsrAssumption DEF IInv, BlockInv, Row
    <2> HIDE DEF b
    <2>3. /\ [lease[l] EXCEPT !.state = "live", !.block = b] \in Row
          /\ [lease[l] EXCEPT !.state = "live", !.block = b].state = "live"
          /\ [lease[l] EXCEPT !.state = "live", !.block = b].block = b
      BY <1>2, <2>2 DEF Row
    <2>4. /\ lease' \in [Lease -> Row]
          /\ lease'[l].state = "live" /\ lease'[l].block = b
          /\ \A m \in Lease : m # l => lease'[m] = lease[m]
      BY <1>2, <2>1, <2>3
    <2>5. s \in Seq(Event) /\ s # <<>> /\ ToSet(s) = {HourEvent(l, b)}
      <3>1. HourEvent(l, b) \in Event
        BY <2>2, EventTypes
      <3> QED BY <3>1, ShortSequences
    <2> HIDE DEF s
    <2>6. TypeOK'
      <3>1. owed' \subseteq Seq(Event)
        BY <2>1, <2>5 DEF IInv, TypeOK
      <3> QED BY <1>1, <1>3, <2>4, <3>1 DEF IInv, TypeOK
    <2>7. OwedInv' /\ RefundIsLastHour' /\ LeasesAccounted'
      <3>1. \A e \in ToSet(s) : e.kind # "hour_release"
        BY <2>5 DEF HourEvent
      <3>2. HourEvent(l, lease[l].block + 1) \in ToSet(s)
        BY <2>5 DEF b
      <3>3. lease'[l].block = lease[l].block + 1
        BY <2>4 DEF b
      <3> QED BY <1>1, <2>1, <2>4, <2>5, <3>1, <3>2, <3>3, LedgerOwes DEF Held
    <2>8. \A m \in Lease : Held(m)' <=> Held(m)
      BY <1>1, <2>4 DEF Held
    <2>9. LockInv' /\ OneLeasePerProcess'
      BY <1>1, <2>8, LockKept, OneLeaseKept
    <2>10. BlockInv'
      BY <1>4, <2>4 DEF IInv, BlockInv
    <2>11. CountInv'
      <3>1. Counted' \subseteq Counted
        BY <1>1, <2>4 DEF Counted, Live, Held
      <3> QED BY <1>1, <3>1, CountKept DEF Acquiring, Free
    <2> QED BY <2>6, <2>7, <2>9, <2>10, <2>11 DEF IInv
  <1> QED BY <1>5, <1>6

(* A lease ends under its lock, so not while it is being replaced.         *)
LEMMA EndLeaseInv ==
    ASSUME IInv, NEW l \in Lease, NEW refund \in BOOLEAN, EndLease(l, refund),
           UNCHANGED <<acquiring, renewing, events, lost>>, sweeping' \subseteq Lease
    PROVE  IInv'
  <1> DEFINE s == IF refund THEN <<ProcessRelease(l), HourRelease(l, lease[l].block)>>
                  ELSE <<ProcessRelease(l)>>
  <1>1. /\ Held(l) /\ ~Locked(l) /\ late' = late \ {l} /\ owed' = owed \cup {s}
        /\ lease' = [lease EXCEPT ![l] = [lease[l] EXCEPT !.state = "released"]]
    BY DEF EndLease, Owe
  <1>2. lease \in [Lease -> Row] /\ lease[l] \in Row /\ lease[l].block \in 0..MaxBlock
    BY DEF IInv, TypeOK, Row
  <1>3. /\ [lease[l] EXCEPT !.state = "released"] \in Row
        /\ [lease[l] EXCEPT !.state = "released"].state = "released"
        /\ [lease[l] EXCEPT !.state = "released"].block = lease[l].block
    BY <1>2 DEF Row
  <1>4. /\ lease' \in [Lease -> Row]
        /\ lease'[l].state = "released" /\ lease'[l].block = lease[l].block
        /\ \A m \in Lease : m # l => lease'[m] = lease[m]
    BY <1>1, <1>2, <1>3
  <1>5. /\ s \in Seq(Event) /\ s # <<>> /\ ProcessRelease(l) \in ToSet(s)
        /\ \A e \in ToSet(s) : e = ProcessRelease(l) \/ e = HourRelease(l, lease[l].block)
    <2>1. ProcessRelease(l) \in Event /\ HourRelease(l, lease[l].block) \in Event
      BY <1>2, EventTypes
    <2>2. CASE refund
      <3>1. s = <<ProcessRelease(l), HourRelease(l, lease[l].block)>>
        BY <2>2
      <3> HIDE DEF s
      <3>2. /\ s \in Seq(Event) /\ s # <<>>
            /\ ToSet(s) = {ProcessRelease(l), HourRelease(l, lease[l].block)}
        BY <2>1, <3>1, ShortSequences
      <3> QED BY <3>2
    <2>3. CASE ~refund
      <3>1. s = <<ProcessRelease(l)>>
        BY <2>3
      <3> HIDE DEF s
      <3>2. s \in Seq(Event) /\ s # <<>> /\ ToSet(s) = {ProcessRelease(l)}
        BY <2>1, <3>1, ShortSequences
      <3> QED BY <3>2
    <2> QED BY <2>2, <2>3
  <1> HIDE DEF s
  <1>6. TypeOK'
    <2>1. owed' \subseteq Seq(Event) /\ late' \subseteq Lease
      BY <1>1, <1>5 DEF IInv, TypeOK
    <2> QED BY <1>4, <2>1 DEF IInv, TypeOK
  <1>7. OwedInv' /\ RefundIsLastHour' /\ LeasesAccounted'
    <2>1. \A e \in ToSet(s) :
             e.kind = "hour_release" =>
                 lease'[e.lease].state = "released" /\ e.block = lease'[e.lease].block
      BY <1>4, <1>5 DEF ProcessRelease, HourRelease
    <2> QED BY <1>1, <1>4, <1>5, <2>1, LedgerOwes DEF Held
  <1>8. \A m \in Lease : (Held(m)' => Held(m)) /\ (Held(m) /\ Locked(m) => Held(m)')
    BY <1>1, <1>4 DEF Held
  <1>9. LockInv' /\ OneLeasePerProcess'
    BY <1>8, LockKept, OneLeaseKept
  <1>10. BlockInv'
    BY <1>4 DEF IInv, BlockInv
  <1>11. CountInv'
    <2>1. Counted' \subseteq Counted
      BY <1>1, <1>4 DEF Counted, Live
    <2> QED BY <2>1, CountKept DEF Acquiring, Free
  <1> QED BY <1>6, <1>7, <1>9, <1>10, <1>11 DEF IInv

(* The request of the node ends the lease, or finds it released.           *)
LEMMA ReleaseInv ==
    ASSUME IInv, NEW l \in Lease, NEW refund \in BOOLEAN, Release(l, refund)
    PROVE  IInv'
  <1>1. EndLease(l, refund) /\ UNCHANGED <<acquiring, renewing, sweeping, events, lost>>
    BY DEF Release
  <1>2. sweeping' \subseteq Lease
    BY <1>1 DEF IInv, TypeOK
  <1> QED BY <1>1, <1>2, EndLeaseInv

(* So does the sweep.                                                      *)
LEMMA SweepReleaseInv ==
    ASSUME IInv, NEW l \in Lease, NEW refund \in BOOLEAN, SweepRelease(l, refund)
    PROVE  IInv'
  <1>1. UNCHANGED <<acquiring, renewing, events, lost>> /\ sweeping' \subseteq Lease
    BY DEF SweepRelease, IInv, TypeOK
  <1>2. CASE EndLease(l, refund)
    BY <1>1, <1>2, EndLeaseInv
  <1>3. CASE UNCHANGED <<lease, owed, late>>
    <2>1. TypeOK' /\ BlockInv' /\ Counted' = Counted
      BY <1>1, <1>3 DEF IInv, TypeOK, BlockInv, Counted, Live
    <2> QED BY <1>1, <1>3, <2>1, QuietStep
  <1> QED BY <1>2, <1>3 DEF SweepRelease

-------------------------------------------------------------------------------
(* The events.                                                             *)

(* What has been written or owed, has been lost or still is.               *)
LEMMA LedgerMoves ==
    ASSUME IInv, UNCHANGED <<lease, acquiring, renewing, sweeping, late>>,
           events' \subseteq Event, owed' \subseteq Seq(Event), lost' \subseteq Lease,
           \A t \in owed' : t # <<>>,
           \A e : Accounted(e) => Accounted(e)',
           events' \cup UNION {ToSet(t) : t \in owed'} \subseteq events \cup UNION {ToSet(t) : t \in owed}
    PROVE  IInv'
  <1>1. TypeOK' /\ OwedInv' /\ BlockInv'
    BY DEF IInv, TypeOK, OwedInv, BlockInv
  <1>2. LockInv' /\ OneLeasePerProcess'
    BY LockKept, OneLeaseKept DEF Held
  <1>3. CountInv'
    <2>1. Counted' = Counted
      BY DEF Counted, Live
    <2> QED BY <2>1, CountKept DEF Acquiring, Free
  <1>4. RefundIsLastHour'
    BY DEF IInv, RefundIsLastHour
  <1>5. LeasesAccounted'
    BY DEF IInv, LeasesAccounted
  <1> QED BY <1>1, <1>2, <1>3, <1>4, <1>5 DEF IInv

(* The next event is written and the handler goes on with the rest.        *)
LEMMA RecordEventInv ==
    ASSUME IInv, NEW s \in owed, RecordEvent(s)
    PROVE  IInv'
  <1>1. s \in Seq(Event) /\ s # <<>>
    BY DEF IInv, TypeOK, OwedInv
  <1>2. /\ Head(s) \in Event /\ Head(s) \in ToSet(s)
        /\ Len(s) # 1 => Tail(s) \in Seq(Event) /\ Tail(s) # <<>>
        /\ \A e \in ToSet(s) : e = Head(s) \/ (Len(s) # 1 /\ e \in ToSet(Tail(s)))
        /\ Len(s) # 1 => ToSet(Tail(s)) \subseteq ToSet(s)
    BY <1>1, NextEvent
  <1>3. /\ events' = events \cup {Head(s)}
        /\ owed' = (owed \ {s}) \cup (IF Len(s) = 1 THEN {} ELSE {Tail(s)})
        /\ UNCHANGED <<lease, acquiring, renewing, sweeping, lost, late>>
    BY DEF RecordEvent
  <1>4. events' \subseteq Event /\ owed' \subseteq Seq(Event) /\ \A t \in owed' : t # <<>>
    BY <1>2, <1>3 DEF IInv, TypeOK, OwedInv
  <1>5. ASSUME NEW e, Accounted(e) PROVE Accounted(e)'
    <2>1. CASE e \in events \/ e.lease \in lost
      BY <2>1, <1>3 DEF Accounted
    <2>2. CASE \E t \in owed : e \in ToSet(t)
      <3>1. PICK t \in owed : e \in ToSet(t)
        BY <2>2
      <3>2. CASE t # s
        BY <3>1, <3>2, <1>3 DEF Accounted
      <3>3. CASE t = s
        BY <3>1, <3>3, <1>2, <1>3 DEF Accounted
      <3> QED BY <3>2, <3>3
    <2> QED BY <1>5, <2>1, <2>2 DEF Accounted
  <1>6. events' \cup UNION {ToSet(t) : t \in owed'} \subseteq events \cup UNION {ToSet(t) : t \in owed}
    <2> DEFINE all == events \cup UNION {ToSet(t) : t \in owed}
    <2>1. \A t \in owed : ToSet(t) \subseteq all
      OBVIOUS
    <2>2. ASSUME NEW t \in owed' PROVE ToSet(t) \subseteq all
      <3>1. t \in owed \/ (Len(s) # 1 /\ t = Tail(s))
        BY <1>3
      <3> QED BY <3>1, <2>1, <1>2
    <2>3. events' \subseteq all
      BY <1>2, <1>3, <2>1
    <2> QED BY <2>2, <2>3
  <1>7. lost' \subseteq Lease
    BY <1>3 DEF IInv, TypeOK
  <1> QED BY <1>3, <1>4, <1>5, <1>6, <1>7, LedgerMoves

(* What a dropped handler still owed is lost.                              *)
LEMMA DropHandlerInv ==
    ASSUME IInv, NEW s \in owed, DropHandler(s)
    PROVE  IInv'
  <1>1. /\ owed' = owed \ {s} /\ lost' = lost \cup {e.lease : e \in ToSet(s)}
        /\ UNCHANGED <<lease, acquiring, renewing, sweeping, events, late>>
    BY DEF DropHandler
  <1>2. \A e \in ToSet(s) : e \in Event
    BY EventsTyped DEF IInv
  <1>3. /\ events' \subseteq Event /\ owed' \subseteq Seq(Event) /\ lost' \subseteq Lease
        /\ \A t \in owed' : t # <<>>
    BY <1>1, <1>2 DEF IInv, TypeOK, OwedInv, Event
  <1>4. \A e : Accounted(e) => Accounted(e)'
    BY <1>1 DEF Accounted
  <1>5. events' \cup UNION {ToSet(t) : t \in owed'} \subseteq events \cup UNION {ToSet(t) : t \in owed}
    BY <1>1
  <1> QED BY <1>1, <1>3, <1>4, <1>5, LedgerMoves

-------------------------------------------------------------------------------
(* No lease, no handler, no acquisition.                                   *)
LEMMA InitInv == Init => IInv
  <1> SUFFICES ASSUME Init PROVE IInv
    OBVIOUS
  <1>1. \A l \in Lease : lease[l].state = "absent" /\ renewing[l] = "none"
    BY DEF Init
  <1>2. [state |-> "absent", block |-> 0] \in Row
    BY SsrAssumption DEF Row
  <1>3. TypeOK
    BY <1>2 DEF Init, TypeOK, Free
  <1>4. OwedInv /\ BlockInv /\ OneLeasePerProcess /\ LeasesAccounted
    BY <1>1 DEF Init, OwedInv, BlockInv, OneLeasePerProcess, LeasesAccounted, Held
  <1>5. LockInv
    BY DEF Init, LockInv, Acquiring
  <1>6. RefundIsLastHour
    BY DEF Init, RefundIsLastHour
  <1>7. CountInv
    <2>1. Counted = {} /\ Holders = {} /\ (\A d : CountedOf(d) = {})
      BY <1>1 DEF Init, Counted, CountedOf, Live, Holders, Acquiring
    <2>2. Cardinality({}) = 0
      BY FS_EmptySet
    <2>3. \A d \in Deployments : ~Acquiring(d)
      BY DEF Init, Acquiring
    <2>4. Cardinality(Deployments) \in Nat
      BY Counts
    <2>5. Cardinality(Counted) = 0 /\ Cardinality(Holders) = 0 /\ (\A d : Cardinality(CountedOf(d)) = 0)
      BY <2>1, <2>2
    <2> QED BY <2>3, <2>4, <2>5, SsrAssumption DEF CountInv
  <1> QED BY <1>3, <1>4, <1>5, <1>6, <1>7 DEF IInv

(* Every step preserves it.                                                *)
LEMMA NextInv == IInv /\ [Next]_vars => IInv'
  <1> SUFFICES ASSUME IInv, [Next]_vars PROVE IInv'
    OBVIOUS
  <1>1. ASSUME NEW d \in Deployments,
               \/ \E n \in Nodes : AcquireCheck(d, n)
               \/ \E g \in Generations : AcquireCommit(d, g)
               \/ AcquireAbort(d)
        PROVE  IInv'
    BY <1>1, AcquireCheckInv, AcquireCommitInv, AcquireAbortInv
  <1>2. ASSUME NEW l \in Lease,
               \/ \E block \in {"same", "next"} : RenewBegin(l, block)
               \/ RenewCommit(l) \/ RenewRefused(l) \/ Expire(l)
               \/ \E refund \in BOOLEAN : Release(l, refund) \/ SweepRelease(l, refund)
        PROVE  IInv'
    <2>1. CASE RenewRefused(l) \/ \E block \in {"same", "next"} : RenewBegin(l, block)
      BY <2>1, ClientInv
    <2>2. CASE RenewCommit(l) \/ Expire(l)
      BY <2>2, RenewCommitInv, ExpireInv
    <2>3. CASE \E refund \in BOOLEAN : Release(l, refund) \/ SweepRelease(l, refund)
      BY <2>3, ReleaseInv, SweepReleaseInv
    <2> QED BY <1>2, <2>1, <2>2, <2>3
  <1>3. CASE SweepList \/ UNCHANGED vars
    BY <1>3, ClientInv
  <1>4. ASSUME NEW s \in owed, RecordEvent(s) \/ DropHandler(s)
        PROVE  IInv'
    BY <1>4, RecordEventInv, DropHandlerInv
  <1> QED BY <1>1, <1>2, <1>3, <1>4 DEF Next

(* The strengthening holds in every reachable state.                       *)
THEOREM Invariance == Spec => []IInv
  <1> QED BY InitInv, NextInv, PTL DEF Spec

(* Values keep their types (ssr_leases.rs).                                *)
THEOREM TypeCorrect == Spec => []TypeOK
  <1>1. IInv => TypeOK
    BY DEF IInv
  <1> QED BY <1>1, Invariance, PTL

(* A process never has two leases, however its acquisition interleaves     *)
(* with renewals, releases and the sweep (acquire).                        *)
THEOREM OneLeasePerProcessHolds == Spec => []OneLeasePerProcess
  <1>1. IInv => OneLeasePerProcess
    BY DEF IInv
  <1> QED BY <1>1, Invariance, PTL

(* Acquisitions that count at the same time pass the limit by no more than *)
(* one for each other deployment (acquire, renew).                         *)
THEOREM OvercommitBoundedHolds == Spec => []OvercommitBounded
  <1>1. IInv => OvercommitBounded
    <2> SUFFICES ASSUME IInv PROVE OvercommitBounded
      OBVIOUS
    <2>1. \A d \in Deployments : Cardinality({l \in Live \ late : l[1] = d}) <= ProcessLimit
      <3> SUFFICES ASSUME NEW d \in Deployments PROVE Cardinality(CountedOf(d)) <= ProcessLimit
        BY DEF CountedOf, Counted
      <3>1. Cardinality(CountedOf(d)) + (IF Acquiring(d) THEN 1 ELSE 0) <= ProcessLimit
        BY DEF IInv, CountInv
      <3>2. CountedOf(d) \in SUBSET Lease
        BY CountedSets
      <3>3. Cardinality(CountedOf(d)) \in Nat
        BY <3>2, Counts
      <3> QED BY <3>1, <3>3, SsrAssumption
    <2>2. Cardinality(Live \ late) <= ProcessLimit - 1 + Cardinality(Deployments)
      <3> SUFFICES Cardinality(Counted) <= ProcessLimit - 1 + Cardinality(Deployments)
        BY DEF Counted
      <3>1. Counted \in SUBSET Lease /\ Holders \in SUBSET Deployments
        BY CountedSets
      <3>2. /\ Cardinality(Counted) \in Nat /\ Cardinality(Holders) \in Nat
            /\ Cardinality(Deployments) \in Nat
        BY <3>1, Counts
      <3>3. Cardinality(Counted) + Cardinality(Holders) <= ProcessLimit - 1 + Cardinality(Deployments)
        BY DEF IInv, CountInv
      <3> QED BY <3>2, <3>3, SsrAssumption
    <2> QED BY <2>1, <2>2 DEF OvercommitBounded
  <1> QED BY <1>1, Invariance, PTL

(* An hour is given back once, after the end of its lease, and is the last *)
(* one it was charged (renew, release).                                    *)
THEOREM RefundIsLastHourHolds == Spec => []RefundIsLastHour
  <1>1. IInv => RefundIsLastHour
    BY DEF IInv
  <1> QED BY <1>1, Invariance, PTL

(* The ledger has every process, every hour and every end, or is about to, *)
(* unless a handler was dropped (acquire, renew, release).                 *)
THEOREM LeasesAccountedHolds == Spec => []LeasesAccounted
  <1>1. IInv => LeasesAccounted
    BY DEF IInv
  <1> QED BY <1>1, Invariance, PTL

===============================================================================
