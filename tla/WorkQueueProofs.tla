---------------------------- MODULE WorkQueueProofs ----------------------------
(***************************************************************************)
(* TLAPS proofs about WorkQueue, for every set of PETs and DEs, every      *)
(* mapping, and any bound on the offers.                                   *)
(***************************************************************************)
EXTENDS WorkQueue, TLAPS

\* The PET that decides an offer is the owner of the offer mutex.
DeciderOwnsMutex == \A p \in PET, d \in DE : Deciding(p, d) => offerMutex[d] = p

\* An offer runs at most one round ahead, and only until it is decided.
UndecidedGap ==
  \A p \in PET, d \in DE :
    /\ localCount[p][d] <= maxCount[d] + 1
    /\ ~(cur[p] = d /\ pc[p] \in {"lockOffer", "compare", "raise"})
          => localCount[p][d] <= maxCount[d]

\* Whoever is about to raise the counter offers the very next round.
RaiseIsNext == \A p \in PET : pc[p] = "raise"
                 => localCount[p][cur[p]] = maxCount[cur[p]] + 1 /\ reply[p] = "ACCEPT"

\* The rounds up to the counter, and no others, were granted.
GrantedUpToMax ==
  /\ \A g \in granted : 1 <= g[3] /\ g[3] <= maxCount[g[2]]
  /\ \A d \in DE, r \in Nat : 1 <= r /\ r <= maxCount[d]
        => \E p \in PET : <<p, d, r>> \in granted

\* A PET inside serviceOffer does not hold the window it asks for.
OfferWithoutWindow == \A p \in PET : pc[p] # "idle" => ~serviceFlag[p][cur[p]]

\* An offer is denied unless the comparison accepts it.
UndecidedIsDenied == \A p \in PET : pc[p] \in {"lockOffer", "compare"} => reply[p] = "DENY"

\* The inductive strengthening: what the mutexes, the flags, the two counters and the history
\* of grants say of each other.
SafeInv == /\ DeciderOwnsMutex
           /\ OfferWithoutWindow
           /\ UndecidedIsDenied
           /\ FlagIsOwnership
           /\ UndecidedGap
           /\ RaiseIsNext
           /\ GrantedUpToMax
           /\ OneGrantPerRound

USE NoPetAssumption, MappingAssumption, BoundAssumption

\* DELayout::construct leaves a well typed work queue ...
LEMMA InitType == Init => TypeOK
BY DEF Init, TypeOK

\* ... and each step of serviceOffer and serviceComplete keeps it so.
LEMMA StepType == TypeOK /\ [Next]_vars => TypeOK'
<1> SUFFICES ASSUME TypeOK, [Next]_vars PROVE TypeOK'
  OBVIOUS
<1> USE DEF TypeOK
<1>1. ASSUME NEW p \in PET, NEW d \in DE, Offer(p, d) PROVE TypeOK'
  BY <1>1 DEF Offer
<1>2. ASSUME NEW p \in PET, NEW d \in DE, Refuse(p, d) PROVE TypeOK'
  BY <1>2 DEF Refuse
<1>3. ASSUME NEW p \in PET, LockOffer(p) PROVE TypeOK'
  BY <1>3 DEF LockOffer
<1>4. ASSUME NEW p \in PET, Compare(p) PROVE TypeOK'
  BY <1>4 DEF Compare
<1>5. ASSUME NEW p \in PET, Raise(p) PROVE TypeOK'
  BY <1>5 DEF Raise
<1>6. ASSUME NEW p \in PET, UnlockOffer(p) PROVE TypeOK'
  BY <1>6 DEF UnlockOffer
<1>7. ASSUME NEW p \in PET, LockService(p) PROVE TypeOK'
  BY <1>7 DEF LockService
<1>8. ASSUME NEW p \in PET, NEW d \in DE, Complete(p, d) PROVE TypeOK'
  BY <1>8 DEF Complete
<1>9. CASE UNCHANGED vars
  BY <1>9 DEF vars
<1> QED
  BY <1>1, <1>2, <1>3, <1>4, <1>5, <1>6, <1>7, <1>8, <1>9 DEF Next, Step

\* The strengthening holds after DELayout::construct ...
LEMMA InitSafe == Init => SafeInv
BY DEF Init, SafeInv, DeciderOwnsMutex, OfferWithoutWindow, UndecidedIsDenied,
       FlagIsOwnership, UndecidedGap, RaiseIsNext, GrantedUpToMax, OneGrantPerRound, Deciding

\* ... and each step of serviceOffer and serviceComplete preserves it.
LEMMA StepSafe == TypeOK /\ SafeInv /\ [Next]_vars => SafeInv'
<1> SUFFICES ASSUME TypeOK, SafeInv, [Next]_vars PROVE SafeInv'
  OBVIOUS
<1> USE DEF TypeOK, SafeInv, Deciding
<1>w. OfferWithoutWindow' /\ UndecidedIsDenied'
  <2>1. OfferWithoutWindow'
    BY DEF OfferWithoutWindow, Next, Step, vars, Offer, Refuse, LockOffer, Compare, Raise,
           UnlockOffer, LockService, Complete
  <2>2. UndecidedIsDenied'
    BY DEF UndecidedIsDenied, Next, Step, vars, Offer, Refuse, LockOffer, Compare, Raise,
           UnlockOffer, LockService, Complete
  <2> QED
    BY <2>1, <2>2
\* Steps that touch neither the counter nor the grants keep what is said of them.
<1>g. ASSUME UNCHANGED <<granted, maxCount>> PROVE GrantedUpToMax' /\ OneGrantPerRound'
  BY <1>g DEF GrantedUpToMax, OneGrantPerRound
<1>f. ASSUME UNCHANGED <<serviceMutex, serviceFlag>> PROVE FlagIsOwnership'
  BY <1>f DEF FlagIsOwnership
<1>1. ASSUME NEW p \in PET, NEW d \in DE, Offer(p, d) PROVE SafeInv'
  <2>1. DeciderOwnsMutex'
    BY <1>1 DEF Offer, DeciderOwnsMutex
  <2>2. UndecidedGap'
    <3>1. localCount[p][d] <= maxCount[d]
      BY <1>1 DEF Offer, UndecidedGap
    <3>2. /\ localCount' = [localCount EXCEPT ![p][d] = @ + 1] /\ maxCount' = maxCount
          /\ cur' = [cur EXCEPT ![p] = d] /\ pc' = [pc EXCEPT ![p] = "lockOffer"]
          /\ pc[p] = "idle"
      BY <1>1 DEF Offer
    <3> QED
      BY <3>1, <3>2 DEF UndecidedGap
  <2>3. RaiseIsNext'
    BY <1>1 DEF Offer, RaiseIsNext
  <2> QED
    BY <1>1, <1>g, <1>w, <1>f, <2>1, <2>2, <2>3 DEF Offer
<1>2. ASSUME NEW p \in PET, NEW d \in DE, Refuse(p, d) PROVE SafeInv'
  BY <1>2, <1>g, <1>w, <1>f DEF Refuse, DeciderOwnsMutex, UndecidedGap, RaiseIsNext
<1>3. ASSUME NEW p \in PET, LockOffer(p) PROVE SafeInv'
  <2>1. DeciderOwnsMutex'
    BY <1>3 DEF LockOffer, DeciderOwnsMutex
  <2>2. UndecidedGap'
    <3> SUFFICES ASSUME NEW q \in PET, NEW e \in DE
                 PROVE  /\ localCount'[q][e] <= maxCount'[e] + 1
                        /\ ~(cur'[q] = e /\ pc'[q] \in {"lockOffer", "compare", "raise"})
                              => localCount'[q][e] <= maxCount'[e]
      BY DEF UndecidedGap
    <3>1. /\ localCount[q][e] <= maxCount[e] + 1
          /\ ~(cur[q] = e /\ pc[q] \in {"lockOffer", "compare", "raise"})
                => localCount[q][e] <= maxCount[e]
      BY DEF UndecidedGap
    <3> QED
      BY <1>3, <3>1 DEF LockOffer
  <2>3. RaiseIsNext'
    BY <1>3 DEF LockOffer, RaiseIsNext
  <2> QED
    BY <1>3, <1>g, <1>w, <1>f, <2>1, <2>2, <2>3 DEF LockOffer
<1>4. ASSUME NEW p \in PET, Compare(p) PROVE SafeInv'
  <2>1. DeciderOwnsMutex'
    BY <1>4 DEF Compare, DeciderOwnsMutex
  <2>2. UndecidedGap'
    <3> SUFFICES ASSUME NEW q \in PET, NEW e \in DE
                 PROVE  /\ localCount'[q][e] <= maxCount'[e] + 1
                        /\ ~(cur'[q] = e /\ pc'[q] \in {"lockOffer", "compare", "raise"})
                              => localCount'[q][e] <= maxCount'[e]
      BY DEF UndecidedGap
    <3>1. /\ localCount[q][e] <= maxCount[e] + 1
          /\ ~(cur[q] = e /\ pc[q] \in {"lockOffer", "compare", "raise"})
                => localCount[q][e] <= maxCount[e]
      BY DEF UndecidedGap
    <3> QED
      BY <1>4, <3>1 DEF Compare
  <2>3. RaiseIsNext'
    BY <1>4 DEF Compare, UndecidedGap, RaiseIsNext
  <2> QED
    BY <1>4, <1>g, <1>w, <1>f, <2>1, <2>2, <2>3 DEF Compare
<1>5. ASSUME NEW p \in PET, Raise(p) PROVE SafeInv'
  <2> DEFINE d == cur[p]
             r == maxCount[d] + 1
  <2>1. /\ d \in DE /\ r \in Nat /\ localCount[p][d] = r
        /\ maxCount' = [maxCount EXCEPT ![d] = r]
        /\ granted' = granted \cup {<<p, d, r>>}
    BY <1>5 DEF Raise, RaiseIsNext
  <2>2. \A q \in PET : q # p /\ cur[q] = d => pc[q] \notin {"compare", "raise", "unlockOffer"}
    BY <1>5 DEF Raise, DeciderOwnsMutex
  <2>3. DeciderOwnsMutex'
    BY <1>5 DEF Raise, DeciderOwnsMutex
  <2>4. UndecidedGap'
    BY <1>5, <2>1 DEF Raise, UndecidedGap
  <2>5. RaiseIsNext'
    BY <1>5, <2>1, <2>2 DEF Raise, RaiseIsNext
  <2>6. GrantedUpToMax'
    <3>1. ASSUME NEW g \in granted' PROVE 1 <= g[3] /\ g[3] <= maxCount'[g[2]]
      BY <2>1, <3>1 DEF GrantedUpToMax
    <3>2. ASSUME NEW e \in DE, NEW k \in Nat, 1 <= k, k <= maxCount'[e]
          PROVE  \E q \in PET : <<q, e, k>> \in granted'
      <4>1. CASE e = d /\ k = r
        BY <2>1, <4>1
      <4>2. CASE ~(e = d /\ k = r)
        <5>1. k <= maxCount[e]
          <6>1. CASE e = d
            <7>1. maxCount[d] \in Nat /\ maxCount'[d] = maxCount[d] + 1
              BY <2>1
            <7>2. k <= maxCount[d] + 1 /\ k # maxCount[d] + 1
              BY <3>2, <4>2, <6>1, <7>1
            <7> QED
              BY <6>1, <7>1, <7>2
          <6>2. CASE e # d
            BY <2>1, <3>2, <6>2
          <6> QED
            BY <6>1, <6>2
        <5> QED
          BY <2>1, <3>2, <5>1 DEF GrantedUpToMax
      <4> QED
        BY <4>1, <4>2
    <3> QED
      BY <3>1, <3>2 DEF GrantedUpToMax
  <2>7. OneGrantPerRound'
    <3>1. \A g \in granted : ~(g[2] = d /\ g[3] = r)
      BY <2>1 DEF GrantedUpToMax
    <3>2. ASSUME NEW g \in granted', NEW h \in granted', g[2] = h[2], g[3] = h[3]
          PROVE  g = h
      <4>1. CASE g \in granted /\ h \in granted
        BY <3>2, <4>1 DEF OneGrantPerRound
      <4>2. CASE g = <<p, d, r>>
        <5>1. h \notin granted
          BY <3>1, <3>2, <4>2
        <5> QED
          BY <2>1, <3>2, <4>2, <5>1
      <4>3. CASE h = <<p, d, r>>
        <5>1. g \notin granted
          BY <3>1, <3>2, <4>3
        <5> QED
          BY <2>1, <3>2, <4>3, <5>1
      <4> QED
        BY <2>1, <4>1, <4>2, <4>3
    <3> QED
      BY <3>2 DEF OneGrantPerRound
  <2> QED
    BY <1>5, <1>w, <1>f, <2>3, <2>4, <2>5, <2>6, <2>7 DEF Raise
<1>6. ASSUME NEW p \in PET, UnlockOffer(p) PROVE SafeInv'
  <2>1. DeciderOwnsMutex'
    BY <1>6 DEF UnlockOffer, DeciderOwnsMutex
  <2>2. UndecidedGap'
    <3> SUFFICES ASSUME NEW q \in PET, NEW e \in DE
                 PROVE  /\ localCount'[q][e] <= maxCount'[e] + 1
                        /\ ~(cur'[q] = e /\ pc'[q] \in {"lockOffer", "compare", "raise"})
                              => localCount'[q][e] <= maxCount'[e]
      BY DEF UndecidedGap
    <3>1. /\ localCount[q][e] <= maxCount[e] + 1
          /\ ~(cur[q] = e /\ pc[q] \in {"lockOffer", "compare", "raise"})
                => localCount[q][e] <= maxCount[e]
      BY DEF UndecidedGap
    <3> QED
      BY <1>6, <3>1 DEF UnlockOffer
  <2>3. RaiseIsNext'
    BY <1>6 DEF UnlockOffer, RaiseIsNext
  <2> QED
    BY <1>6, <1>g, <1>w, <1>f, <2>1, <2>2, <2>3 DEF UnlockOffer
<1>7. ASSUME NEW p \in PET, LockService(p) PROVE SafeInv'
  <2>1. FlagIsOwnership'
    BY <1>7 DEF LockService, FlagIsOwnership
  <2>2. DeciderOwnsMutex' /\ UndecidedGap' /\ RaiseIsNext'
    BY <1>7 DEF LockService, DeciderOwnsMutex, UndecidedGap, RaiseIsNext
  <2> QED
    BY <1>7, <1>g, <1>w, <2>1, <2>2 DEF LockService
<1>8. ASSUME NEW p \in PET, NEW d \in DE, Complete(p, d) PROVE SafeInv'
  <2>1. FlagIsOwnership'
    BY <1>8 DEF Complete, FlagIsOwnership
  <2>2. DeciderOwnsMutex' /\ UndecidedGap' /\ RaiseIsNext'
    BY <1>8 DEF Complete, DeciderOwnsMutex, UndecidedGap, RaiseIsNext
  <2> QED
    BY <1>8, <1>g, <1>w, <2>1, <2>2 DEF Complete
<1>9. CASE UNCHANGED vars
  BY <1>9, <1>g, <1>w, <1>f DEF vars, DeciderOwnsMutex, UndecidedGap, RaiseIsNext
<1> QED
  BY <1>1, <1>2, <1>3, <1>4, <1>5, <1>6, <1>7, <1>8, <1>9 DEF Next, Step

\* Every reachable state of the work queue is well typed.
THEOREM WorkQueueType == Spec => []TypeOK
BY InitType, StepType, PTL DEF Spec

\* The strengthening every safety property below follows from.
THEOREM WorkQueueInv == Spec => [](TypeOK /\ SafeInv)
BY InitType, StepType, InitSafe, StepSafe, PTL DEF Spec

\* A round of a DE is granted to one PET only (serviceOffer accepts one offer
\* per increment), for any number of PETs.
THEOREM OneGrant == Spec => []OneGrantPerRound
BY WorkQueueInv, PTL DEF SafeInv

\* Who may unlock a service mutex is exactly who locked it.
THEOREM FlagOwnership == Spec => []FlagIsOwnership
BY WorkQueueInv, PTL DEF SafeInv

\* maxServiceOfferCount counts the granted rounds without a gap.
THEOREM Contiguous == Spec => []RoundsAreContiguous
<1>1. TypeOK /\ SafeInv => RoundsAreContiguous
  <2> SUFFICES ASSUME TypeOK, SafeInv, NEW d \in DE
               PROVE {g[3] : g \in {h \in granted : h[2] = d}} = 1 .. maxCount[d]
    BY DEF RoundsAreContiguous
  <2>1. ASSUME NEW g \in granted, g[2] = d PROVE g[3] \in 1 .. maxCount[d]
    BY <2>1 DEF TypeOK, SafeInv, GrantedUpToMax
  <2>2. ASSUME NEW r \in 1 .. maxCount[d] PROVE \E g \in granted : g[2] = d /\ g[3] = r
    <3>0. r \in Nat /\ 1 <= r /\ r <= maxCount[d]
      BY <2>2 DEF TypeOK
    <3>1. PICK p \in PET : <<p, d, r>> \in granted
      BY <3>0 DEF SafeInv, GrantedUpToMax
    <3> QED
      BY <3>1
  <2> DEFINE rounds == {g[3] : g \in {h \in granted : h[2] = d}}
  <2>3. rounds \subseteq 1 .. maxCount[d]
    BY <2>1
  <2>4. 1 .. maxCount[d] \subseteq rounds
    BY <2>2
  <2> QED
    BY <2>3, <2>4
<1> QED
  BY <1>1, WorkQueueInv, PTL

\* A denied PET may skip the work: its round is somebody's.
THEOREM AnsweredGranted == Spec => []AnsweredRoundIsGranted
<1>1. TypeOK /\ SafeInv => AnsweredRoundIsGranted
  <2> SUFFICES ASSUME TypeOK, SafeInv, NEW p \in PET, NEW d \in DE,
                      pc[p] \in {"idle", "lockService"} \/ cur[p] # d,
                      localCount[p][d] > 0
               PROVE \E q \in PET : <<q, d, localCount[p][d]>> \in granted
    BY DEF AnsweredRoundIsGranted
  <2>1. localCount[p][d] \in Nat /\ 1 <= localCount[p][d]
    BY DEF TypeOK
  <2>2. localCount[p][d] <= maxCount[d]
    <3>1. ~(cur[p] = d /\ pc[p] \in {"lockOffer", "compare", "raise"})
      OBVIOUS
    <3> QED
      BY <3>1 DEF SafeInv, UndecidedGap
  <2> QED
    BY <2>1, <2>2 DEF SafeInv, GrantedUpToMax
<1> QED
  BY <1>1, WorkQueueInv, PTL

\* The PETs that were accepted and wait for a window, as ServiceWindow sees them.
WaitingPairs == {pd \in PET \X DE : Waiting(pd[1], pd[2])}

\* Every step of the work queue is a step of ServiceWindow or leaves it alone.
LEMMA StepWindow == TypeOK /\ TypeOK' /\ SafeInv /\ [Next]_vars
                      => [Window!Next]_(Window!winVars)
<1> SUFFICES ASSUME TypeOK, TypeOK', SafeInv, [Next]_vars
             PROVE  Window!Next \/ UNCHANGED <<maxCount, WaitingPairs, serviceMutex>>
  BY DEF Window!winVars, WaitingPairs
<1> USE DEF TypeOK
<1>s. ASSUME UNCHANGED <<maxCount, serviceMutex>>,
             \A q \in PET, e \in DE : Waiting(q, e)' <=> Waiting(q, e)
      PROVE  UNCHANGED <<maxCount, WaitingPairs, serviceMutex>>
  <2>1. \A pd \in PET \X DE : Waiting(pd[1], pd[2])' <=> Waiting(pd[1], pd[2])
    BY <1>s
  <2> QED
    BY <1>s, <2>1 DEF WaitingPairs
<1>1. ASSUME NEW p \in PET, NEW d \in DE, Offer(p, d)
      PROVE  UNCHANGED <<maxCount, WaitingPairs, serviceMutex>>
  BY <1>1, <1>s DEF Offer, Waiting
<1>2. ASSUME NEW p \in PET, NEW d \in DE, Refuse(p, d)
      PROVE  UNCHANGED <<maxCount, WaitingPairs, serviceMutex>>
  BY <1>2, <1>s DEF Refuse, Waiting
<1>3. ASSUME NEW p \in PET, LockOffer(p)
      PROVE  UNCHANGED <<maxCount, WaitingPairs, serviceMutex>>
  BY <1>3, <1>s DEF LockOffer, Waiting
<1>4. ASSUME NEW p \in PET, Compare(p)
      PROVE  UNCHANGED <<maxCount, WaitingPairs, serviceMutex>>
  <2>1. ASSUME NEW q \in PET, NEW e \in DE PROVE Waiting(q, e)' <=> Waiting(q, e)
    <3>1. CASE q = p
      BY <1>4, <3>1 DEF Compare, Waiting, SafeInv, UndecidedIsDenied
    <3>2. CASE q # p
      BY <1>4, <3>2 DEF Compare, Waiting
    <3> QED
      BY <3>1, <3>2
  <2> QED
    BY <1>4, <1>s, <2>1 DEF Compare
<1>5. ASSUME NEW p \in PET, Raise(p) PROVE Window!Next
  <2>0. PICK d \in DE : d = cur[p]
    OBVIOUS
  <2>1. /\ <<p, d>> \notin WaitingPairs /\ serviceMutex[d] # p
        /\ maxCount' = [maxCount EXCEPT ![d] = @ + 1]
        /\ serviceMutex' = serviceMutex
    BY <1>5, <2>0 DEF Raise, WaitingPairs, Waiting, SafeInv, OfferWithoutWindow, FlagIsOwnership
  <2>2. ASSUME NEW q \in PET, NEW e \in DE
        PROVE  Waiting(q, e)' <=> (Waiting(q, e) \/ (q = p /\ e = d))
    <3>1. CASE q = p
      BY <1>5, <2>0, <3>1 DEF Raise, Waiting, SafeInv, RaiseIsNext
    <3>2. CASE q # p
      BY <1>5, <3>2 DEF Raise, Waiting
    <3> QED
      BY <3>1, <3>2
  <2>3. WaitingPairs' = WaitingPairs \cup {<<p, d>>}
    <3>1. \A pd \in PET \X DE : pd = <<p, d>> <=> pd[1] = p /\ pd[2] = d
      OBVIOUS
    <3>2. \A pd \in PET \X DE :
            Waiting(pd[1], pd[2])' <=> (Waiting(pd[1], pd[2]) \/ pd = <<p, d>>)
      BY <2>2, <3>1
    <3>3. <<p, d>> \in PET \X DE
      OBVIOUS
    <3> QED
      BY <3>2, <3>3 DEF WaitingPairs
  <2>4. Window!Grant(p, d)
    BY <2>1, <2>3 DEF Window!Grant, WaitingPairs
  <2> QED
    BY <2>1, <2>4 DEF Window!Next
<1>6. ASSUME NEW p \in PET, UnlockOffer(p)
      PROVE  UNCHANGED <<maxCount, WaitingPairs, serviceMutex>>
  <2>1. \A q \in PET, e \in DE : Waiting(q, e)' <=> Waiting(q, e)
    <3> SUFFICES ASSUME NEW q \in PET, NEW e \in DE PROVE Waiting(q, e)' <=> Waiting(q, e)
      OBVIOUS
    <3>1. CASE q = p
      BY <1>6, <3>1 DEF UnlockOffer, Waiting
    <3>2. CASE q # p
      BY <1>6, <3>2 DEF UnlockOffer, Waiting
    <3> QED
      BY <3>1, <3>2
  <2> QED
    BY <1>6, <1>s, <2>1 DEF UnlockOffer
<1>7. ASSUME NEW p \in PET, LockService(p) PROVE Window!Next
  <2>0. PICK d \in DE : d = cur[p]
    OBVIOUS
  <2>1. /\ <<p, d>> \in WaitingPairs /\ serviceMutex[d] = NoPet
        /\ serviceMutex' = [serviceMutex EXCEPT ![d] = p]
        /\ maxCount' = maxCount
    BY <1>7, <2>0 DEF LockService, WaitingPairs, Waiting
  <2>2. ASSUME NEW q \in PET, NEW e \in DE
        PROVE  Waiting(q, e)' <=> (Waiting(q, e) /\ ~(q = p /\ e = d))
    BY <1>7, <2>0 DEF LockService, Waiting
  <2>3. WaitingPairs' = WaitingPairs \ {<<p, d>>}
    <3>1. \A pd \in PET \X DE : pd = <<p, d>> <=> pd[1] = p /\ pd[2] = d
      OBVIOUS
    <3>2. \A pd \in PET \X DE :
            Waiting(pd[1], pd[2])' <=> (Waiting(pd[1], pd[2]) /\ pd # <<p, d>>)
      BY <2>2, <3>1
    <3> QED
      BY <3>2 DEF WaitingPairs
  <2>4. Window!Open(p, d)
    BY <2>1, <2>3 DEF Window!Open, WaitingPairs
  <2> QED
    BY <2>1, <2>4 DEF Window!Next
<1>8. ASSUME NEW p \in PET, NEW d \in DE, Complete(p, d) PROVE Window!Next
  <2>1. \A pd \in PET \X DE : Waiting(pd[1], pd[2])' <=> Waiting(pd[1], pd[2])
    BY <1>8 DEF Complete, Waiting
  <2>2. Window!Close(p, d)
    BY <1>8, <2>1 DEF Complete, SafeInv, FlagIsOwnership, Window!Close
  <2> QED
    BY <2>2 DEF Window!Next
<1>9. CASE UNCHANGED vars
  BY <1>9, <1>s DEF vars, Waiting
<1> QED
  BY <1>1, <1>2, <1>3, <1>4, <1>5, <1>6, <1>7, <1>8, <1>9 DEF Next, Step

\* The work queue of a DELayout implements the abstract service windows, for any
\* number of PETs and DEs: each round is granted once and windows never overlap.
THEOREM Implementation == Spec => ImplementsWindow
<1>1. Init => Window!Init
  BY DEF Init, Window!Init, Waiting
<1> QED
  BY <1>1, StepWindow, WorkQueueInv, PTL DEF Spec, ImplementsWindow, Window!Spec
==============================================================================
