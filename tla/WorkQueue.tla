------------------------------ MODULE WorkQueue ------------------------------
(***************************************************************************)
(* The work queue of a DELayout: DELayout::serviceOffer and                *)
(* DELayout::serviceComplete, called by the PETs (threads) of a VM whose   *)
(* DEs are pinned to PETs or to virtual address spaces.                    *)
(*                                                                         *)
(* Every PET has its own DELayout object, so localServiceOfferCount and    *)
(* serviceMutexFlag are private to it; maxServiceOfferCount, one           *)
(* serviceOfferMutex and one serviceMutex per DE live in the memory the    *)
(* PETs of a VAS share.  A DE belongs to one VAS, so the shared state is   *)
(* indexed by the DE alone.                                                *)
(***************************************************************************)
EXTENDS Naturals, FiniteSets

CONSTANTS PET,        \* the PETs of the VM
          DE,         \* the DEs of the layout
          NoPet,      \* the owner of an unlocked mutex
          Vas,        \* Vas[p]: virtual address space of p
          DePet,      \* DePet[d]: the PET the DE to PET mapping gives d to
          PinToPet,   \* pinFlag is ESMF_PIN_DE_TO_PET
          MaxOffers,  \* bound: offers a PET makes for one DE
          MaxHeld     \* client rule: windows a PET may have when it offers again

ASSUME NoPetAssumption == NoPet \notin PET
ASSUME MappingAssumption == DePet \in [DE -> PET] /\ DE # {}
ASSUME BoundAssumption == MaxOffers \in Nat /\ MaxHeld \in Nat

VARIABLES pc,           \* pc[p]: where p is in serviceOffer, "idle" outside of it
          cur,          \* cur[p]: the DE of the serviceOffer call p is in
          localCount,   \* localServiceOfferCount of every PET
          maxCount,     \* maxServiceOfferCount (shared)
          offerMutex,   \* owner of serviceOfferMutex[d] (shared)
          serviceMutex, \* owner of serviceMutex[d] (shared)
          serviceFlag,  \* serviceMutexFlag of every PET
          reply,        \* the last reply serviceOffer gave to p
          granted       \* history: <<p, d, r>>, p's r-th offer for d was accepted

vars == <<pc, cur, localCount, maxCount, offerMutex, serviceMutex, serviceFlag,
          reply, granted>>

\* d is in the localDeToDeMap (pinned to PETs) and in the vasLocalDeToDeMap of p.
Eligible(p, d) == /\ PinToPet => DePet[d] = p
                  /\ Vas[DePet[d]] = Vas[p]

Held(p) == {d \in DE : serviceFlag[p][d]}

------------------------------------------------------------------------------
\* Mutants: plausible mistakes in the code below, used only to test the properties.

\* The shared counter starts below zero.
InitBelowZero == /\ pc = [p \in PET |-> "idle"]
                 /\ cur = [p \in PET |-> CHOOSE d \in DE : TRUE]
                 /\ localCount = [p \in PET |-> [d \in DE |-> 0]]
                 /\ maxCount = [d \in DE |-> 0 - 1]
                 /\ offerMutex = [d \in DE |-> NoPet]
                 /\ serviceMutex = [d \in DE |-> NoPet]
                 /\ serviceFlag = [p \in PET |-> [d \in DE |-> FALSE]]
                 /\ reply = [p \in PET |-> "DENY"]
                 /\ granted = {}

\* The offer mutex is not waited for.
LockOfferUnguarded(p) == /\ pc[p] = "lockOffer"
                         /\ offerMutex' = [offerMutex EXCEPT ![cur[p]] = p]
                         /\ pc' = [pc EXCEPT ![p] = "compare"]
                         /\ UNCHANGED <<cur, localCount, maxCount, serviceMutex,
                                        serviceFlag, reply, granted>>

\* The comparison accepts too many offers (>=) or too few (beyond the next round).
CompareWith(p, accept) == /\ pc[p] = "compare"
                          /\ reply' = [reply EXCEPT ![p] = IF accept THEN "ACCEPT" ELSE @]
                          /\ pc' = [pc EXCEPT ![p] = IF accept THEN "raise" ELSE "unlockOffer"]
                          /\ UNCHANGED <<cur, localCount, maxCount, offerMutex,
                                         serviceMutex, serviceFlag, granted>>
CompareNotStrict(p) == CompareWith(p, localCount[p][cur[p]] >= maxCount[cur[p]])
CompareTooStrict(p) == CompareWith(p, localCount[p][cur[p]] > maxCount[cur[p]] + 1)

\* The service mutex is not waited for.
LockServiceUnguarded(p) == LET d == cur[p] IN
                  /\ pc[p] = "lockService"
                  /\ serviceMutex' = [serviceMutex EXCEPT ![d] = p]
                  /\ serviceFlag' = [serviceFlag EXCEPT ![p][d] = TRUE]
                  /\ pc' = [pc EXCEPT ![p] = "idle"]
                  /\ UNCHANGED <<cur, localCount, maxCount, offerMutex, reply, granted>>

\* serviceOffer returns with the offer mutex still locked.
UnlockOfferForgotten(p) == /\ pc[p] = "unlockOffer"
                           /\ pc' = [pc EXCEPT ![p] = IF reply[p] = "ACCEPT"
                                                      THEN "lockService" ELSE "idle"]
                           /\ UNCHANGED <<cur, localCount, maxCount, offerMutex,
                                          serviceMutex, serviceFlag, reply, granted>>

\* serviceComplete forgets to take the flag down.
CompleteKeepsFlag(p, d) == /\ pc[p] = "idle" /\ Eligible(p, d) /\ serviceFlag[p][d]
                           /\ serviceMutex' = [serviceMutex EXCEPT ![d] = NoPet]
                           /\ UNCHANGED <<pc, cur, localCount, maxCount, offerMutex,
                                          serviceFlag, reply, granted>>
------------------------------------------------------------------------------

Init == /\ pc = [p \in PET |-> "idle"]
        /\ cur = [p \in PET |-> CHOOSE d \in DE : TRUE]
        /\ localCount = [p \in PET |-> [d \in DE |-> 0]]
        /\ maxCount = [d \in DE |-> 0]
        /\ offerMutex = [d \in DE |-> NoPet]
        /\ serviceMutex = [d \in DE |-> NoPet]
        /\ serviceFlag = [p \in PET |-> [d \in DE |-> FALSE]]
        /\ reply = [p \in PET |-> "DENY"]
        /\ granted = {}

------------------------------------------------------------------------------
\* serviceOffer(d) by p, up to the lock of serviceOfferMutex.
Offer(p, d) == /\ pc[p] = "idle"
               /\ ~serviceFlag[p][d] /\ Cardinality(Held(p)) < MaxHeld
               /\ localCount[p][d] < MaxOffers
               /\ Eligible(p, d)
               /\ localCount' = [localCount EXCEPT ![p][d] = @ + 1]
               /\ cur' = [cur EXCEPT ![p] = d]
               /\ reply' = [reply EXCEPT ![p] = "DENY"]
               /\ pc' = [pc EXCEPT ![p] = "lockOffer"]
               /\ UNCHANGED <<maxCount, offerMutex, serviceMutex, serviceFlag, granted>>

\* serviceOffer(d) for a DE p may not service: ESMC_RC_ARG_WRONG, denied.
Refuse(p, d) == /\ pc[p] = "idle"
                /\ ~Eligible(p, d)
                /\ reply' = [reply EXCEPT ![p] = "DENY"]
                /\ UNCHANGED <<pc, cur, localCount, maxCount, offerMutex,
                               serviceMutex, serviceFlag, granted>>

LockOffer(p) == /\ pc[p] = "lockOffer"
                /\ offerMutex[cur[p]] = NoPet
                /\ offerMutex' = [offerMutex EXCEPT ![cur[p]] = p]
                /\ pc' = [pc EXCEPT ![p] = "compare"]
                /\ UNCHANGED <<cur, localCount, maxCount, serviceMutex, serviceFlag,
                               reply, granted>>

\* The read of maxServiceOfferCount ...
Compare(p) == LET d == cur[p] IN
              /\ pc[p] = "compare"
              /\ IF localCount[p][d] > maxCount[d]
                 THEN /\ reply' = [reply EXCEPT ![p] = "ACCEPT"]
                      /\ pc' = [pc EXCEPT ![p] = "raise"]
                 ELSE /\ pc' = [pc EXCEPT ![p] = "unlockOffer"]
                      /\ UNCHANGED reply
              /\ UNCHANGED <<cur, localCount, maxCount, offerMutex, serviceMutex,
                             serviceFlag, granted>>

\* ... and the write that accepts the offer.
Raise(p) == LET d == cur[p] IN
            /\ pc[p] = "raise"
            /\ maxCount' = [maxCount EXCEPT ![d] = @ + 1]
            /\ granted' = granted \cup {<<p, d, localCount[p][d]>>}
            /\ pc' = [pc EXCEPT ![p] = "unlockOffer"]
            /\ UNCHANGED <<cur, localCount, offerMutex, serviceMutex, serviceFlag, reply>>

UnlockOffer(p) == /\ pc[p] = "unlockOffer"
                  /\ offerMutex' = [offerMutex EXCEPT ![cur[p]] = NoPet]
                  /\ pc' = [pc EXCEPT ![p] = IF reply[p] = "ACCEPT"
                                             THEN "lockService" ELSE "idle"]
                  /\ UNCHANGED <<cur, localCount, maxCount, serviceMutex, serviceFlag,
                                 reply, granted>>

\* The accepted PET opens its window; the flag is private, so lock and flag are one step.
LockService(p) == LET d == cur[p] IN
                  /\ pc[p] = "lockService"
                  /\ serviceMutex[d] = NoPet
                  /\ serviceMutex' = [serviceMutex EXCEPT ![d] = p]
                  /\ serviceFlag' = [serviceFlag EXCEPT ![p][d] = TRUE]
                  /\ pc' = [pc EXCEPT ![p] = "idle"]
                  /\ UNCHANGED <<cur, localCount, maxCount, offerMutex, reply, granted>>

\* serviceComplete(d) by p; for a window p does not hold it returns
\* ESMC_RC_NOT_VALID (or ESMC_RC_ARG_WRONG) and changes nothing.
Complete(p, d) == /\ pc[p] = "idle"
                  /\ Eligible(p, d) /\ serviceFlag[p][d]
                  /\ serviceMutex' = [serviceMutex EXCEPT ![d] = NoPet]
                  /\ serviceFlag' = [serviceFlag EXCEPT ![p][d] = FALSE]
                  /\ UNCHANGED <<pc, cur, localCount, maxCount, offerMutex, reply, granted>>

------------------------------------------------------------------------------
\* The rest of a serviceOffer that has begun, and the completion its client owes.
Step(p) == \/ LockOffer(p) \/ Compare(p) \/ Raise(p) \/ UnlockOffer(p) \/ LockService(p)
           \/ \E d \in DE : Complete(p, d)

Next == \E p \in PET : \/ Step(p)
                       \/ \E d \in DE : Offer(p, d) \/ Refuse(p, d)

Spec == Init /\ [][Next]_vars

\* A PET inside a call runs on, and a PET that was accepted calls
\* serviceComplete; nothing forces a PET to make an offer.
FairSpec == Spec /\ \A p \in PET : WF_vars(Step(p))

------------------------------------------------------------------------------
\* The type invariant: control points, counters and flags stay in the ranges the code can
\* give them.
TypeOK == /\ pc \in [PET -> {"idle", "lockOffer", "compare", "raise",
                             "unlockOffer", "lockService"}]
          /\ cur \in [PET -> DE]
          /\ localCount \in [PET -> [DE -> Nat]]
          /\ maxCount \in [DE -> Nat]
          /\ offerMutex \in [DE -> PET \cup {NoPet}]
          /\ serviceMutex \in [DE -> PET \cup {NoPet}]
          /\ serviceFlag \in [PET -> [DE -> BOOLEAN]]
          /\ reply \in [PET -> {"ACCEPT", "DENY"}]
          /\ granted \subseteq PET \X DE \X Nat

\* p is between its lock and its unlock of serviceOfferMutex[d].
Deciding(p, d) == cur[p] = d /\ pc[p] \in {"compare", "raise", "unlockOffer"}

\* p was accepted for d and has not got the window yet.
Waiting(p, d) == /\ cur[p] = d
                 /\ \/ pc[p] = "lockService"
                    \/ pc[p] = "unlockOffer" /\ reply[p] = "ACCEPT"

\* An increment of the offers for a DE (a round) is accepted for one PET only,
\* whatever the interleaving of the offers (ESMF_DELayout.F90, ServiceOffer).
OneGrantPerRound == \A g, h \in granted : g[2] = h[2] /\ g[3] = h[3] => g = h

\* The rounds of a DE that were granted are exactly 1 .. maxServiceOfferCount:
\* the counter never skips a round and never runs ahead of the offers.
RoundsAreContiguous ==
  \A d \in DE : {g[3] : g \in {h \in granted : h[2] = d}} = 1 .. maxCount[d]

\* When an offer has been answered, accepted or denied, its round has been given
\* to some PET: a denied PET may skip the work because somebody does it.
AnsweredRoundIsGranted ==
  \A p \in PET, d \in DE :
    (pc[p] \in {"idle", "lockService"} \/ cur[p] # d) /\ localCount[p][d] > 0
      => \E q \in PET : <<q, d, localCount[p][d]>> \in granted

\* The flag that lets serviceComplete unlock says exactly who locked the window:
\* no PET ever unlocks the service mutex of another one, and windows never overlap.
FlagIsOwnership ==
  \A d \in DE, p \in PET : serviceFlag[p][d] <=> serviceMutex[d] = p

\* PETs that wait for each other's windows: each waits for a DE whose window another one
\* of them (or it itself) has.
Circle == \E S \in SUBSET PET \ {{}} :
            \A p \in S : pc[p] = "lockService" /\ serviceMutex[cur[p]] \in S

\* Every serviceOffer returns, and every accepted PET gets its window, unless clients
\* that offer while they have windows form a circle; nothing else can block an offer.
OfferReturns == \A p \in PET : pc[p] # "idle" ~> pc[p] = "idle" \/ Circle

\* The abstract work queue this one implements.
Window == INSTANCE ServiceWindow WITH
            round <- maxCount,
            pending <- {pd \in PET \X DE : Waiting(pd[1], pd[2])},
            window <- serviceMutex

\* WorkQueue implements ServiceWindow: rounds granted once, windows disjoint.
ImplementsWindow == Window!Spec
==============================================================================
