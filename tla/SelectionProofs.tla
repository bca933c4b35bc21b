--------------------------- MODULE SelectionProofs ---------------------------
(***************************************************************************)
(* What _select_machine returns, for every fleet and every order of ids:   *)
(* a candidate that goes before every other one, whenever there is one.    *)
(***************************************************************************)
EXTENDS Selection, FiniteSetTheorems, WellFoundedInduction, TLAPS

Fleets == [Machines -> MachineRecords \cup {NoRecord}]

LEMMA CandidatesAreHeard ==
  ASSUME NEW fleet \in Fleets, NEW wanted
  PROVE  /\ Candidates(fleet, wanted) \subseteq Machines
         /\ \A m \in Candidates(fleet, wanted) :
              /\ fleet[m] \in MachineRecords
              /\ fleet[m].msg.battery \in Nat \cup {Mains}
<1>1. ASSUME NEW m \in Candidates(fleet, wanted)
      PROVE  m \in Machines /\ fleet[m] # NoRecord
  BY DEF Candidates, Capable, Heard
<1>2. ASSUME NEW m \in Machines, fleet[m] # NoRecord
      PROVE  fleet[m] \in MachineRecords /\ fleet[m].msg.battery \in Nat \cup {Mains}
  <2>1. fleet[m] \in MachineRecords  BY <1>2 DEF Fleets
  <2>2. fleet[m].msg \in Messages    BY <2>1 DEF MachineRecords
  <2> QED  BY <2>1, <2>2 DEF Messages
<1> QED  BY <1>1, <1>2

\* The order in which candidates are sorted is strict and total.
LEMMA PrecedesIsStrictOrder ==
  ASSUME NEW fleet, NEW S, S \subseteq Machines,
         \A m \in S : fleet[m].msg.battery \in Nat \cup {Mains}
  PROVE  /\ \A m \in S : ~Precedes(fleet, m, m)
         /\ \A m, n \in S : m # n => Precedes(fleet, m, n) \/ Precedes(fleet, n, m)
         /\ \A m, n, k \in S :
              Precedes(fleet, m, n) /\ Precedes(fleet, n, k) => Precedes(fleet, m, k)
<1> USE SelectionAssumption
<1>1. \A m \in S : Place[m] \in Nat  OBVIOUS
<1>2. \A m, n \in S : m # n => Place[m] # Place[n]  OBVIOUS
<1>3. Mains \notin Nat  OBVIOUS
<1> DEFINE b(m) == fleet[m].msg.battery
<1>4. \A m \in S : b(m) \in Nat \/ b(m) = Mains  OBVIOUS
<1>5. \A m, n \in S : Precedes(fleet, m, n) <=>
        \/ b(m) = Mains /\ b(n) # Mains
        \/ b(m) # Mains /\ b(n) # Mains /\ b(m) > b(n)
        \/ b(m) = b(n) /\ Place[m] < Place[n]
  BY DEF Precedes
<1> HIDE DEF b
<1> HIDE SelectionAssumption
<1>6. \A m \in S : ~Precedes(fleet, m, m)  BY <1>1, <1>3, <1>4, <1>5
<1>7. \A m, n \in S : m # n => Precedes(fleet, m, n) \/ Precedes(fleet, n, m)
  BY <1>1, <1>2, <1>3, <1>4, <1>5
<1>8. \A m, n, k \in S :
        Precedes(fleet, m, n) /\ Precedes(fleet, n, k) => Precedes(fleet, m, k)
  BY <1>1, <1>3, <1>4, <1>5
<1> QED  BY <1>6, <1>7, <1>8

\* Finitely many candidates have a first one: take one with the fewest before it.
LEMMA FirstCandidateExists ==
  ASSUME NEW fleet, NEW S, S \subseteq Machines, S # {},
         \A m \in S : fleet[m].msg.battery \in Nat \cup {Mains}
  PROVE  \E m \in S : \A n \in S \ {m} : Precedes(fleet, m, n)
<1> DEFINE Before(m) == {n \in S : Precedes(fleet, n, m)}
           Befores   == {Before(m) : m \in S}
<1>1. IsFiniteSet(S)  BY SelectionAssumption, FS_Subset
<1>2. IsWellFoundedOn(StrictSubsetOrdering(S), SUBSET S)
  BY <1>1, FS_StrictSubsetOrderingWellFounded, FS_FiniteSubsetsOfFinite
<1>3. Befores \subseteq SUBSET S /\ Befores # {}  OBVIOUS
<1>4. PICK least \in Befores : \A other \in Befores : <<other, least>> \notin StrictSubsetOrdering(S)
  <2> HIDE DEF Befores
  <2> QED  BY <1>2, <1>3, WFMin
<1>5. PICK m \in S : least = Before(m)  BY <1>4
<1>6. ASSUME NEW n \in S, Precedes(fleet, n, m)  PROVE FALSE
  <2>1. n \in Before(m) /\ n \notin Before(n)  BY <1>6, PrecedesIsStrictOrder
  <2>2. Before(n) \subseteq Before(m)  BY <1>6, PrecedesIsStrictOrder
  <2>3. <<Before(n), Before(m)>> \in StrictSubsetOrdering(S)
    BY <2>1, <2>2 DEF StrictSubsetOrdering
  <2> QED  BY <1>4, <1>5, <2>3
<1>7. \A n \in S \ {m} : Precedes(fleet, m, n)  BY <1>6, PrecedesIsStrictOrder
<1> QED  BY <1>7

\* _select_machine returns nothing exactly when no machine is fit, and otherwise
\* the one fit machine that goes before every other: none has more battery, mains
\* power beats any, and no two fit machines are both first.
THEOREM SelectionIsBest ==
  ASSUME NEW fleet \in Fleets, NEW wanted
  PROVE  LET chosen == SelectMachine(fleet, wanted)
             fit    == Candidates(fleet, wanted)
         IN  /\ chosen = NoMachine <=> fit = {}
             /\ fit # {} =>
                  /\ chosen \in fit
                  /\ \A m \in fit \ {chosen} :
                       Precedes(fleet, chosen, m) /\ ~Precedes(fleet, m, chosen)
<1> DEFINE fit == Candidates(fleet, wanted)
           chosen == SelectMachine(fleet, wanted)
<1>1. /\ fit \subseteq Machines
      /\ \A m \in fit : fleet[m].msg.battery \in Nat \cup {Mains}
  BY CandidatesAreHeard
<1>2. fit = {} => chosen = NoMachine  BY DEF SelectMachine
<1>3. ASSUME fit # {}
      PROVE  chosen \in fit /\ \A m \in fit \ {chosen} : Precedes(fleet, chosen, m)
  <2>1. \E m \in fit : \A n \in fit \ {m} : Precedes(fleet, m, n)
    <3> HIDE DEF fit
    <3> QED  BY <1>1, <1>3, FirstCandidateExists
  <2>2. chosen = CHOOSE m \in fit : \A n \in fit \ {m} : Precedes(fleet, m, n)
    BY <1>3 DEF SelectMachine
  <2> HIDE DEF chosen
  <2> QED  BY <2>1, <2>2
<1>4. ASSUME fit # {}, NEW m \in fit \ {chosen}  PROVE ~Precedes(fleet, m, chosen)
  <2> HIDE DEF fit, chosen
  <2>1. chosen \in fit /\ Precedes(fleet, chosen, m)  BY <1>3, <1>4
  <2> QED  BY <1>1, <1>4, <2>1, PrecedesIsStrictOrder
<1>5. fit # {} => chosen # NoMachine  BY <1>1, <1>3, MachinesAssumption
<1> QED  BY <1>2, <1>3, <1>4, <1>5

\* What a caller of dispatch_mission relies on, in terms of what the machines have
\* said: the chosen one has the capability, is in touch, ONLINE, AVAILABLE and
\* charged; "no_machine_with_capability" is the answer exactly when nobody that
\* was heard has it; and "no_available_machine" when somebody has it, and each of
\* those is silent, not ONLINE, not AVAILABLE or short of battery.
THEOREM SelectionIsFit ==
  ASSUME NEW fleet \in Fleets, NEW wanted
  PROVE  LET chosen == SelectMachine(fleet, wanted)
             reason == Refusal(fleet, wanted)
             having == {m \in Machines :
                          fleet[m] # NoRecord /\ wanted \in fleet[m].msg.capabilities}
         IN  /\ chosen \in Machines =>
                  /\ chosen \in having
                  /\ ~fleet[chosen].lapsed
                  /\ fleet[chosen].msg.connection = "ONLINE"
                  /\ fleet[chosen].msg.state = "AVAILABLE"
                  /\ \/ fleet[chosen].msg.battery = Mains
                     \/ /\ fleet[chosen].msg.battery \in Nat
                        /\ fleet[chosen].msg.battery >= MinBattery
             /\ chosen \notin Machines => chosen = NoMachine
             /\ reason = "no_machine_with_capability" <=> having = {}
             /\ chosen = NoMachine /\ reason = "no_available_machine" <=>
                  /\ having # {}
                  /\ \A m \in having :
                       \/ fleet[m].lapsed
                       \/ fleet[m].msg.connection # "ONLINE"
                       \/ fleet[m].msg.state # "AVAILABLE"
                       \/ /\ fleet[m].msg.battery \in Nat
                          /\ fleet[m].msg.battery < MinBattery
<1> DEFINE chosen == SelectMachine(fleet, wanted)
           having == {m \in Machines :
                        fleet[m] # NoRecord /\ wanted \in fleet[m].msg.capabilities}
           fit    == Candidates(fleet, wanted)
<1>1. Capable(fleet, wanted) = having  BY DEF Capable, Heard
<1>2. \A m \in having : fleet[m].msg.battery \in Nat \cup {Mains}
  <2> SUFFICES ASSUME NEW m \in Machines, fleet[m] # NoRecord
               PROVE  fleet[m].msg.battery \in Nat \cup {Mains}
    OBVIOUS
  <2>1. fleet[m] \in MachineRecords  BY DEF Fleets
  <2>2. fleet[m].msg \in Messages  BY <2>1 DEF MachineRecords
  <2> QED  BY <2>2 DEF Messages
<1>3. fit = {m \in having : Eligible(fleet, m)}  BY <1>1 DEF Candidates
<1>4. /\ fit # {} => chosen \in fit
      /\ fit = {} => chosen = NoMachine
  BY SelectionIsBest
<1>5. NoMachine \notin Machines  BY MachinesAssumption
<1>6. Refusal(fleet, wanted) =
        IF having = {} THEN "no_machine_with_capability" ELSE "no_available_machine"
  BY <1>1 DEF Refusal
<1>7. \A m \in having : Eligible(fleet, m) <=>
        /\ ~fleet[m].lapsed
        /\ fleet[m].msg.connection = "ONLINE"
        /\ fleet[m].msg.state = "AVAILABLE"
        /\ \/ fleet[m].msg.battery = Mains
           \/ fleet[m].msg.battery \in Nat /\ fleet[m].msg.battery >= MinBattery
  BY <1>2 DEF Eligible
<1>8. \A m \in having :
        ~(fleet[m].msg.battery = Mains \/ (fleet[m].msg.battery \in Nat /\ fleet[m].msg.battery >= MinBattery))
          <=> fleet[m].msg.battery \in Nat /\ fleet[m].msg.battery < MinBattery
  BY <1>2, SelectionAssumption
<1>9. fit \subseteq Machines  BY <1>3
<1> HIDE DEF chosen, having, fit
<1>10. chosen \in Machines => chosen \in fit  BY <1>4, <1>5
<1>11. chosen \notin Machines => chosen = NoMachine  BY <1>4, <1>9
<1>12. chosen = NoMachine <=> fit = {}  BY <1>4, <1>5, <1>9
<1>13. fit = {} <=> \A m \in having :
          \/ fleet[m].lapsed
          \/ fleet[m].msg.connection # "ONLINE"
          \/ fleet[m].msg.state # "AVAILABLE"
          \/ fleet[m].msg.battery \in Nat /\ fleet[m].msg.battery < MinBattery
  BY <1>3, <1>7, <1>8
<1> QED
  BY <1>3, <1>6, <1>7, <1>10, <1>11, <1>12, <1>13 DEF chosen, having
=============================================================================
