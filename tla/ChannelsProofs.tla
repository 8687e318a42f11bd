--------------------------- MODULE ChannelsProofs ---------------------------
(***************************************************************************)
(* Proofs that busy channels never share a port nor started ones a         *)
(* destination, and that none starts once the server is closing, for any   *)
(* number of channels, of Handler threads and of profiles.                 *)
(***************************************************************************)
EXTENDS Channels, TLAPS, WellFoundedInduction

USE DEF memory, locks, requests

\* A panel that is being saved is at rest, and stays so: to start it takes the lock.
SavesAtRest ==
    \A t \in Clients : pc[t] \in {"writing", "written"} => op[chan[t]] = "none"

\* A panel that is asked to start is registered, as is one that is busy.
BusyIsRegistered == \A c \in Ids : op[c] # "none" => c \in registered
AskedIsRegistered ==
    \A t \in Clients : pc[t] \in {"arrived", "own", "check"} => chan[t] \in registered

\* What the loop of an action() has visited still does not conflict with it.
Checked(t) ==
    \A o \in registered \ {chan[t]} : o \in left[t] \/ ~Conflict(chan[t], o, kind[t])
ChecksHold == \A t \in Clients : pc[t] = "check" => Checked(t)
AsksToRun == \A t \in Clients : pc[t] \in {"own", "check"} => kind[t] \in {"probe", "start"}

\* Only the main thread closes, only the others serve, and none of them is
\* between its checks once it has set closing.
Roles ==
    /\ pc[Boss] \in {"idle", "marking", "closed"}
    /\ \A t \in Clients : pc[t] \notin {"marking", "closed"}
NoneOnceClosing == closing => \A t \in Clients : pc[t] \notin {"own", "check"}

\* A channel that is being created is not registered yet.
CreatesUnused == \A t \in Clients : pc[t] \in {"creating", "created"} => chan[t] \notin registered

\* While there is no server there is nothing but its disk.
Down == ~up => /\ \A t \in Threads : pc[t] = "idle"
               /\ \A c \in Ids : op[c] = "none"

Exclusive == InputsDisjoint /\ OutputsDistinct

ChannelsInv ==
    /\ TypeOK
    /\ SavesAtRest /\ BusyIsRegistered /\ AskedIsRegistered
    /\ ChecksHold /\ AsksToRun /\ Roles /\ NoneOnceClosing /\ Down /\ CreatesUnused
    /\ Exclusive

-----------------------------------------------------------------------------
\* The CHOOSE of CreateBegin finds an identifier.
LEMMA LeastUnused ==
    ASSUME Unused # {}
    PROVE  (CHOOSE c \in Unused : \A d \in Unused : c <= d) \in Unused
<1> DEFINE R == OpToRel(<, Nat)
<1>1. Unused \subseteq Nat /\ Unused \subseteq Ids
  BY ChannelsAssumption DEF Unused, Ids
<1>2. IsWellFoundedOn(R, Nat)
  BY NatLessThanWellFounded
<1>3. \A c \in Nat, d \in Nat : d < c => <<d, c>> \in R
  BY DEF OpToRel
<1> HIDE DEF R
<1>4. PICK c \in Unused : \A d \in Unused : <<d, c>> \notin R
  BY <1>1, <1>2, WFMin
<1>5. ASSUME NEW d \in Unused PROVE c <= d
  <2>1. c \in Nat /\ d \in Nat
    BY <1>1
  <2>2. ~ (d < c)
    BY <2>1, <1>3, <1>4
  <2> QED  BY <2>1, <2>2
<1> QED  BY <1>5

\* The values of the variables keep their types.
LEMMA ServerTypeStep ==
    ASSUME StateType, AsksToRun, [Next]_vars
    PROVE  ServerType'
<1> USE ChannelsAssumption DEF StateType, ServerType, ThreadType, Kinds, Threads, Main, None,
      Boss, Ids
<1>1. ASSUME NEW t \in Clients, NEW c \in Ids, NEW k \in Kinds, NEW p \in Profiles, Arrive(t, c,
      k, p)
      PROVE  ServerType'
  BY <1>1 DEF Arrive, GoTo
<1>2. ASSUME NEW t \in Clients, Refuse(t)
      PROVE  ServerType'
  BY <1>2 DEF Refuse, Answer, Forget, GoTo
<1>3. ASSUME NEW t \in Clients, ActionBegin(t)
      PROVE  ServerType'
  BY <1>3 DEF ActionBegin, GoTo, SameRequest
<1>4. ASSUME NEW t \in Clients, ActionLocks(t)
      PROVE  ServerType'
  BY <1>4 DEF ActionLocks, Take, GoTo, Visits, SameRequest
<1>5. ASSUME NEW t \in Clients, ActionEnd(t)
      PROVE  ServerType'
  <2>1. chan[t] \in Ids /\ kind[t] \in {"probe", "start"}
    BY <1>5 DEF AsksToRun, ActionEnd
  <2>2. op' = op \/ op' = [op EXCEPT ![chan[t]] = kind[t]]
    BY <1>5 DEF ActionEnd
  <2>3. op \in [Ids -> {"none", "probe", "start"}]
    OBVIOUS
  <2>4. op' \in [Ids -> {"none", "probe", "start"}]
    BY ONLY <2>1, <2>2, <2>3
  <2> QED  BY <1>5, <2>4 DEF ActionEnd
<1>6. ASSUME NEW t \in Clients, NEW o \in Ids, ActionChecks(t, o)
      PROVE  ServerType'
  BY <1>6 DEF ActionChecks, Leave, Answer, Forget, GoTo, Free, Visits
<1>7. ASSUME NEW t \in Clients, SaveBegin(t)
      PROVE  ServerType'
  BY <1>7 DEF SaveBegin, Take, GoTo, SameRequest
<1>8. ASSUME NEW t \in Clients, SaveReplace(t)
      PROVE  ServerType'
  BY <1>8 DEF SaveReplace, GoTo, SameRequest
<1>9. ASSUME NEW t \in Clients, SaveFails(t)
      PROVE  ServerType'
  BY <1>9 DEF SaveFails, Free, Answer, Forget, GoTo
<1>10. ASSUME NEW t \in Clients, SaveEnd(t)
      PROVE  ServerType'
  BY <1>10 DEF SaveEnd, Free, Answer, Forget, GoTo
<1>11. ASSUME NEW t \in Clients, CreateBegin(t)
      PROVE  ServerType'
  BY <1>11 DEF CreateBegin, GoTo
<1>12. ASSUME NEW t \in Clients, CreateSaves(t)
      PROVE  ServerType'
  BY <1>12 DEF CreateSaves, GoTo, SameRequest
<1>13. ASSUME NEW t \in Clients, CreateFails(t)
      PROVE  ServerType'
  BY <1>13 DEF CreateFails, Leave, Answer, Forget, GoTo
<1>14. ASSUME NEW t \in Clients, CreateEnd(t)
      PROVE  ServerType'
  BY <1>14 DEF CreateEnd, Leave, Answer, Forget, GoTo
<1>15. ASSUME NEW c \in Ids, ComesToRest(c)
      PROVE  ServerType'
  BY <1>15 DEF ComesToRest
<1>16. CASE Interrupt
  BY <1>16 DEF Interrupt
<1>17. CASE CloseBegin
  BY <1>17 DEF CloseBegin, GoTo, Visits, SameRequest
<1>18. CASE CloseReleases
  BY <1>18 DEF CloseReleases, GoTo, SameRequest
<1>19. CASE CloseEnd
  BY <1>19 DEF CloseEnd, Gone
<1>20. ASSUME NEW c \in Ids, CloseMarks(c)
      PROVE  ServerType'
  BY <1>20 DEF CloseMarks, Visits, SameRequest
<1>21. CASE Killed
  BY <1>21 DEF Killed, Gone
<1>22. CASE Starts
  BY <1>22 DEF Starts
<1>23. CASE UNCHANGED vars
  BY <1>23 DEF vars
<1> HIDE DEF StateType, ServerType, ThreadType, Kinds, Threads, Main, None, Boss, Ids
<1> QED
  BY <1>1, <1>2, <1>3, <1>4, <1>5, <1>6, <1>7, <1>8, <1>9, <1>10, <1>11, <1>12, <1>13,
     <1>14, <1>15, <1>16, <1>17, <1>18, <1>19, <1>20, <1>21, <1>22, <1>23
     DEF Next, Serves, Closes


LEMMA ThreadTypeStep ==
    ASSUME StateType, [Next]_vars
    PROVE  ThreadType'
<1> USE ChannelsAssumption DEF StateType, ServerType, ThreadType, Points, Kinds, Threads, Main,
      None, Boss, Ids
<1>1. ASSUME NEW t \in Clients, NEW c \in Ids, NEW k \in Kinds, NEW p \in Profiles, Arrive(t, c,
      k, p)
      PROVE  ThreadType'
  BY <1>1 DEF Arrive, GoTo
<1>2. ASSUME NEW t \in Clients, Refuse(t)
      PROVE  ThreadType'
  BY <1>2 DEF Refuse, Answer, Forget, GoTo
<1>3. ASSUME NEW t \in Clients, ActionBegin(t)
      PROVE  ThreadType'
  BY <1>3 DEF ActionBegin, GoTo, SameRequest
<1>4. ASSUME NEW t \in Clients, ActionLocks(t)
      PROVE  ThreadType'
  BY <1>4 DEF ActionLocks, Take, GoTo, Visits, SameRequest
<1>5. ASSUME NEW t \in Clients, ActionEnd(t)
      PROVE  ThreadType'
  BY <1>5 DEF ActionEnd, Leave, Answer, Forget, GoTo, Free
<1>6. ASSUME NEW t \in Clients, NEW o \in Ids, ActionChecks(t, o)
      PROVE  ThreadType'
  <2>1. CASE Conflict(chan[t], o, kind[t])
    <3>1. Leave(t) /\ Free(chan[t])
      BY <1>6, <2>1 DEF ActionChecks
    <3> QED  BY <3>1 DEF Leave, Answer, Forget, GoTo, Free
  <2>2. CASE ~Conflict(chan[t], o, kind[t])
    <3>1. Visits(t, left[t] \ {o}) /\ UNCHANGED <<pc, chan, kind, draft, locks>>
      BY <1>6, <2>2 DEF ActionChecks
    <3> QED  BY <3>1 DEF Visits
  <2> QED  BY <2>1, <2>2
<1>7. ASSUME NEW t \in Clients, SaveBegin(t)
      PROVE  ThreadType'
  BY <1>7 DEF SaveBegin, Take, GoTo, SameRequest
<1>8. ASSUME NEW t \in Clients, SaveReplace(t)
      PROVE  ThreadType'
  BY <1>8 DEF SaveReplace, GoTo, SameRequest
<1>9. ASSUME NEW t \in Clients, SaveFails(t)
      PROVE  ThreadType'
  BY <1>9 DEF SaveFails, Free, Answer, Forget, GoTo
<1>10. ASSUME NEW t \in Clients, SaveEnd(t)
      PROVE  ThreadType'
  BY <1>10 DEF SaveEnd, Free, Answer, Forget, GoTo
<1>11. ASSUME NEW t \in Clients, CreateBegin(t)
      PROVE  ThreadType'
  BY <1>11, LeastUnused DEF Unused, CreateBegin, GoTo
<1>12. ASSUME NEW t \in Clients, CreateSaves(t)
      PROVE  ThreadType'
  BY <1>12 DEF CreateSaves, GoTo, SameRequest
<1>13. ASSUME NEW t \in Clients, CreateFails(t)
      PROVE  ThreadType'
  BY <1>13 DEF CreateFails, Leave, Answer, Forget, GoTo
<1>14. ASSUME NEW t \in Clients, CreateEnd(t)
      PROVE  ThreadType'
  BY <1>14 DEF CreateEnd, Leave, Answer, Forget, GoTo
<1>15. ASSUME NEW c \in Ids, ComesToRest(c)
      PROVE  ThreadType'
  BY <1>15 DEF ComesToRest
<1>16. CASE Interrupt
  BY <1>16 DEF Interrupt
<1>17. CASE CloseBegin
  BY <1>17 DEF CloseBegin, GoTo, Visits, SameRequest
<1>18. CASE CloseReleases
  BY <1>18 DEF CloseReleases, GoTo, SameRequest
<1>19. CASE CloseEnd
  BY <1>19 DEF CloseEnd, Gone
<1>20. ASSUME NEW c \in Ids, CloseMarks(c)
      PROVE  ThreadType'
  BY <1>20 DEF CloseMarks, Visits, SameRequest
<1>21. CASE Killed
  BY <1>21 DEF Killed, Gone
<1>22. CASE Starts
  BY <1>22 DEF Starts
<1>23. CASE UNCHANGED vars
  BY <1>23 DEF vars
<1> HIDE DEF StateType, ServerType, ThreadType, Points, Kinds, Threads, Main, None, Boss, Ids
<1> QED
  BY <1>1, <1>2, <1>3, <1>4, <1>5, <1>6, <1>7, <1>8, <1>9, <1>10, <1>11, <1>12, <1>13,
     <1>14, <1>15, <1>16, <1>17, <1>18, <1>19, <1>20, <1>21, <1>22, <1>23
     DEF Next, Serves, Closes

\* A lock is taken only when it is free, and given up only by its holder.
LEMMA LocksStep ==
    ASSUME StateType, HoldsItsLocks, Roles, [Next]_vars
    PROVE  (HoldsItsLocks /\ Roles)'
<1> USE ChannelsAssumption DEF StateType, ThreadType, HoldsItsLocks, Roles, Threads,
      InsideChannels, InsidePanel, None, Boss, Points
<1>1. ASSUME NEW t \in Clients, NEW c \in Ids, NEW k \in Kinds, NEW p \in Profiles, Arrive(t, c,
      k, p)
      PROVE  (HoldsItsLocks /\ Roles)'
  BY <1>1 DEF Arrive, GoTo
<1>2. ASSUME NEW t \in Clients, Refuse(t)
      PROVE  (HoldsItsLocks /\ Roles)'
  BY <1>2 DEF Refuse, Answer, Forget, GoTo
<1>3. ASSUME NEW t \in Clients, ActionBegin(t)
      PROVE  (HoldsItsLocks /\ Roles)'
  BY <1>3 DEF ActionBegin, GoTo, SameRequest
<1>4. ASSUME NEW t \in Clients, ActionLocks(t)
      PROVE  (HoldsItsLocks /\ Roles)'
  BY <1>4 DEF ActionLocks, Take, GoTo, Visits, SameRequest
<1>5. ASSUME NEW t \in Clients, ActionEnd(t)
      PROVE  (HoldsItsLocks /\ Roles)'
  BY <1>5 DEF ActionEnd, Leave, Answer, Forget, GoTo, Free
<1>6. ASSUME NEW t \in Clients, NEW o \in Ids, ActionChecks(t, o)
      PROVE  (HoldsItsLocks /\ Roles)'
  BY <1>6 DEF ActionChecks, Leave, Answer, Forget, GoTo, Free, Visits
<1>7. ASSUME NEW t \in Clients, SaveBegin(t)
      PROVE  (HoldsItsLocks /\ Roles)'
  BY <1>7 DEF SaveBegin, Take, GoTo, SameRequest
<1>8. ASSUME NEW t \in Clients, SaveReplace(t)
      PROVE  (HoldsItsLocks /\ Roles)'
  BY <1>8 DEF SaveReplace, GoTo, SameRequest
<1>9. ASSUME NEW t \in Clients, SaveFails(t)
      PROVE  (HoldsItsLocks /\ Roles)'
  BY <1>9 DEF SaveFails, Free, Answer, Forget, GoTo
<1>10. ASSUME NEW t \in Clients, SaveEnd(t)
      PROVE  (HoldsItsLocks /\ Roles)'
  BY <1>10 DEF SaveEnd, Free, Answer, Forget, GoTo
<1>11. ASSUME NEW t \in Clients, CreateBegin(t)
      PROVE  (HoldsItsLocks /\ Roles)'
  BY <1>11 DEF CreateBegin, GoTo
<1>12. ASSUME NEW t \in Clients, CreateSaves(t)
      PROVE  (HoldsItsLocks /\ Roles)'
  BY <1>12 DEF CreateSaves, GoTo, SameRequest
<1>13. ASSUME NEW t \in Clients, CreateFails(t)
      PROVE  (HoldsItsLocks /\ Roles)'
  BY <1>13 DEF CreateFails, Leave, Answer, Forget, GoTo
<1>14. ASSUME NEW t \in Clients, CreateEnd(t)
      PROVE  (HoldsItsLocks /\ Roles)'
  BY <1>14 DEF CreateEnd, Leave, Answer, Forget, GoTo
<1>15. ASSUME NEW c \in Ids, ComesToRest(c)
      PROVE  (HoldsItsLocks /\ Roles)'
  BY <1>15 DEF ComesToRest
<1>16. CASE Interrupt
  BY <1>16 DEF Interrupt
<1>17. CASE CloseBegin
  BY <1>17 DEF CloseBegin, GoTo, Visits, SameRequest
<1>18. CASE CloseReleases
  BY <1>18 DEF CloseReleases, GoTo, SameRequest
<1>19. CASE CloseEnd
  BY <1>19 DEF CloseEnd, Gone
<1>20. ASSUME NEW c \in Ids, CloseMarks(c)
      PROVE  (HoldsItsLocks /\ Roles)'
  BY <1>20 DEF CloseMarks, Visits, SameRequest
<1>21. CASE Killed
  BY <1>21 DEF Killed, Gone
<1>22. CASE Starts
  BY <1>22 DEF Starts
<1>23. CASE UNCHANGED vars
  BY <1>23 DEF vars
<1> HIDE DEF StateType, ThreadType, HoldsItsLocks, Roles, Threads, InsideChannels, InsidePanel,
      None, Boss, Points
<1> QED
  BY <1>1, <1>2, <1>3, <1>4, <1>5, <1>6, <1>7, <1>8, <1>9, <1>10, <1>11, <1>12, <1>13,
     <1>14, <1>15, <1>16, <1>17, <1>18, <1>19, <1>20, <1>21, <1>22, <1>23
     DEF Next, Serves, Closes

\* A thread inside a critical section finds what it has seen, as nobody else can
\* change it without the lock.
LEMMA RequestsStep ==
    ASSUME StateType, HoldsItsLocks, Roles, SavesAtRest, AsksToRun, NoneOnceClosing, Down,
       [Next]_vars
    PROVE  (SavesAtRest /\ AsksToRun /\ NoneOnceClosing /\ Down)'
<1> USE ChannelsAssumption DEF StateType, ServerType, ThreadType, Threads, Kinds, Points, None,
      Boss, HoldsItsLocks, Roles, SavesAtRest, AsksToRun, NoneOnceClosing, Down, InsideChannels,
      InsidePanel
<1>1. ASSUME NEW t \in Clients, NEW c \in Ids, NEW k \in Kinds, NEW p \in Profiles, Arrive(t, c,
      k, p)
      PROVE  (SavesAtRest /\ AsksToRun /\ NoneOnceClosing /\ Down)'
  BY <1>1 DEF Arrive, GoTo
<1>2. ASSUME NEW t \in Clients, Refuse(t)
      PROVE  (SavesAtRest /\ AsksToRun /\ NoneOnceClosing /\ Down)'
  BY <1>2 DEF Refuse, Answer, Forget, GoTo
<1>3. ASSUME NEW t \in Clients, ActionBegin(t)
      PROVE  (SavesAtRest /\ AsksToRun /\ NoneOnceClosing /\ Down)'
  BY <1>3 DEF ActionBegin, GoTo, SameRequest
<1>4. ASSUME NEW t \in Clients, ActionLocks(t)
      PROVE  (SavesAtRest /\ AsksToRun /\ NoneOnceClosing /\ Down)'
  BY <1>4 DEF ActionLocks, Take, GoTo, Visits, SameRequest
<1>5. ASSUME NEW t \in Clients, ActionEnd(t)
      PROVE  (SavesAtRest /\ AsksToRun /\ NoneOnceClosing /\ Down)'
  BY <1>5 DEF ActionEnd, Leave, Answer, Forget, GoTo, Free
<1>6. ASSUME NEW t \in Clients, NEW o \in Ids, ActionChecks(t, o)
      PROVE  (SavesAtRest /\ AsksToRun /\ NoneOnceClosing /\ Down)'
  BY <1>6 DEF ActionChecks, Leave, Answer, Forget, GoTo, Free, Visits
<1>7. ASSUME NEW t \in Clients, SaveBegin(t)
      PROVE  (SavesAtRest /\ AsksToRun /\ NoneOnceClosing /\ Down)'
  BY <1>7 DEF SaveBegin, Take, GoTo, SameRequest
<1>8. ASSUME NEW t \in Clients, SaveReplace(t)
      PROVE  (SavesAtRest /\ AsksToRun /\ NoneOnceClosing /\ Down)'
  BY <1>8 DEF SaveReplace, GoTo, SameRequest
<1>9. ASSUME NEW t \in Clients, SaveFails(t)
      PROVE  (SavesAtRest /\ AsksToRun /\ NoneOnceClosing /\ Down)'
  BY <1>9 DEF SaveFails, Free, Answer, Forget, GoTo
<1>10. ASSUME NEW t \in Clients, SaveEnd(t)
      PROVE  (SavesAtRest /\ AsksToRun /\ NoneOnceClosing /\ Down)'
  BY <1>10 DEF SaveEnd, Free, Answer, Forget, GoTo
<1>11. ASSUME NEW t \in Clients, CreateBegin(t)
      PROVE  (SavesAtRest /\ AsksToRun /\ NoneOnceClosing /\ Down)'
  BY <1>11 DEF CreateBegin, GoTo
<1>12. ASSUME NEW t \in Clients, CreateSaves(t)
      PROVE  (SavesAtRest /\ AsksToRun /\ NoneOnceClosing /\ Down)'
  BY <1>12 DEF CreateSaves, GoTo, SameRequest
<1>13. ASSUME NEW t \in Clients, CreateFails(t)
      PROVE  (SavesAtRest /\ AsksToRun /\ NoneOnceClosing /\ Down)'
  BY <1>13 DEF CreateFails, Leave, Answer, Forget, GoTo
<1>14. ASSUME NEW t \in Clients, CreateEnd(t)
      PROVE  (SavesAtRest /\ AsksToRun /\ NoneOnceClosing /\ Down)'
  BY <1>14 DEF CreateEnd, Leave, Answer, Forget, GoTo
<1>15. ASSUME NEW c \in Ids, ComesToRest(c)
      PROVE  (SavesAtRest /\ AsksToRun /\ NoneOnceClosing /\ Down)'
  BY <1>15 DEF ComesToRest
<1>16. CASE Interrupt
  BY <1>16 DEF Interrupt
<1>17. CASE CloseBegin
  BY <1>17 DEF CloseBegin, GoTo, Visits, SameRequest
<1>18. CASE CloseReleases
  BY <1>18 DEF CloseReleases, GoTo, SameRequest
<1>19. CASE CloseEnd
  BY <1>19 DEF CloseEnd, Gone
<1>20. ASSUME NEW c \in Ids, CloseMarks(c)
      PROVE  (SavesAtRest /\ AsksToRun /\ NoneOnceClosing /\ Down)'
  BY <1>20 DEF CloseMarks, Visits, SameRequest
<1>21. CASE Killed
  BY <1>21 DEF Killed, Gone
<1>22. CASE Starts
  BY <1>22 DEF Starts
<1>23. CASE UNCHANGED vars
  BY <1>23 DEF vars
<1> HIDE DEF StateType, ServerType, ThreadType, Threads, Kinds, Points, None, Boss,
      HoldsItsLocks, Roles, SavesAtRest, AsksToRun, NoneOnceClosing, Down, InsideChannels,
      InsidePanel
<1> QED
  BY <1>1, <1>2, <1>3, <1>4, <1>5, <1>6, <1>7, <1>8, <1>9, <1>10, <1>11, <1>12, <1>13,
     <1>14, <1>15, <1>16, <1>17, <1>18, <1>19, <1>20, <1>21, <1>22, <1>23
     DEF Next, Serves, Closes

\* Channels are added while the server is up, and never removed.
LEMMA RegisteredStep ==
    ASSUME StateType, BusyIsRegistered, AskedIsRegistered, Down, [Next]_vars
    PROVE  (BusyIsRegistered /\ AskedIsRegistered)'
<1> USE ChannelsAssumption DEF StateType, ServerType, ThreadType, Threads, Kinds, Points, None,
      Boss, BusyIsRegistered, AskedIsRegistered, Down, Main
<1>1. ASSUME NEW t \in Clients, NEW c \in Ids, NEW k \in Kinds, NEW p \in Profiles, Arrive(t, c,
      k, p)
      PROVE  (BusyIsRegistered /\ AskedIsRegistered)'
  BY <1>1 DEF Arrive, GoTo
<1>2. ASSUME NEW t \in Clients, Refuse(t)
      PROVE  (BusyIsRegistered /\ AskedIsRegistered)'
  BY <1>2 DEF Refuse, Answer, Forget, GoTo
<1>3. ASSUME NEW t \in Clients, ActionBegin(t)
      PROVE  (BusyIsRegistered /\ AskedIsRegistered)'
  BY <1>3 DEF ActionBegin, GoTo, SameRequest
<1>4. ASSUME NEW t \in Clients, ActionLocks(t)
      PROVE  (BusyIsRegistered /\ AskedIsRegistered)'
  BY <1>4 DEF ActionLocks, Take, GoTo, Visits, SameRequest
<1>5. ASSUME NEW t \in Clients, ActionEnd(t)
      PROVE  (BusyIsRegistered /\ AskedIsRegistered)'
  BY <1>5 DEF ActionEnd, Leave, Answer, Forget, GoTo, Free
<1>6. ASSUME NEW t \in Clients, NEW o \in Ids, ActionChecks(t, o)
      PROVE  (BusyIsRegistered /\ AskedIsRegistered)'
  BY <1>6 DEF ActionChecks, Leave, Answer, Forget, GoTo, Free, Visits
<1>7. ASSUME NEW t \in Clients, SaveBegin(t)
      PROVE  (BusyIsRegistered /\ AskedIsRegistered)'
  BY <1>7 DEF SaveBegin, Take, GoTo, SameRequest
<1>8. ASSUME NEW t \in Clients, SaveReplace(t)
      PROVE  (BusyIsRegistered /\ AskedIsRegistered)'
  BY <1>8 DEF SaveReplace, GoTo, SameRequest
<1>9. ASSUME NEW t \in Clients, SaveFails(t)
      PROVE  (BusyIsRegistered /\ AskedIsRegistered)'
  BY <1>9 DEF SaveFails, Free, Answer, Forget, GoTo
<1>10. ASSUME NEW t \in Clients, SaveEnd(t)
      PROVE  (BusyIsRegistered /\ AskedIsRegistered)'
  BY <1>10 DEF SaveEnd, Free, Answer, Forget, GoTo
<1>11. ASSUME NEW t \in Clients, CreateBegin(t)
      PROVE  (BusyIsRegistered /\ AskedIsRegistered)'
  BY <1>11 DEF CreateBegin, GoTo
<1>12. ASSUME NEW t \in Clients, CreateSaves(t)
      PROVE  (BusyIsRegistered /\ AskedIsRegistered)'
  BY <1>12 DEF CreateSaves, GoTo, SameRequest
<1>13. ASSUME NEW t \in Clients, CreateFails(t)
      PROVE  (BusyIsRegistered /\ AskedIsRegistered)'
  BY <1>13 DEF CreateFails, Leave, Answer, Forget, GoTo
<1>14. ASSUME NEW t \in Clients, CreateEnd(t)
      PROVE  (BusyIsRegistered /\ AskedIsRegistered)'
  BY <1>14 DEF CreateEnd, Leave, Answer, Forget, GoTo
<1>15. ASSUME NEW c \in Ids, ComesToRest(c)
      PROVE  (BusyIsRegistered /\ AskedIsRegistered)'
  BY <1>15 DEF ComesToRest
<1>16. CASE Interrupt
  BY <1>16 DEF Interrupt
<1>17. CASE CloseBegin
  BY <1>17 DEF CloseBegin, GoTo, Visits, SameRequest
<1>18. CASE CloseReleases
  BY <1>18 DEF CloseReleases, GoTo, SameRequest
<1>19. CASE CloseEnd
  BY <1>19 DEF CloseEnd, Gone
<1>20. ASSUME NEW c \in Ids, CloseMarks(c)
      PROVE  (BusyIsRegistered /\ AskedIsRegistered)'
  BY <1>20 DEF CloseMarks, Visits, SameRequest
<1>21. CASE Killed
  BY <1>21 DEF Killed, Gone
<1>22. CASE Starts
  BY <1>22 DEF Starts
<1>23. CASE UNCHANGED vars
  BY <1>23 DEF vars
<1> HIDE DEF StateType, ServerType, ThreadType, Threads, Kinds, Points, None, Boss,
      BusyIsRegistered, AskedIsRegistered, Down, Main
<1> QED
  BY <1>1, <1>2, <1>3, <1>4, <1>5, <1>6, <1>7, <1>8, <1>9, <1>10, <1>11, <1>12, <1>13,
     <1>14, <1>15, <1>16, <1>17, <1>18, <1>19, <1>20, <1>21, <1>22, <1>23
     DEF Next, Serves, Closes

\* A check stays good as long as nobody who was seen at rest becomes busy and
\* no profile changes.
LEMMA ChecksKept ==
    ASSUME StateType, ChecksHold, UNCHANGED <<profile, registered>>,
           \A c \in Ids : op'[c] \in {op[c], "none"},
           \A t \in Clients : pc'[t] = "check" =>
               pc[t] = "check" /\ chan'[t] = chan[t] /\ kind'[t] = kind[t] /\ left'[t] = left[t]
    PROVE  ChecksHold'
BY DEF ChecksHold, Checked, Conflict, StateType, ServerType

\* Every step leaves the checks good: the lock of the panel that asks guards its
\* profile, Channels.lock keeps the others from becoming busy, and who is busy
\* cannot be saved.
LEMMA ChecksStep ==
    ASSUME ChannelsInv, [Next]_vars
    PROVE  ChecksHold'
<1> USE ChannelsAssumption DEF ChannelsInv, TypeOK, StateType, ServerType, ThreadType, Threads,
      None, Boss
<1>1. ASSUME NEW t \in Clients, NEW c \in Ids, NEW k \in Kinds, NEW p \in Profiles, Arrive(t, c,
      k, p)
      PROVE  ChecksHold'
  BY <1>1, ChecksKept DEF Arrive, GoTo
<1>2. ASSUME NEW t \in Clients, Refuse(t)
      PROVE  ChecksHold'
  BY <1>2, ChecksKept DEF Refuse, Answer, Forget, GoTo
<1>3. ASSUME NEW t \in Clients, ActionBegin(t)
      PROVE  ChecksHold'
  BY <1>3, ChecksKept DEF ActionBegin, GoTo, SameRequest
<1>4. ASSUME NEW t \in Clients, ActionLocks(t)
      PROVE  ChecksHold'
  <2>1. ASSUME NEW u \in Clients, pc'[u] = "check" PROVE Checked(u)'
    <3>1. CASE u = t
      BY <1>4, <3>1 DEF ActionLocks, Visits, SameRequest, Checked
    <3>2. CASE u # t
      BY <1>4, <2>1, <3>2 DEF ActionLocks, GoTo, Visits, SameRequest, HoldsItsLocks,
         InsideChannels, ChecksHold, Checked, Conflict
    <3> QED  BY <3>1, <3>2
  <2> QED  BY <2>1 DEF ChecksHold
<1>5. ASSUME NEW t \in Clients, ActionEnd(t)
      PROVE  ChecksHold'
  <2>1. \A u \in Clients : pc'[u] # "check"
    BY <1>5 DEF ActionEnd, Leave, Answer, GoTo, HoldsItsLocks, InsideChannels
  <2> QED  BY <2>1 DEF ChecksHold
<1>6. ASSUME NEW t \in Clients, NEW o \in Ids, ActionChecks(t, o)
      PROVE  ChecksHold'
  <2>1. CASE Conflict(chan[t], o, kind[t])
    <3>1. Leave(t)
      BY <1>6, <2>1 DEF ActionChecks
    <3> QED  BY <1>6, <3>1, ChecksKept DEF ActionChecks, Leave, Answer, Forget, GoTo
  <2>2. CASE ~Conflict(chan[t], o, kind[t])
    <3>1. left' = [left EXCEPT ![t] = left[t] \ {o}]
          /\ UNCHANGED <<pc, chan, kind, op, profile, registered>>
      BY <1>6, <2>2 DEF ActionChecks, Visits
    <3> QED  BY <2>2, <3>1 DEF ChecksHold, Checked, Conflict
  <2> QED  BY <2>1, <2>2
<1>7. ASSUME NEW t \in Clients, SaveBegin(t)
      PROVE  ChecksHold'
  BY <1>7, ChecksKept DEF SaveBegin, Take, GoTo, SameRequest
<1>8. ASSUME NEW t \in Clients, SaveReplace(t)
      PROVE  ChecksHold'
  BY <1>8, ChecksKept DEF SaveReplace, GoTo, SameRequest
<1>9. ASSUME NEW t \in Clients, SaveFails(t)
      PROVE  ChecksHold'
  BY <1>9, ChecksKept DEF SaveFails, Free, Answer, Forget, GoTo
<1>10. ASSUME NEW t \in Clients, SaveEnd(t)
      PROVE  ChecksHold'
  <2>1. ASSUME NEW u \in Clients, pc'[u] = "check" PROVE Checked(u)'
    <3>1. u # t /\ pc[u] = "check" /\ chan[u] # chan[t] /\ op[chan[t]] = "none"
      BY <1>10, <2>1 DEF SaveEnd, Answer, GoTo, HoldsItsLocks, InsidePanel, SavesAtRest
    <3>2. /\ UNCHANGED <<registered, op>>
          /\ profile' = [profile EXCEPT ![chan[t]] = draft[t]]
          /\ chan'[u] = chan[u] /\ kind'[u] = kind[u] /\ left'[u] = left[u]
      BY <1>10, <3>1 DEF SaveEnd, Answer, Forget
    <3> QED  BY <3>1, <3>2 DEF ChecksHold, Checked, Conflict
  <2> QED  BY <2>1 DEF ChecksHold
<1>11. ASSUME NEW t \in Clients, CreateBegin(t)
      PROVE  ChecksHold'
  BY <1>11, ChecksKept DEF CreateBegin, GoTo
<1>12. ASSUME NEW t \in Clients, CreateSaves(t)
      PROVE  ChecksHold'
  BY <1>12, ChecksKept DEF CreateSaves, GoTo, SameRequest
<1>13. ASSUME NEW t \in Clients, CreateFails(t)
      PROVE  ChecksHold'
  BY <1>13, ChecksKept DEF CreateFails, Leave, Answer, Forget, GoTo
<1>14. ASSUME NEW t \in Clients, CreateEnd(t)
      PROVE  ChecksHold'
  <2>1. \A u \in Clients : pc'[u] # "check"
    BY <1>14 DEF CreateEnd, Leave, Answer, GoTo, HoldsItsLocks, InsideChannels
  <2> QED  BY <2>1 DEF ChecksHold
<1>15. ASSUME NEW c \in Ids, ComesToRest(c)
      PROVE  ChecksHold'
  BY <1>15, ChecksKept DEF ComesToRest
<1>16. CASE Interrupt
  BY <1>16, ChecksKept DEF Interrupt
<1>17. CASE CloseBegin
  BY <1>17, ChecksKept DEF CloseBegin, GoTo, Visits, SameRequest
<1>18. CASE CloseReleases
  BY <1>18, ChecksKept DEF CloseReleases, GoTo, SameRequest
<1>19. CASE CloseEnd
  BY <1>19 DEF CloseEnd, Gone, ChecksHold
<1>20. ASSUME NEW c \in Ids, CloseMarks(c)
      PROVE  ChecksHold'
  BY <1>20, ChecksKept DEF CloseMarks, Visits, SameRequest
<1>21. CASE Killed
  BY <1>21 DEF Killed, Gone, ChecksHold
<1>22. CASE Starts
  BY <1>22 DEF Starts, ChecksHold, Down
<1>23. CASE UNCHANGED vars
  BY <1>23, ChecksKept DEF vars
<1> HIDE DEF ChannelsInv, TypeOK, StateType, ServerType, ThreadType, Threads, None, Boss
<1> QED
  BY <1>1, <1>2, <1>3, <1>4, <1>5, <1>6, <1>7, <1>8, <1>9, <1>10, <1>11, <1>12, <1>13,
     <1>14, <1>15, <1>16, <1>17, <1>18, <1>19, <1>20, <1>21, <1>22, <1>23
     DEF Next, Serves, Closes

\* Busy channels keep their profiles, and those at rest exclude nobody.
LEMMA ExclusiveKept ==
    ASSUME StateType, Exclusive,
           \A c \in Ids : op'[c] \in {op[c], "none"},
           \A c \in Ids : op'[c] # "none" => profile'[c] = profile[c]
    PROVE  Exclusive'
BY DEF Exclusive, InputsDisjoint, OutputsDistinct, StateType, ServerType

\* The one step that makes a channel busy finds no conflict left.
LEMMA ExclusiveStep ==
    ASSUME ChannelsInv, [Next]_vars
    PROVE  Exclusive'
<1> USE ChannelsAssumption DEF ChannelsInv, TypeOK, StateType, ServerType, ThreadType, Threads,
      None, Boss
<1>1. ASSUME NEW t \in Clients, NEW c \in Ids, NEW k \in Kinds, NEW p \in Profiles, Arrive(t, c,
      k, p)
      PROVE  Exclusive'
  BY <1>1, ExclusiveKept DEF Arrive
<1>2. ASSUME NEW t \in Clients, Refuse(t)
      PROVE  Exclusive'
  BY <1>2, ExclusiveKept DEF Refuse
<1>3. ASSUME NEW t \in Clients, ActionBegin(t)
      PROVE  Exclusive'
  BY <1>3, ExclusiveKept DEF ActionBegin
<1>4. ASSUME NEW t \in Clients, ActionLocks(t)
      PROVE  Exclusive'
  BY <1>4, ExclusiveKept DEF ActionLocks
<1>5. ASSUME NEW t \in Clients, ActionEnd(t)
      PROVE  Exclusive'
  <2>1. CASE UNCHANGED op
    BY <1>5, <2>1, ExclusiveKept DEF ActionEnd
  <2>2. CASE op' = [op EXCEPT ![chan[t]] = kind[t]]
    <3>1. pc[t] = "check" /\ left[t] = {} /\ chan[t] \in Ids /\ profile' = profile
      BY <1>5 DEF ActionEnd
    <3>2. kind[t] \in {"probe", "start"}
      BY <3>1 DEF AsksToRun
    <3>3. \A o \in Ids \ {chan[t]} : ~Conflict(chan[t], o, kind[t])
      BY <3>1 DEF ChecksHold, Checked, BusyIsRegistered, Conflict
    <3>4. InputsDisjoint'
      BY <2>2, <3>1, <3>2, <3>3 DEF Exclusive, InputsDisjoint, Conflict
    <3>5. OutputsDistinct'
      BY <2>2, <3>1, <3>2, <3>3 DEF Exclusive, OutputsDistinct, Conflict
    <3> QED  BY <3>4, <3>5 DEF Exclusive
  <2> QED  BY <1>5, <2>1, <2>2 DEF ActionEnd
<1>6. ASSUME NEW t \in Clients, NEW o \in Ids, ActionChecks(t, o)
      PROVE  Exclusive'
  BY <1>6, ExclusiveKept DEF ActionChecks
<1>7. ASSUME NEW t \in Clients, SaveBegin(t)
      PROVE  Exclusive'
  BY <1>7, ExclusiveKept DEF SaveBegin
<1>8. ASSUME NEW t \in Clients, SaveReplace(t)
      PROVE  Exclusive'
  BY <1>8, ExclusiveKept DEF SaveReplace
<1>9. ASSUME NEW t \in Clients, SaveFails(t)
      PROVE  Exclusive'
  BY <1>9, ExclusiveKept DEF SaveFails
<1>10. ASSUME NEW t \in Clients, SaveEnd(t)
      PROVE  Exclusive'
  BY <1>10, ExclusiveKept DEF SaveEnd, SavesAtRest
<1>11. ASSUME NEW t \in Clients, CreateBegin(t)
      PROVE  Exclusive'
  BY <1>11, ExclusiveKept DEF CreateBegin
<1>12. ASSUME NEW t \in Clients, CreateSaves(t)
      PROVE  Exclusive'
  BY <1>12, ExclusiveKept DEF CreateSaves
<1>13. ASSUME NEW t \in Clients, CreateFails(t)
      PROVE  Exclusive'
  BY <1>13, ExclusiveKept DEF CreateFails
<1>14. ASSUME NEW t \in Clients, CreateEnd(t)
      PROVE  Exclusive'
  BY <1>14, ExclusiveKept DEF CreateEnd, CreatesUnused, BusyIsRegistered
<1>15. ASSUME NEW c \in Ids, ComesToRest(c)
      PROVE  Exclusive'
  BY <1>15, ExclusiveKept DEF ComesToRest
<1>16. CASE Interrupt
  BY <1>16, ExclusiveKept DEF Interrupt
<1>17. CASE CloseBegin
  BY <1>17, ExclusiveKept DEF CloseBegin
<1>18. CASE CloseReleases
  BY <1>18, ExclusiveKept DEF CloseReleases
<1>19. CASE CloseEnd
  BY <1>19, ExclusiveKept DEF CloseEnd, Gone
<1>20. ASSUME NEW c \in Ids, CloseMarks(c)
      PROVE  Exclusive'
  BY <1>20, ExclusiveKept DEF CloseMarks
<1>21. CASE Killed
  BY <1>21, ExclusiveKept DEF Killed, Gone
<1>22. CASE Starts
  BY <1>22, ExclusiveKept DEF Starts, Down
<1>23. CASE UNCHANGED vars
  BY <1>23, ExclusiveKept DEF vars
<1> HIDE DEF ChannelsInv, TypeOK, StateType, ServerType, ThreadType, Threads, None, Boss
<1> QED
  BY <1>1, <1>2, <1>3, <1>4, <1>5, <1>6, <1>7, <1>8, <1>9, <1>10, <1>11, <1>12, <1>13,
     <1>14, <1>15, <1>16, <1>17, <1>18, <1>19, <1>20, <1>21, <1>22, <1>23
     DEF Next, Serves, Closes

\* Only the holder of Channels.lock registers a channel.
LEMMA UnusedStep ==
    ASSUME StateType, HoldsItsLocks, CreatesUnused, Down, [Next]_vars
    PROVE  CreatesUnused'
<1> USE ChannelsAssumption DEF StateType, ServerType, ThreadType, Threads, None, Boss,
      HoldsItsLocks, InsideChannels, CreatesUnused, Down
<1>1. ASSUME NEW t \in Clients, NEW c \in Ids, NEW k \in Kinds, NEW p \in Profiles, Arrive(t, c,
      k, p)
      PROVE  CreatesUnused'
  BY <1>1 DEF Arrive, GoTo
<1>2. ASSUME NEW t \in Clients, Refuse(t)
      PROVE  CreatesUnused'
  BY <1>2 DEF Refuse, Answer, Forget, GoTo
<1>3. ASSUME NEW t \in Clients, ActionBegin(t)
      PROVE  CreatesUnused'
  BY <1>3 DEF ActionBegin, GoTo, SameRequest
<1>4. ASSUME NEW t \in Clients, ActionLocks(t)
      PROVE  CreatesUnused'
  BY <1>4 DEF ActionLocks, Take, GoTo, Visits, SameRequest
<1>5. ASSUME NEW t \in Clients, ActionEnd(t)
      PROVE  CreatesUnused'
  BY <1>5 DEF ActionEnd, Leave, Answer, Forget, GoTo, Free
<1>6. ASSUME NEW t \in Clients, NEW o \in Ids, ActionChecks(t, o)
      PROVE  CreatesUnused'
  BY <1>6 DEF ActionChecks, Leave, Answer, Forget, GoTo, Free, Visits
<1>7. ASSUME NEW t \in Clients, SaveBegin(t)
      PROVE  CreatesUnused'
  BY <1>7 DEF SaveBegin, Take, GoTo, SameRequest
<1>8. ASSUME NEW t \in Clients, SaveReplace(t)
      PROVE  CreatesUnused'
  BY <1>8 DEF SaveReplace, GoTo, SameRequest
<1>9. ASSUME NEW t \in Clients, SaveFails(t)
      PROVE  CreatesUnused'
  BY <1>9 DEF SaveFails, Free, Answer, Forget, GoTo
<1>10. ASSUME NEW t \in Clients, SaveEnd(t)
      PROVE  CreatesUnused'
  BY <1>10 DEF SaveEnd, Free, Answer, Forget, GoTo
<1>11. ASSUME NEW t \in Clients, CreateBegin(t)
      PROVE  CreatesUnused'
  BY <1>11, LeastUnused DEF CreateBegin, GoTo, Unused
<1>12. ASSUME NEW t \in Clients, CreateSaves(t)
      PROVE  CreatesUnused'
  BY <1>12 DEF CreateSaves, GoTo, SameRequest
<1>13. ASSUME NEW t \in Clients, CreateFails(t)
      PROVE  CreatesUnused'
  BY <1>13 DEF CreateFails, Leave, Answer, Forget, GoTo
<1>14. ASSUME NEW t \in Clients, CreateEnd(t)
      PROVE  CreatesUnused'
  BY <1>14 DEF CreateEnd, Leave, Answer, Forget, GoTo
<1>15. ASSUME NEW c \in Ids, ComesToRest(c)
      PROVE  CreatesUnused'
  BY <1>15 DEF ComesToRest
<1>16. CASE Interrupt
  BY <1>16 DEF Interrupt
<1>17. CASE CloseBegin
  BY <1>17 DEF CloseBegin, GoTo, Visits, SameRequest
<1>18. CASE CloseReleases
  BY <1>18 DEF CloseReleases, GoTo, SameRequest
<1>19. CASE CloseEnd
  BY <1>19 DEF CloseEnd, Gone
<1>20. ASSUME NEW c \in Ids, CloseMarks(c)
      PROVE  CreatesUnused'
  BY <1>20 DEF CloseMarks, Visits, SameRequest
<1>21. CASE Killed
  BY <1>21 DEF Killed, Gone
<1>22. CASE Starts
  BY <1>22 DEF Starts
<1>23. CASE UNCHANGED vars
  BY <1>23 DEF vars
<1> HIDE DEF StateType, ServerType, ThreadType, Threads, None, Boss, HoldsItsLocks,
      InsideChannels, CreatesUnused, Down
<1> QED
  BY <1>1, <1>2, <1>3, <1>4, <1>5, <1>6, <1>7, <1>8, <1>9, <1>10, <1>11, <1>12, <1>13,
     <1>14, <1>15, <1>16, <1>17, <1>18, <1>19, <1>20, <1>21, <1>22, <1>23
     DEF Next, Serves, Closes

-----------------------------------------------------------------------------
LEMMA InitInv == Init => ChannelsInv
<1> USE ChannelsAssumption DEF Init
<1>1. Init => StateType
  <2>0. Main \in Ids /\ Fresh \in [Ids -> ProfileType]
    BY DEF Ids, Main
  <2>1. Init => ServerType
    <3> SUFFICES ASSUME Init PROVE ServerType
      OBVIOUS
    <3>1. up \in BOOLEAN /\ serving \in BOOLEAN /\ closing \in BOOLEAN
      OBVIOUS
    <3>2. registered \in SUBSET Ids /\ known \in SUBSET Ids
      BY <2>0
    <3>3. profile \in [Ids -> ProfileType] /\ disk \in [Ids -> ProfileType \cup {Nothing}]
      BY <2>0
    <3>4. op \in [Ids -> {"none", "probe", "start"}] /\ shut \in [Ids -> BOOLEAN]
      OBVIOUS
    <3> QED  BY <3>1, <3>2, <3>3, <3>4 DEF ServerType
  <2>2. Init => ThreadType
    BY DEF ThreadType, Threads, Kinds, Points, None, Boss, Ids, Main
  <2> QED  BY <2>1, <2>2 DEF StateType
<1>2. Init => HoldsItsLocks /\ Roles
  BY DEF HoldsItsLocks, Roles, InsideChannels, InsidePanel, Threads, Boss
<1>3. Init => /\ SavesAtRest /\ BusyIsRegistered /\ AskedIsRegistered
              /\ ChecksHold /\ AsksToRun /\ NoneOnceClosing /\ Down /\ CreatesUnused
  BY DEF SavesAtRest, BusyIsRegistered, AskedIsRegistered, ChecksHold, AsksToRun, NoneOnceClosing,
     Down, CreatesUnused, Threads
<1>4. Init => Exclusive
  BY DEF Exclusive, InputsDisjoint, OutputsDistinct
<1> QED  BY <1>1, <1>2, <1>3, <1>4 DEF ChannelsInv, TypeOK

LEMMA NextInv == ChannelsInv /\ [Next]_vars => ChannelsInv'
<1> SUFFICES ASSUME ChannelsInv, [Next]_vars PROVE ChannelsInv'
  OBVIOUS
<1>1. StateType'
  BY ServerTypeStep, ThreadTypeStep DEF ChannelsInv, TypeOK, StateType
<1>2. (HoldsItsLocks /\ Roles)'
  BY LocksStep DEF ChannelsInv, TypeOK
<1>3. (SavesAtRest /\ AsksToRun /\ NoneOnceClosing /\ Down)'
  BY RequestsStep DEF ChannelsInv, TypeOK
<1>4. (BusyIsRegistered /\ AskedIsRegistered)'
  BY RegisteredStep DEF ChannelsInv, TypeOK
<1>5. CreatesUnused'
  BY UnusedStep DEF ChannelsInv, TypeOK
<1> QED  BY <1>1, <1>2, <1>3, <1>4, <1>5, ChecksStep, ExclusiveStep DEF ChannelsInv, TypeOK

LEMMA InvHolds == Spec => []ChannelsInv
BY InitInv, NextInv, PTL DEF Spec

\* The state of the channels is of its type, and the two kinds of locks exclude:
\* a thread inside a critical section is the one that holds its lock.
THEOREM LocksExclude == Spec => []TypeOK
<1>1. ChannelsInv => TypeOK
  BY DEF ChannelsInv
<1> QED  BY <1>1, InvHolds, PTL

\* Busy channels listen on different ports, however many channels there are and
\* whatever is saved, started and closed at the same time (Channels.action).
THEOREM BusyInputsAreDisjoint == Spec => []InputsDisjoint
<1>1. ChannelsInv => InputsDisjoint
  BY DEF ChannelsInv, Exclusive
<1> QED  BY <1>1, InvHolds, PTL

\* Started channels send to different destinations (Channels.action).
THEOREM StartedOutputsAreDistinct == Spec => []OutputsDistinct
<1>1. ChannelsInv => OutputsDistinct
  BY DEF ChannelsInv, Exclusive
<1> QED  BY <1>1, InvHolds, PTL

\* No channel starts once Channels.close has begun: an action() that was under
\* way has given Channels.lock up before, and later ones are refused.
THEOREM NothingStartsOnceClosing == Spec => NoStartOnceClosing
<1> DEFINE Stays == closing => \A c \in Ids : op[c] = "none" => op'[c] = "none"
<1>1. ASSUME ChannelsInv, Next PROVE Stays
  <2> USE DEF ChannelsInv, TypeOK, StateType, ServerType
  <2>1. ASSUME NEW t \in Clients, NEW c \in Ids, NEW k \in Kinds, NEW p \in Profiles, Arrive(t,
        c, k, p)
        PROVE  Stays
    BY <2>1 DEF Arrive
  <2>2. ASSUME NEW t \in Clients, Refuse(t)
        PROVE  Stays
    BY <2>2 DEF Refuse
  <2>3. ASSUME NEW t \in Clients, ActionBegin(t)
        PROVE  Stays
    BY <2>3 DEF ActionBegin
  <2>4. ASSUME NEW t \in Clients, ActionLocks(t)
        PROVE  Stays
    BY <2>4 DEF ActionLocks
  <2>5. ASSUME NEW t \in Clients, ActionEnd(t)
        PROVE  Stays
    <3>1. pc[t] = "check" /\ ~closing
      BY <1>1, <2>5 DEF ActionEnd, NoneOnceClosing
    <3> QED  BY <3>1
  <2>6. ASSUME NEW t \in Clients, NEW o \in Ids, ActionChecks(t, o)
        PROVE  Stays
    BY <2>6 DEF ActionChecks
  <2>7. ASSUME NEW t \in Clients, SaveBegin(t)
        PROVE  Stays
    BY <2>7 DEF SaveBegin
  <2>8. ASSUME NEW t \in Clients, SaveReplace(t)
        PROVE  Stays
    BY <2>8 DEF SaveReplace
  <2>9. ASSUME NEW t \in Clients, SaveFails(t)
        PROVE  Stays
    BY <2>9 DEF SaveFails
  <2>10. ASSUME NEW t \in Clients, SaveEnd(t)
        PROVE  Stays
    BY <2>10 DEF SaveEnd
  <2>11. ASSUME NEW t \in Clients, CreateBegin(t)
        PROVE  Stays
    BY <2>11 DEF CreateBegin
  <2>12. ASSUME NEW t \in Clients, CreateSaves(t)
        PROVE  Stays
    BY <2>12 DEF CreateSaves
  <2>13. ASSUME NEW t \in Clients, CreateFails(t)
        PROVE  Stays
    BY <2>13 DEF CreateFails
  <2>14. ASSUME NEW t \in Clients, CreateEnd(t)
        PROVE  Stays
    BY <2>14 DEF CreateEnd
  <2>15. ASSUME NEW c \in Ids, ComesToRest(c)
        PROVE  Stays
    BY <2>15 DEF ComesToRest
  <2>16. CASE Interrupt
    BY <2>16 DEF Interrupt
  <2>17. CASE CloseBegin
    BY <2>17 DEF CloseBegin
  <2>18. CASE CloseReleases
    BY <2>18 DEF CloseReleases
  <2>19. CASE CloseEnd
    BY <2>19 DEF CloseEnd, Gone
  <2>20. ASSUME NEW c \in Ids, CloseMarks(c)
        PROVE  Stays
    BY <2>20 DEF CloseMarks
  <2>21. CASE Killed
    BY <2>21 DEF Killed, Gone
  <2>22. CASE Starts
    BY <2>22 DEF Starts
  <2> HIDE DEF ChannelsInv, Stays
  <2> QED
    BY <1>1, <2>1, <2>2, <2>3, <2>4, <2>5, <2>6, <2>7, <2>8, <2>9, <2>10, <2>11, <2>12, <2>13,
       <2>14, <2>15, <2>16, <2>17, <2>18, <2>19, <2>20, <2>21, <2>22
       DEF Next, Serves, Closes
<1>2. ASSUME UNCHANGED vars PROVE Stays
  BY <1>2 DEF vars
<1> HIDE DEF Stays
<1>3. ChannelsInv /\ [Next]_vars => [Stays]_vars
  BY <1>1, <1>2
<1> QED  BY <1>3, InvHolds, PTL DEF Spec, NoStartOnceClosing, Stays

-----------------------------------------------------------------------------
\* A confirmed channel is on disk, and so is one that is about to be confirmed.
Stored ==
    /\ \A c \in known : c = Main \/ disk[c] # Nothing
    /\ \A t \in Clients : pc[t] = "created" => disk[chan[t]] # Nothing
Kept == ConfirmedChannelsStay /\ Stored

\* Nothing is ever removed from the disk, nor from the channels of a server.
LEMMA KeptStep ==
    ASSUME StateType, HoldsItsLocks, Down, Kept, [Next]_vars
    PROVE  Kept'
<1> USE ChannelsAssumption DEF StateType, ServerType, ThreadType, Threads, Ids, None, Boss, Main,
      HoldsItsLocks, InsideChannels, Down, Kept, Stored, ConfirmedChannelsStay
<1>1. ASSUME NEW t \in Clients, NEW c \in Ids, NEW k \in Kinds, NEW p \in Profiles, Arrive(t, c,
      k, p)
      PROVE  Kept'
  BY <1>1 DEF Arrive, GoTo
<1>2. ASSUME NEW t \in Clients, Refuse(t)
      PROVE  Kept'
  BY <1>2 DEF Refuse, Answer, Forget, GoTo
<1>3. ASSUME NEW t \in Clients, ActionBegin(t)
      PROVE  Kept'
  BY <1>3 DEF ActionBegin, GoTo, SameRequest
<1>4. ASSUME NEW t \in Clients, ActionLocks(t)
      PROVE  Kept'
  BY <1>4 DEF ActionLocks, Take, GoTo, Visits, SameRequest
<1>5. ASSUME NEW t \in Clients, ActionEnd(t)
      PROVE  Kept'
  BY <1>5 DEF ActionEnd, Leave, Answer, Forget, GoTo, Free
<1>6. ASSUME NEW t \in Clients, NEW o \in Ids, ActionChecks(t, o)
      PROVE  Kept'
  BY <1>6 DEF ActionChecks, Leave, Answer, Forget, GoTo, Free, Visits
<1>7. ASSUME NEW t \in Clients, SaveBegin(t)
      PROVE  Kept'
  BY <1>7 DEF SaveBegin, Take, GoTo, SameRequest
<1>8. ASSUME NEW t \in Clients, SaveReplace(t)
      PROVE  Kept'
  BY <1>8 DEF SaveReplace, GoTo, SameRequest
<1>9. ASSUME NEW t \in Clients, SaveFails(t)
      PROVE  Kept'
  BY <1>9 DEF SaveFails, Free, Answer, Forget, GoTo
<1>10. ASSUME NEW t \in Clients, SaveEnd(t)
      PROVE  Kept'
  BY <1>10 DEF SaveEnd, Free, Answer, Forget, GoTo
<1>11. ASSUME NEW t \in Clients, CreateBegin(t)
      PROVE  Kept'
  BY <1>11 DEF CreateBegin, GoTo
<1>12. ASSUME NEW t \in Clients, CreateSaves(t)
      PROVE  Kept'
  BY <1>12 DEF CreateSaves, GoTo, SameRequest
<1>13. ASSUME NEW t \in Clients, CreateFails(t)
      PROVE  Kept'
  BY <1>13 DEF CreateFails, Leave, Answer, Forget, GoTo
<1>14. ASSUME NEW t \in Clients, CreateEnd(t)
      PROVE  Kept'
  BY <1>14 DEF CreateEnd, Leave, Answer, Forget, GoTo
<1>15. ASSUME NEW c \in Ids, ComesToRest(c)
      PROVE  Kept'
  BY <1>15 DEF ComesToRest
<1>16. CASE Interrupt
  BY <1>16 DEF Interrupt
<1>17. CASE CloseBegin
  BY <1>17 DEF CloseBegin, GoTo, Visits, SameRequest
<1>18. CASE CloseReleases
  BY <1>18 DEF CloseReleases, GoTo, SameRequest
<1>19. CASE CloseEnd
  BY <1>19 DEF CloseEnd, Gone
<1>20. ASSUME NEW c \in Ids, CloseMarks(c)
      PROVE  Kept'
  BY <1>20 DEF CloseMarks, Visits, SameRequest
<1>21. CASE Killed
  BY <1>21 DEF Killed, Gone
<1>22. CASE Starts
  BY <1>22 DEF Starts
<1>23. CASE UNCHANGED vars
  BY <1>23 DEF vars
<1> HIDE DEF StateType, ServerType, ThreadType, Threads, Ids, None, Boss, Main, HoldsItsLocks,
      InsideChannels, Down, Kept, Stored, ConfirmedChannelsStay
<1> QED
  BY <1>1, <1>2, <1>3, <1>4, <1>5, <1>6, <1>7, <1>8, <1>9, <1>10, <1>11, <1>12, <1>13,
     <1>14, <1>15, <1>16, <1>17, <1>18, <1>19, <1>20, <1>21, <1>22, <1>23
     DEF Next, Serves, Closes

\* A channel whose creation was confirmed survives any kill (Channels.create
\* saves the profile before it registers the channel and answers).
THEOREM ConfirmedChannelsSurvive == Spec => []ConfirmedChannelsStay
<1>1. Init => Kept
  BY DEF Init, Kept, Stored, ConfirmedChannelsStay, Threads
<1>2. ChannelsInv /\ Kept /\ [Next]_vars => Kept'
  BY KeptStep DEF ChannelsInv, TypeOK
<1>3. Kept => ConfirmedChannelsStay
  BY DEF Kept
<1> QED  BY <1>1, <1>2, <1>3, InvHolds, PTL DEF Spec
-----------------------------------------------------------------------------
\* Between os.replace and the end of a save the draft is on disk, and only a channel
\* that is registered is saved; what was written of a new one is the profile that it
\* will be registered with.
Saved ==
    \A t \in Clients :
        /\ pc[t] \in {"writing", "written"} => chan[t] \in registered
        /\ pc[t] = "written" => disk[chan[t]] = draft[t]
        /\ pc[t] = "created" => disk[chan[t]] = Fresh[chan[t]]
Shown == ShownIsOnDisk /\ Saved

\* Who writes the file of a channel holds its lock, or is creating it.
LEMMA ShownStep ==
    ASSUME StateType, HoldsItsLocks, Down, AskedIsRegistered, CreatesUnused, Shown, [Next]_vars
    PROVE  Shown'
<1> USE ChannelsAssumption DEF StateType, ServerType, ThreadType, Threads, Ids, None, Boss, Main,
      HoldsItsLocks, InsideChannels, InsidePanel, Down, AskedIsRegistered, CreatesUnused, Shown, Saved, ShownIsOnDisk
<1>1. ASSUME NEW t \in Clients, NEW c \in Ids, NEW k \in Kinds, NEW p \in Profiles, Arrive(t, c,
      k, p)
      PROVE  Shown'
  BY <1>1 DEF Arrive, GoTo
<1>2. ASSUME NEW t \in Clients, Refuse(t)
      PROVE  Shown'
  BY <1>2 DEF Refuse, Answer, Forget, GoTo
<1>3. ASSUME NEW t \in Clients, ActionBegin(t)
      PROVE  Shown'
  BY <1>3 DEF ActionBegin, GoTo, SameRequest
<1>4. ASSUME NEW t \in Clients, ActionLocks(t)
      PROVE  Shown'
  BY <1>4 DEF ActionLocks, Take, GoTo, Visits, SameRequest
<1>5. ASSUME NEW t \in Clients, ActionEnd(t)
      PROVE  Shown'
  BY <1>5 DEF ActionEnd, Leave, Answer, Forget, GoTo, Free
<1>6. ASSUME NEW t \in Clients, NEW o \in Ids, ActionChecks(t, o)
      PROVE  Shown'
  <2>1. CASE Conflict(chan[t], o, kind[t])
    <3>1. /\ pc' = [pc EXCEPT ![t] = "idle"] /\ draft' = [draft EXCEPT ![t] = Fresh[Main]]
          /\ chan' = [chan EXCEPT ![t] = Main] /\ pc[t] = "check"
          /\ UNCHANGED <<up, registered, profile, disk>>
      BY <1>6, <2>1 DEF ActionChecks, Leave, Answer, Forget, GoTo
    <3> QED  BY <3>1
  <2>2. CASE ~Conflict(chan[t], o, kind[t])
    BY <1>6, <2>2 DEF ActionChecks, Visits
  <2> QED  BY <2>1, <2>2
<1>7. ASSUME NEW t \in Clients, SaveBegin(t)
      PROVE  Shown'
  BY <1>7 DEF SaveBegin, Take, GoTo, SameRequest
<1>8. ASSUME NEW t \in Clients, SaveReplace(t)
      PROVE  Shown'
  BY <1>8 DEF SaveReplace, GoTo, SameRequest
<1>9. ASSUME NEW t \in Clients, SaveFails(t)
      PROVE  Shown'
  BY <1>9 DEF SaveFails, Free, Answer, Forget, GoTo
<1>10. ASSUME NEW t \in Clients, SaveEnd(t)
      PROVE  Shown'
  BY <1>10 DEF SaveEnd, Free, Answer, Forget, GoTo
<1>11. ASSUME NEW t \in Clients, CreateBegin(t)
      PROVE  Shown'
  BY <1>11 DEF CreateBegin, GoTo
<1>12. ASSUME NEW t \in Clients, CreateSaves(t)
      PROVE  Shown'
  BY <1>12 DEF CreateSaves, GoTo, SameRequest
<1>13. ASSUME NEW t \in Clients, CreateFails(t)
      PROVE  Shown'
  BY <1>13 DEF CreateFails, Leave, Answer, Forget, GoTo
<1>14. ASSUME NEW t \in Clients, CreateEnd(t)
      PROVE  Shown'
  BY <1>14 DEF CreateEnd, Leave, Answer, Forget, GoTo
<1>15. ASSUME NEW c \in Ids, ComesToRest(c)
      PROVE  Shown'
  BY <1>15 DEF ComesToRest
<1>16. CASE Interrupt
  BY <1>16 DEF Interrupt
<1>17. CASE CloseBegin
  BY <1>17 DEF CloseBegin, GoTo, Visits, SameRequest
<1>18. CASE CloseReleases
  BY <1>18 DEF CloseReleases, GoTo, SameRequest
<1>19. CASE CloseEnd
  BY <1>19 DEF CloseEnd, Gone
<1>20. ASSUME NEW c \in Ids, CloseMarks(c)
      PROVE  Shown'
  BY <1>20 DEF CloseMarks, Visits, SameRequest
<1>21. CASE Killed
  BY <1>21 DEF Killed, Gone
<1>22. CASE Starts
  BY <1>22 DEF Starts
<1>23. CASE UNCHANGED vars
  BY <1>23 DEF vars
<1> HIDE DEF StateType, ServerType, ThreadType, Threads, Ids, None, Boss, Main, HoldsItsLocks,
      InsideChannels, InsidePanel, Down, AskedIsRegistered, CreatesUnused, Shown, Saved, ShownIsOnDisk
<1> QED
  BY <1>1, <1>2, <1>3, <1>4, <1>5, <1>6, <1>7, <1>8, <1>9, <1>10, <1>11, <1>12, <1>13,
     <1>14, <1>15, <1>16, <1>17, <1>18, <1>19, <1>20, <1>21, <1>22, <1>23
     DEF Next, Serves, Closes

\* What the panel shows of a registered channel is what a restart will read, but while
\* a save is between os.replace and self.config (Panel.save_config, Channels.create,
\* Panel.__init__).
THEOREM WhatIsShownIsOnDisk == Spec => []ShownIsOnDisk
<1>1. Init => Shown
  BY ChannelsAssumption DEF Init, Shown, Saved, ShownIsOnDisk, Threads, Main, Ids
<1>2. ChannelsInv /\ Shown /\ [Next]_vars => Shown'
  BY ShownStep DEF ChannelsInv, TypeOK
<1>3. Shown => ShownIsOnDisk
  BY DEF Shown
<1> QED  BY <1>1, <1>2, <1>3, InvHolds, PTL DEF Spec
=============================================================================
