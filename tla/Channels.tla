------------------------------ MODULE Channels ------------------------------
(***************************************************************************)
(* The channels of webpanel/server.py: class Channels, the Handler threads *)
(* that call it and the Panels it holds, with their locks.  Channels.lock  *)
(* is owner, the lock of panel c is holder[c]; a critical section that     *)
(* takes no other lock and writes no file is one action, the others are    *)
(* one action per lock taken or file written.                              *)
(*                                                                         *)
(* Of a Panel only what its neighbours can see is kept: whether it is busy *)
(* and with what (op[c]), its profile, and closing.  That a panel becomes  *)
(* busy in no other way than by a request that action() lets through is a  *)
(* property of Panel.tla (QuietUntilAsked); how it comes to rest again is  *)
(* all of Panel.tla, and one action, ComesToRest, here.                    *)
(*                                                                         *)
(* The server runs in a container that may be killed at any moment, with   *)
(* all its processes; what os.replace has put on disk stays.  The machine  *)
(* stays up: nothing here is about a loss of power.                        *)
(***************************************************************************)
EXTENDS Naturals, FiniteSets

CONSTANTS
    MaxChannels,    \* Channels.MAX_CHANNELS
    Clients,        \* bound: Handler threads at a time
    Inputs,         \* local ports a source may listen on
    Outputs,        \* destinations, with the names of the loopback made one
    Profiles,       \* bound: the profiles that are saved
    Fresh,          \* Fresh[c]: the profile with which c is created
    Nothing         \* no config.json

Ids == 1..MaxChannels
Main == 1           \* "main"; c stands for "channel-c"
None == 0           \* nobody: a free lock
Boss == 1           \* the main thread, which runs Channels.close
Threads == Clients \cup {Boss}
Kinds == {"probe", "start", "save", "create"}
ProfileType == [ports : SUBSET Inputs, out : Outputs]

ASSUME ChannelsAssumption ==
    /\ MaxChannels \in Nat \ {0}
    /\ None \notin Clients /\ Boss \notin Clients
    /\ Profiles \subseteq ProfileType
    /\ Fresh \in [Ids -> ProfileType]
    /\ Nothing \notin ProfileType

VARIABLES
    up,         \* the process of the server exists
    serving,    \* serve_forever has not been interrupted
    closing,    \* Channels.closing
    registered, \* keys of Channels.panels
    profile,    \* Panel.config
    op,         \* what keeps the panel busy (Panel._busy), "none" if it is not
    shut,       \* Panel.closing
    disk,       \* config.json of the channel
    owner,      \* who holds Channels.lock
    holder,     \* who holds the panel's lock
    pc, chan, kind, draft,  \* each thread: where it is, and its request
    left,       \* channels that the loop of the thread has yet to visit
    known       \* for the properties: channels whose creation was confirmed

memory == <<closing, registered, profile, op, shut>>
locks == <<owner, holder>>
requests == <<pc, chan, kind, draft, left>>
vars == <<up, serving, memory, disk, locks, requests, known>>

Points == {"idle", "arrived", "own", "check", "writing", "written",
           "creating", "created", "marking", "closed"}
ServerType ==
    /\ up \in BOOLEAN /\ serving \in BOOLEAN /\ closing \in BOOLEAN
    /\ registered \in SUBSET Ids /\ known \in SUBSET Ids
    /\ profile \in [Ids -> ProfileType]
    /\ op \in [Ids -> {"none", "probe", "start"}]
    /\ shut \in [Ids -> BOOLEAN]
    /\ disk \in [Ids -> ProfileType \cup {Nothing}]
ThreadType ==
    /\ owner \in Threads \cup {None} /\ holder \in [Ids -> Threads \cup {None}]
    /\ pc \in [Threads -> Points] /\ chan \in [Threads -> Ids]
    /\ kind \in [Threads -> Kinds] /\ draft \in [Threads -> ProfileType]
    /\ left \in [Threads -> SUBSET Ids]

\* Who is inside a critical section holds its lock, so that nobody else is.
InsideChannels == {"own", "check", "creating", "created", "marking"}
InsidePanel == {"check", "writing", "written"}
HoldsItsLocks ==
    \A t \in Threads :
        /\ pc[t] \in InsideChannels => owner = t
        /\ pc[t] \in InsidePanel => holder[chan[t]] = t
StateType == ServerType /\ ThreadType
TypeOK == StateType /\ HoldsItsLocks

Init ==
    /\ up = TRUE /\ serving = TRUE /\ closing = FALSE
    /\ registered = {Main} /\ known = {Main}
    /\ profile = Fresh
    /\ op = [c \in Ids |-> "none"] /\ shut = [c \in Ids |-> FALSE]
    /\ disk = [c \in Ids |-> Nothing]
    /\ owner = None /\ holder = [c \in Ids |-> None]
    /\ pc = [t \in Threads |-> "idle"] /\ chan = [t \in Threads |-> Main]
    /\ kind = [t \in Threads |-> "probe"] /\ draft = [t \in Threads |-> Fresh[Main]]
    /\ left = [t \in Threads |-> {}]

-----------------------------------------------------------------------------
GoTo(t, point) == pc' = [pc EXCEPT ![t] = point]
Forget(t) ==
    /\ chan' = [chan EXCEPT ![t] = Main] /\ kind' = [kind EXCEPT ![t] = "probe"]
    /\ draft' = [draft EXCEPT ![t] = Fresh[Main]] /\ left' = [left EXCEPT ![t] = {}]
Visits(t, set) == left' = [left EXCEPT ![t] = set]
SameRequest == UNCHANGED <<chan, kind, draft>>

Take(t, c) == holder[c] = None /\ holder' = [holder EXCEPT ![c] = t]
Free(c) == holder' = [holder EXCEPT ![c] = None]

\* The thread answers, and gives up what it holds.
Answer(t) == GoTo(t, "idle") /\ Forget(t)
Leave(t) == Answer(t) /\ owner' = None

\* A request reaches Handler._dispatch, which looks its panel up.
Arrive(t, c, k, p) ==
    /\ up /\ serving /\ pc[t] = "idle"
    /\ c \in registered /\ (k = "create" => c = Main)
    /\ GoTo(t, "arrived")
    /\ chan' = [chan EXCEPT ![t] = c] /\ kind' = [kind EXCEPT ![t] = k]
    /\ draft' = [draft EXCEPT ![t] = IF k = "save" THEN p ELSE @]
    /\ UNCHANGED <<up, serving, memory, disk, locks, left, known>>

\* Any request may be refused for what it says (its revision, say), or by action()
\* or create() because the server is closing.
Refuse(t) ==
    /\ pc[t] = "arrived"
    /\ Answer(t)
    /\ UNCHANGED <<up, serving, memory, disk, locks, known>>

-----------------------------------------------------------------------------
(* Channels.action: the locks, the other panels one by one, Panel.action.  *)

ActionBegin(t) ==
    /\ pc[t] = "arrived" /\ kind[t] \in {"probe", "start"}
    /\ owner = None /\ ~closing
    /\ owner' = t
    /\ GoTo(t, "own")
    /\ UNCHANGED <<up, serving, memory, disk, holder, left, known>> /\ SameRequest

ActionLocks(t) ==
    /\ pc[t] = "own" /\ Take(t, chan[t])
    /\ GoTo(t, "check") /\ Visits(t, registered \ {chan[t]})
    /\ UNCHANGED <<up, serving, memory, disk, owner, known>> /\ SameRequest

Conflict_OnlyStarted(c, o, k) ==
    /\ op[o] = "start"
    /\ \/ profile[c].ports \cap profile[o].ports # {}
       \/ k = "start" /\ profile[c].out = profile[o].out
Conflict_OnlyInputs(c, o, k) ==
    op[o] # "none" /\ profile[c].ports \cap profile[o].ports # {}
\* The panel o is busy and the profile of c needs something of its
Conflict(c, o, k) ==
    /\ op[o] # "none"
    /\ \/ profile[c].ports \cap profile[o].ports # {}
       \/ k = "start" /\ profile[c].out = profile[o].out

ActionChecks_KeepsLock(t, o) ==
    /\ pc[t] = "check" /\ o \in left[t] /\ holder[o] = None
    /\ IF Conflict(chan[t], o, kind[t])
       THEN Leave(t) /\ UNCHANGED holder
       ELSE Visits(t, left[t] \ {o}) /\ UNCHANGED <<pc, chan, kind, draft, locks>>
    /\ UNCHANGED <<up, serving, memory, disk, known>>
ActionChecks(t, o) ==
    /\ pc[t] = "check" /\ o \in left[t] /\ holder[o] = None
    /\ IF Conflict(chan[t], o, kind[t])
       THEN Leave(t) /\ Free(chan[t])
       ELSE Visits(t, left[t] \ {o}) /\ UNCHANGED <<pc, chan, kind, draft, locks>>
    /\ UNCHANGED <<up, serving, memory, disk, known>>

\* Panel.action refuses a closing or a busy panel, and may fail to launch.
ActionEnd(t) ==
    /\ pc[t] = "check" /\ left[t] = {}
    /\ \/ /\ ~shut[chan[t]] /\ op[chan[t]] = "none"
          /\ op' = [op EXCEPT ![chan[t]] = kind[t]]
       \/ UNCHANGED op
    /\ Leave(t) /\ Free(chan[t])
    /\ UNCHANGED <<up, serving, closing, registered, profile, shut, disk, known>>

\* The operation of a panel ends: Stop, the end of a probe, an exit that is not
\* to be followed by a restart (Panel.tla).
ComesToRest(c) ==
    /\ op[c] # "none" /\ holder[c] = None
    /\ op' = [op EXCEPT ![c] = "none"]
    /\ UNCHANGED <<up, serving, closing, registered, profile, shut, disk, locks, requests, known>>

-----------------------------------------------------------------------------
(* Panel.save_config, without Channels.lock.                               *)

SaveBegin_Unlocked(t) ==
    LET c == chan[t] IN
    /\ pc[t] = "arrived" /\ kind[t] = "save"
    /\ op[c] = "none"
    /\ holder' = [holder EXCEPT ![c] = t]
    /\ GoTo(t, "writing")
    /\ UNCHANGED <<up, serving, memory, disk, owner, left, known>> /\ SameRequest
SaveBegin(t) ==
    LET c == chan[t] IN
    /\ pc[t] = "arrived" /\ kind[t] = "save"
    /\ Take(t, c) /\ op[c] = "none"
    /\ GoTo(t, "writing")
    /\ UNCHANGED <<up, serving, memory, disk, owner, left, known>> /\ SameRequest

\* os.replace.  No fsync of the directory follows: a kill does not undo the new name,
\* a loss of power, which is not modelled, might.
SaveReplace(t) ==
    /\ pc[t] = "writing"
    /\ disk' = [disk EXCEPT ![chan[t]] = draft[t]]
    /\ GoTo(t, "written")
    /\ UNCHANGED <<up, serving, memory, locks, left, known>> /\ SameRequest

SaveFails_KeepsDraft(t) ==
    /\ pc[t] = "writing"
    /\ profile' = [profile EXCEPT ![chan[t]] = draft[t]]
    /\ Free(chan[t]) /\ Answer(t)
    /\ UNCHANGED <<up, serving, closing, registered, op, shut, disk, owner, known>>
\* An OSError before that
SaveFails(t) ==
    /\ pc[t] = "writing"
    /\ Free(chan[t]) /\ Answer(t)
    /\ UNCHANGED <<up, serving, memory, disk, owner, known>>

SaveEnd(t) ==
    /\ pc[t] = "written"
    /\ profile' = [profile EXCEPT ![chan[t]] = draft[t]]
    /\ Free(chan[t]) /\ Answer(t)
    /\ UNCHANGED <<up, serving, closing, registered, op, shut, disk, owner, known>>

-----------------------------------------------------------------------------
(* Channels.create: its Panel saves the profile before it is registered,   *)
(* and can be reached only afterwards.                                     *)

Unused == Ids \ registered
CreateBegin(t) ==
    /\ pc[t] = "arrived" /\ kind[t] = "create"
    /\ owner = None /\ ~closing
    /\ Unused # {}
    /\ owner' = t
    /\ chan' = [chan EXCEPT ![t] = CHOOSE c \in Unused : \A d \in Unused : c <= d]
    /\ GoTo(t, "creating")
    /\ UNCHANGED <<up, serving, memory, disk, holder, kind, draft, left, known>>

CreateSaves_Later(t) ==
    /\ pc[t] = "creating"
    /\ UNCHANGED disk
    /\ GoTo(t, "created")
    /\ UNCHANGED <<up, serving, memory, locks, left, known>> /\ SameRequest
CreateSaves(t) ==
    /\ pc[t] = "creating"
    /\ disk' = [disk EXCEPT ![chan[t]] = Fresh[chan[t]]]
    /\ GoTo(t, "created")
    /\ UNCHANGED <<up, serving, memory, locks, left, known>> /\ SameRequest

\* The limit, or an OSError before os.replace
CreateFails(t) ==
    /\ pc[t] = "creating"
    /\ Leave(t)
    /\ UNCHANGED <<up, serving, memory, disk, holder, known>>

CreateEnd(t) ==
    LET c == chan[t] IN
    /\ pc[t] = "created"
    /\ registered' = registered \cup {c} /\ known' = known \cup {c}
    /\ profile' = [profile EXCEPT ![c] = Fresh[c]]
    /\ Leave(t)
    /\ UNCHANGED <<up, serving, closing, op, shut, disk, holder>>

-----------------------------------------------------------------------------
(* The end of main(): SIGTERM interrupts serve_forever, then Channels.close *)
(* marks every panel under the locks, and stops and waits for all of them. *)

Interrupt ==
    /\ up /\ serving /\ serving' = FALSE
    /\ UNCHANGED <<up, memory, disk, locks, requests, known>>

CloseBegin_Unlocked ==
    /\ up /\ ~serving /\ pc[Boss] = "idle"
    /\ closing' = TRUE
    /\ GoTo(Boss, "marking") /\ Visits(Boss, registered)
    /\ UNCHANGED <<up, serving, registered, profile, op, shut, disk, locks, known>>
    /\ SameRequest
CloseBegin ==
    /\ up /\ ~serving /\ pc[Boss] = "idle" /\ owner = None
    /\ owner' = Boss /\ closing' = TRUE
    /\ GoTo(Boss, "marking") /\ Visits(Boss, registered)
    /\ UNCHANGED <<up, serving, registered, profile, op, shut, disk, holder, known>>
    /\ SameRequest

CloseMarks(c) ==
    /\ pc[Boss] = "marking" /\ c \in left[Boss] /\ holder[c] = None
    /\ shut' = [shut EXCEPT ![c] = TRUE]
    /\ Visits(Boss, left[Boss] \ {c})
    /\ UNCHANGED <<up, serving, closing, registered, profile, op, disk, locks, pc, known>>
    /\ SameRequest

CloseReleases ==
    /\ pc[Boss] = "marking" /\ left[Boss] = {}
    /\ owner' = None /\ GoTo(Boss, "closed")
    /\ UNCHANGED <<up, serving, memory, disk, holder, left, known>> /\ SameRequest

\* What is left of a server that is gone: the disk
Gone ==
    /\ up' = FALSE /\ serving' = FALSE /\ closing' = FALSE
    /\ registered' = {} /\ profile' = Fresh
    /\ op' = [c \in Ids |-> "none"] /\ shut' = [c \in Ids |-> FALSE]
    /\ owner' = None /\ holder' = [c \in Ids |-> None]
    /\ pc' = [t \in Threads |-> "idle"] /\ chan' = [t \in Threads |-> Main]
    /\ kind' = [t \in Threads |-> "probe"] /\ draft' = [t \in Threads |-> Fresh[Main]]
    /\ left' = [t \in Threads |-> {}]
    /\ UNCHANGED <<disk, known>>

\* main() returns, and with it go the Handler threads, which are daemons
CloseEnd ==
    /\ pc[Boss] = "closed" /\ \A c \in Ids : op[c] = "none"
    /\ Gone

Killed == up /\ Gone

\* Channels.__init__ and Panel.__init__
Starts ==
    /\ ~up /\ up' = TRUE /\ serving' = TRUE
    /\ registered' = {Main} \cup {c \in Ids : disk[c] # Nothing}
    /\ profile' = [c \in Ids |-> IF disk[c] = Nothing THEN Fresh[c] ELSE disk[c]]
    /\ UNCHANGED <<closing, op, shut, disk, locks, requests, known>>

-----------------------------------------------------------------------------
Serves(t) ==
    \/ Refuse(t)
    \/ ActionBegin(t) \/ ActionLocks(t) \/ ActionEnd(t)
    \/ \E o \in Ids : ActionChecks(t, o)
    \/ SaveBegin(t) \/ SaveReplace(t) \/ SaveFails(t) \/ SaveEnd(t)
    \/ CreateBegin(t) \/ CreateSaves(t) \/ CreateFails(t) \/ CreateEnd(t)
Closes == CloseBegin \/ CloseReleases \/ CloseEnd \/ \E c \in Ids : CloseMarks(c)

Next ==
    \/ \E t \in Clients, c \in Ids, k \in Kinds, p \in Profiles : Arrive(t, c, k, p)
    \/ \E t \in Clients : Serves(t)
    \/ \E c \in Ids : ComesToRest(c)
    \/ Interrupt \/ Closes \/ Killed \/ Starts

Spec == Init /\ [][Next]_vars

\* Threads go on; a panel that is closing comes to rest (CloseEndsEncoder of
\* Panel.tla).  Nobody else need stop, or ask for anything.
Fairness ==
    /\ \A t \in Clients : WF_vars(Serves(t))
    /\ WF_vars(Closes)
    /\ \A c \in Ids : WF_vars(shut[c] /\ ComesToRest(c))
FairSpec == Spec /\ Fairness

-----------------------------------------------------------------------------
\* Two channels that are busy, even if only probing or waiting for a restart,
\* never listen on the same port (CONTRACT.md, "Canali"): nobody can save or
\* start behind the back of the check.
InputsDisjoint ==
    \A a, b \in Ids :
        a # b /\ op[a] # "none" /\ op[b] # "none" => profile[a].ports \cap profile[b].ports = {}

\* Two channels that are started never send to the same destination.
OutputsDistinct ==
    \A a, b \in Ids :
        a # b /\ op[a] = "start" /\ op[b] = "start" => profile[a].out # profile[b].out

\* What the panel shows is what a restart will bring back: the profile in memory
\* is the one on disk, but while a save is between the two.
ShownIsOnDisk ==
    up => \A c \in registered :
            \/ disk[c] = profile[c]
            \/ disk[c] = Nothing /\ c = Main /\ profile[c] = Fresh[c]
            \/ \E t \in Clients : pc[t] = "written" /\ chan[t] = c

\* A channel whose creation was confirmed is there after any kill of the server,
\* between whatever two steps of the creation or of a save it came.
ConfirmedChannelsStay == up => known \subseteq registered

\* Once the server has begun to close no channel starts: a request that was
\* under way is over by then, and later ones are refused.
NoStartOnceClosing ==
    [][closing => \A c \in Ids : op[c] = "none" => op'[c] = "none"]_vars

\* SIGTERM ends the server, whatever the threads were doing: no request and no
\* panel keeps a lock that close() needs.
ServerStops == up /\ ~serving ~> ~up
=============================================================================
