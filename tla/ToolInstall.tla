---------------------------- MODULE ToolInstall -----------------------------
(***************************************************************************)
(* How the application (App/AppDelegate.m) ensures that the newest helper  *)
(* tool is installed, and the XPC connection object it asks over, which it *)
(* shares with the start/stop button.                                      *)
(*                                                                         *)
(* The main thread runs the blocks of the main queue; replies, error       *)
(* handlers and the invalidation handler run on a queue of the connection, *)
(* in no guaranteed order, and append blocks to the main queue.            *)
(***************************************************************************)
EXTENDS Naturals, Sequences

CONSTANTS
    NoTool, OldTool, NewTool, \* versions; NewTool is the application's own
    MaxConnections, \* bound: connection objects
    MaxClicks,      \* bound: clicks on the start/stop button
    MaxLingers,     \* bound: times an old process survives an installation
    MaxCrashes,     \* bound: crashes of the helper
    MaxUninstalls   \* bound: runs of Uninstall.sh

ASSUME InstallAssumption ==
    /\ NoTool # OldTool /\ NoTool # NewTool /\ OldTool # NewTool
    /\ {"invalid", "interrupted"} \cap {NoTool, OldTool, NewTool} = {}
    /\ MaxConnections \in Nat /\ MaxClicks \in Nat /\ MaxLingers \in Nat
    /\ MaxCrashes \in Nat /\ MaxUninstalls \in Nat

Versions == {NoTool, OldTool, NewTool}

Connections == 1 .. MaxConnections

Nil == 0

VARIABLES
    connection, \* helperToolConnection
    created,    \* number of connection objects created
    valid,      \* of each, is it valid?
    armed,      \* of each, has it got an invalidation handler?
    pending,    \* the messages not yet answered: <<what, connection>>
    mainQueue,  \* the blocks of the main queue
    installed,  \* the version of the tool that launchd knows
    process,    \* the version of the helper process that runs, or NoTool
    outcome,    \* what became of _ensureThatNewestToolIsInstalled
    stale,      \* history: was the version asked for over an invalid connection?
    budget      \* what is left of the bounds

xpc == <<connection, created, valid, armed, pending>>
tool == <<installed, process>>
vars == <<xpc, mainQueue, tool, outcome, stale, budget>>

Init ==
    /\ connection = Nil /\ created = 0
    /\ valid = [c \in Connections |-> FALSE]
    /\ armed = [c \in Connections |-> FALSE]
    /\ pending = {} /\ mainQueue = <<>>
    /\ installed \in Versions
    /\ process \in {NoTool, installed}
    /\ outcome = "not asked" /\ stale = FALSE
    /\ budget = [clicks |-> MaxClicks, lingers |-> MaxLingers,
                 crashes |-> MaxCrashes, uninstalls |-> MaxUninstalls]

-----------------------------------------------------------------------------
(***************************************************************************)
(* The connection object.                                                  *)
(***************************************************************************)

\* Mutant: a connection that has become invalid is replaced at once.
Mut_MustConnect == connection = Nil \/ ~valid[connection]

\* if (self.helperToolConnection == nil)
MustConnect == connection = Nil

\* The connection a message is sent over.
Connected == IF MustConnect THEN created + 1 ELSE connection

\* connectAndExecuteCommandBlock:, with a command that sends one message.
Send(message) ==
    /\ Connected \in Connections
    /\ connection' = Connected
    /\ created' = IF MustConnect THEN created + 1 ELSE created
    /\ valid' = IF MustConnect THEN [valid EXCEPT ![Connected] = TRUE] ELSE valid
    /\ armed' = IF MustConnect THEN [armed EXCEPT ![Connected] = TRUE] ELSE armed

\* _getVersionWithReply:
AskVersion(left) ==
    /\ Send("version")
    /\ pending' = left \cup {<<"version", Connected>>}
    /\ stale' = (~MustConnect /\ ~valid[connection])
    /\ outcome' = "asking"

Reply(what) == [do |-> "reply", what |-> what]

\* Mutant: the error handler of a click goes on like that of the version.
Mut_Failed(messages, error) == IF messages # {} THEN <<Reply(error)>> ELSE <<>>

\* What the main queue gets when the messages of a set fail with an error.  The
\* error of a click is only logged.
Failed(messages, error) ==
    IF \E m \in messages : m[1] = "version" THEN <<Reply(error)>> ELSE <<>>

-----------------------------------------------------------------------------
(***************************************************************************)
(* The main thread.                                                        *)
(***************************************************************************)
DidFinishLaunching ==
    /\ outcome = "not asked"
    /\ AskVersion(pending)
    /\ UNCHANGED <<mainQueue, tool, budget>>

\* toggleHijacking: sends a message over the same connection.
Click ==
    /\ outcome # "not asked" /\ budget.clicks > 0
    /\ Send("click")
    /\ pending' = pending \cup {<<"click", Connected>>}
    /\ budget' = [budget EXCEPT !.clicks = @ - 1]
    /\ UNCHANGED <<mainQueue, tool, outcome, stale>>

\* Mutant: the block of the invalidation handler is never queued.
Mut_DropBlock == <<>>

\* The block that sets helperToolConnection to nil.
DropBlock == <<[do |-> "drop"]>>

First(kind) == mainQueue # <<>> /\ Head(mainQueue).do = kind

DropConnection ==
    /\ First("drop")
    /\ connection' = Nil
    /\ mainQueue' = Tail(mainQueue)
    /\ UNCHANGED <<created, valid, armed, pending, tool, outcome, stale,
                   budget>>

\* Mutant: a version is a version.
Mut_IsNewestAny(version) == version # NoTool

\* [version isEqualToString:localVersion]
IsNewest(version) == version = NewTool

\* Mutant: every error means that there is no tool.
Mut_IsMissing(error) == error \in {"invalid", "interrupted"}

\* [error code] == 4099
IsMissing(error) == error = "invalid"

MustInstall(what) ==
    IF what \in Versions THEN ~IsNewest(what) ELSE IsMissing(what)

VersionReply ==
    /\ First("reply") /\ ~MustInstall(Head(mainQueue).what)
    /\ mainQueue' = Tail(mainQueue)
    /\ outcome' = IF Head(mainQueue).what \in Versions THEN "available" ELSE "error"
    /\ UNCHANGED <<xpc, tool, stale, budget>>

\* SMJobBless, then the next round, in the same block.  A process of the old tool
\* is killed, and what it had been sent is interrupted, or it lingers.
Install ==
    /\ First("reply") /\ MustInstall(Head(mainQueue).what)
    /\ installed' = NewTool
    /\ \/ /\ process' = NoTool
          /\ \E lost \in SUBSET {m \in pending : valid[m[2]] /\ process # NoTool} :
                AskVersion(pending \ lost)
          /\ UNCHANGED budget
       \/ /\ process # NoTool /\ budget.lingers > 0
          /\ budget' = [budget EXCEPT !.lingers = @ - 1]
          /\ AskVersion(pending)
          /\ UNCHANGED process
    /\ mainQueue' = Tail(mainQueue)

\* Mutant: the next round does not wait for an installation that succeeds.
Mut_InstallFails ==
    /\ First("reply") /\ MustInstall(Head(mainQueue).what)
    /\ AskVersion(pending)
    /\ mainQueue' = Tail(mainQueue)
    /\ UNCHANGED <<tool, budget>>

\* SMJobBless fails, for instance because the user does not authorize it.
InstallFails ==
    /\ First("reply") /\ MustInstall(Head(mainQueue).what)
    /\ outcome' = "failed"
    /\ mainQueue' = Tail(mainQueue)
    /\ UNCHANGED <<xpc, tool, stale, budget>>

-----------------------------------------------------------------------------
(***************************************************************************)
(* launchd, the helper and the connection's queue.                         *)
(***************************************************************************)
Launch ==
    /\ process = NoTool /\ installed # NoTool
    /\ \E m \in pending : valid[m[2]]
    /\ process' = installed
    /\ UNCHANGED <<xpc, mainQueue, installed, outcome, stale, budget>>

Answer(m) ==
    /\ m \in pending /\ valid[m[2]] /\ process # NoTool
    /\ pending' = pending \ {m}
    /\ mainQueue' = IF m[1] = "version" THEN Append(mainQueue, Reply(process))
                                        ELSE mainQueue
    /\ UNCHANGED <<connection, created, valid, armed, tool, outcome, stale, budget>>

\* There is no service to connect to.
Invalidate(c) ==
    /\ valid[c] /\ installed = NoTool /\ process = NoTool
    /\ \E m \in pending : m[2] = c
    /\ valid' = [valid EXCEPT ![c] = FALSE]
    /\ UNCHANGED <<connection, created, armed, pending, mainQueue, tool, outcome,
                   stale, budget>>

\* The error handler of a message.
FailInvalid(m) ==
    /\ m \in pending /\ ~valid[m[2]]
    /\ pending' = pending \ {m}
    /\ mainQueue' = mainQueue \o Failed({m}, "invalid")
    /\ UNCHANGED <<connection, created, valid, armed, tool, outcome, stale, budget>>

\* The handler of an invalid connection removes the handler of the connection the
\* application has by now.
InvalidationHandler(c) ==
    /\ ~valid[c] /\ armed[c]
    /\ armed' = [d \in Connections |-> armed[d] /\ d \notin {c, connection}]
    /\ mainQueue' = mainQueue \o DropBlock
    /\ UNCHANGED <<connection, created, valid, pending, tool, outcome, stale, budget>>

\* No process runs any more; the messages that one had been sent are interrupted.
NoProcess ==
    /\ process' = NoTool
    /\ \E lost \in SUBSET {m \in pending : valid[m[2]] /\ process # NoTool} :
          /\ pending' = pending \ lost
          /\ mainQueue' = mainQueue \o Failed(lost, "interrupted")
    /\ UNCHANGED <<connection, created, valid, armed, outcome, stale>>

ProcessEnds == process # NoTool /\ NoProcess

\* An old process ends when it will; launchd uses the new tool from then on.
OldProcessEnds ==
    /\ process # installed /\ ProcessEnds
    /\ UNCHANGED <<installed, budget>>

Crash ==
    /\ budget.crashes > 0 /\ ProcessEnds
    /\ budget' = [budget EXCEPT !.crashes = @ - 1]
    /\ UNCHANGED installed

\* Uninstall.sh unloads and removes the tool, whether or not its process runs, and
\* whether or not it is there.
Uninstall ==
    /\ budget.uninstalls > 0 /\ NoProcess
    /\ installed' = NoTool
    /\ budget' = [budget EXCEPT !.uninstalls = @ - 1]

-----------------------------------------------------------------------------
MainThread ==
    \/ DidFinishLaunching \/ DropConnection
    \/ VersionReply \/ Install \/ InstallFails

Next ==
    \/ MainThread \/ Click
    \/ Launch \/ OldProcessEnds \/ Crash \/ Uninstall
    \/ \E m \in pending : Answer(m) \/ FailInvalid(m)
    \/ \E c \in Connections : Invalidate(c) \/ InvalidationHandler(c)

Spec == Init /\ [][Next]_vars

\* The main thread runs its blocks, launchd launches, and the connections' queues
\* answer and run every handler.  An old process need not end.
Fairness ==
    /\ WF_vars(MainThread) /\ WF_vars(Launch)
    /\ \A c \in Connections :
          /\ WF_vars(Invalidate(c)) /\ WF_vars(InvalidationHandler(c))
          /\ \A what \in {"version", "click"} :
                WF_vars(Answer(<<what, c>>) \/ FailInvalid(<<what, c>>))

FairSpec == Spec /\ Fairness

-----------------------------------------------------------------------------
Outcomes == {"not asked", "asking", "available", "error", "failed"}

Asked == {m \in pending : m[1] = "version"}

Replied == {i \in DOMAIN mainQueue : mainQueue[i].do = "reply"}

\* There is one query or its reply under way exactly as long as the outcome is
\* open: the recursion neither forks nor ends without an outcome.
OneQuery ==
    /\ \A m, n \in Asked : m = n
    /\ \A i, j \in Replied : i = j
    /\ Asked = {} \/ Replied = {}
    /\ outcome = "asking" <=> Asked # {} \/ Replied # {}

Blocks == {[do |-> "drop"]}
          \cup {Reply(what) : what \in Versions \cup {"invalid", "interrupted"}}

Budgets == [clicks : 0 .. MaxClicks, lingers : 0 .. MaxLingers,
            crashes : 0 .. MaxCrashes, uninstalls : 0 .. MaxUninstalls]

Types ==
    /\ created \in 0 .. MaxConnections /\ connection \in 0 .. created
    /\ valid \in [Connections -> BOOLEAN] /\ armed \in [Connections -> BOOLEAN]
    /\ pending \subseteq {"version", "click"} \X (1 .. created)
    /\ mainQueue \in Seq(Blocks)
    /\ installed \in Versions /\ process \in Versions
    /\ outcome \in Outcomes /\ stale \in BOOLEAN
    /\ budget \in Budgets

\* The types; the only messages are over connections that exist; and one query at
\* a time.
TypeOK == Types /\ OneQuery

\* The block queued for an invalid connection names no connection; yet it never
\* drops one that is valid, because the application makes no other before.
DropsOnlyInvalid ==
    [][connection # Nil /\ connection' = Nil => ~valid[connection]]_vars

\* A connection that became invalid is given up in the end, and with it the
\* commands that fail on it.
InvalidIsDropped ==
    \A c \in Connections :
        (connection = c /\ ~valid[c]) ~> connection # c

\* A tool that is the newest already is not installed again, which would ask the
\* user to authorize it again: unless the version was asked for over a connection
\* that was invalid, or the process of the old tool survived the installation and
\* answered, or somebody uninstalled the tool.
InstallsOnlyIfNeeded ==
    [][Install /\ installed = NewTool
        => \/ stale
           \/ budget.lingers # MaxLingers
           \/ budget.uninstalls # MaxUninstalls]_vars

\* When the application found the tool available, it is the newest.
AvailableIsNewest ==
    outcome = "available" /\ budget.uninstalls = MaxUninstalls
        => installed = NewTool

\* The recursion ends.
Settles == <>(outcome \in {"available", "error", "failed"})

=============================================================================
