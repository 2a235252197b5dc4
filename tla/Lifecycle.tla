----------------------------- MODULE Lifecycle -----------------------------
(***************************************************************************)
(* The life of a reflector (internal/signed/reflector_linux.go): its       *)
(* construction call by call, the outer loop of Run, which looks at the    *)
(* context and at the shutdown channel only between two visits to epoll,   *)
(* the deferred releases at its end, and any number of goroutines that     *)
(* call Close.  The sender's constructor and Close                         *)
(* (sender_linux.go) are here too, for the descriptors they hold; what the *)
(* reflector does with a datagram is the module Reflector.                 *)
(***************************************************************************)
EXTENDS Naturals, Sequences, FiniteSets

CONSTANTS
    Closers,    \* goroutines that call Close
    MaxCalls,   \* bound: calls of Close by one goroutine
    MaxQueue    \* bound: datagrams in the socket buffer

ASSUME LifecycleAssumption == MaxCalls \in Nat /\ MaxQueue \in Nat

VARIABLES
    kind,       \* "reflector" or "sender"
    built,      \* calls of the constructor that have succeeded
    failed,     \* the constructor has returned an error
    open,       \* descriptors open: "fd", "epfd"
    stray,      \* history: a number was closed that is not, or no longer, its own
    pc,         \* where Run is
    result,     \* what Run returns
    ctxDone,    \* the context is cancelled or past its deadline
    expired,    \* the deadline of the context is less than 1 ms away or past
    queue,      \* datagrams in the socket buffer
    shutdown,   \* the channel shutdown is closed
    closed,     \* the channel closed is closed
    closer,     \* where each goroutine is in Close
    calls,      \* how often each has called Close
    overlap,    \* history: two calls of Close were under way at once
    panicked    \* a channel was closed twice: the process is gone

constructorVars == <<kind, built, failed>>
fdVars == <<open, stray>>
runVars == <<pc, result>>
contextVars == <<ctxDone, expired>>
closeVars == <<closer, calls, overlap>>
lifeVars == <<constructorVars, fdVars, runVars, contextVars, queue, shutdown,
              closed, closeVars, panicked>>

----------------------------------------------------------------------------
(* Construction. *)

\* What NewLinuxReflector and NewLinuxSender do that can fail, in order.
Steps ==
    IF kind = "reflector"
    THEN <<"resolve", "socket", "bind", "getsockname", "epoll_create1",
           "epoll_ctl", "SO_TIMESTAMPNS">>
    ELSE <<"socket", "SO_BINDTODEVICE", "bind", "epoll_create1", "epoll_ctl",
           "SO_TIMESTAMPNS", "remote">>

Opens(step) == CASE step = "socket" -> {"fd"}
                 [] step = "epoll_create1" -> {"epfd"}
                 [] OTHER -> {}

\* Wrong variant: only the socket is closed.
ClosedOnFailure_Socket(step) ==
    IF step \in {"resolve", "socket"} THEN {} ELSE {"fd"}

\* Wrong variant: epoll_create1 is taken to have made a descriptor when it fails.
ClosedOnFailure_Early(step) ==
    CASE step \in {"resolve", "socket"} -> {}
      [] step \in {"SO_BINDTODEVICE", "bind", "getsockname"} -> {"fd"}
      [] OTHER -> {"fd", "epfd"}

\* What the error path of a step closes.
ClosedOnFailure(step) ==
    CASE step \in {"resolve", "socket"} -> {}
      [] step \in {"SO_BINDTODEVICE", "bind", "getsockname", "epoll_create1"} -> {"fd"}
      [] OTHER -> {"fd", "epfd"}

\* unix.Close of each of fds.  Of a number that is not held it closes nothing of
\* its own, and a descriptor of others if the number is in use again.
CloseFds(fds) ==
    /\ open' = open \ fds
    /\ stray' = (stray \/ ~(fds \subseteq open))

Ready == built = Len(Steps)
Constructing == ~Ready /\ ~failed

NewSucceeds ==
    /\ Constructing
    /\ open' = open \cup Opens(Steps[built + 1])
    /\ built' = built + 1
    /\ UNCHANGED <<kind, failed, stray, runVars, contextVars, queue, shutdown, closed,
                   closeVars, panicked>>

NewFails ==
    /\ Constructing
    /\ CloseFds(ClosedOnFailure(Steps[built + 1]))
    /\ failed' = TRUE
    /\ UNCHANGED <<kind, built, runVars, contextVars, queue, shutdown, closed,
                   closeVars, panicked>>

----------------------------------------------------------------------------
(* Run. *)

Running == Ready /\ ~panicked

\* Run moves on, changing nothing but where it is.
Goto(from, to) ==
    /\ Running /\ pc = from
    /\ pc' = to
    /\ UNCHANGED <<constructorVars, fdVars, result, contextVars, queue, shutdown,
                   closed, closeVars, panicked>>

\* Run returns; its deferred calls follow.
Leave(from, err) ==
    /\ Running /\ pc = from
    /\ pc' = "defers" /\ result' = err
    /\ UNCHANGED <<constructorVars, fdVars, contextVars, queue, shutdown, closed,
                   closeVars, panicked>>

Start == kind = "reflector" /\ Goto("new", "select")

\* Wrong variant: only the context is looked at.
Stopping_Context == ctxDone

Stopping == ctxDone \/ shutdown

\* The top of the loop.
Look ==
    \/ Stopping /\ Leave("select", "nil")
    \/ ~Stopping /\ expired /\ Leave("select", "deadline")
    \/ ~Stopping /\ ~expired /\ Goto("select", "epoll")

\* Wrong variant: EpollWait has no timeout.
EpollWait_Forever == queue > 0 /\ Goto("epoll", "drain")

\* EpollWait returns: a datagram, the timeout, or EINTR, which reads the socket.
EpollWait ==
    \/ queue > 0 /\ Goto("epoll", "drain")
    \/ queue = 0 /\ Goto("epoll", "select")

Interrupted == Goto("epoll", "drain")

\* Wrong variant: an empty socket is taken for a datagram.
Recvmsg_NoEagain ==
    /\ Running /\ pc = "drain"
    /\ queue' = queue - 1
    /\ UNCHANGED <<constructorVars, fdVars, runVars, contextVars, shutdown,
                   closed, closeVars, panicked>>

\* The inner loop reads until the socket is empty.
Recvmsg ==
    \/ /\ Running /\ pc = "drain" /\ queue > 0
       /\ queue' = queue - 1
       /\ UNCHANGED <<constructorVars, fdVars, runVars, contextVars, shutdown,
                      closed, closeVars, panicked>>
    \/ queue = 0 /\ Goto("drain", "select")

\* An error that Run does not expect ends it.
Fault == Leave("epoll", "epoll_wait") \/ Leave("drain", "recvmsg")

\* One of the deferred calls of Run.
Defer(from, fds, channel, to) ==
    /\ Running /\ pc = from
    /\ CloseFds(fds)
    /\ closed' = (closed \/ channel)
    /\ pc' = to
    /\ UNCHANGED <<constructorVars, result, contextVars, queue, shutdown,
                   closeVars, panicked>>

\* Wrong variant: the channel is closed before the descriptors are.
Deferred_ChannelFirst ==
    \/ Defer("defers", {}, TRUE, "defer_fd")
    \/ Defer("defer_fd", {"fd"}, FALSE, "defer_closed")
    \/ Defer("defer_closed", {"epfd"}, FALSE, "returned")

\* The deferred calls, last one first: epfd, fd, the channel closed.
Deferred ==
    \/ Defer("defers", {"epfd"}, FALSE, "defer_fd")
    \/ Defer("defer_fd", {"fd"}, FALSE, "defer_closed")
    \/ Defer("defer_closed", {}, TRUE, "returned")

RunStep == Look \/ EpollWait \/ Recvmsg \/ Deferred

----------------------------------------------------------------------------
(* Close. *)

InClose(c) == closer[c] # "out"

\* A goroutine calls LinuxReflector.Close.
Close(c) ==
    /\ Running /\ ~InClose(c) /\ calls[c] < MaxCalls
    /\ kind = "reflector"
    /\ calls' = [calls EXCEPT ![c] = @ + 1]
    /\ overlap' = (overlap \/ \E d \in Closers : InClose(d))
    /\ closer' = [closer EXCEPT ![c] = "look"]
    /\ UNCHANGED <<constructorVars, fdVars, runVars, contextVars, queue, shutdown,
                   closed, panicked>>

\* Wrong variant: the channel is not consulted.
AlreadyClosed_Ignored == FALSE

AlreadyClosed == closed

\* The select: return, or go on to close shutdown.
CloseLooks(c) ==
    /\ Running /\ closer[c] = "look"
    /\ closer' = [closer EXCEPT ![c] = IF AlreadyClosed THEN "out" ELSE "shut"]
    /\ UNCHANGED <<constructorVars, fdVars, runVars, contextVars, queue, shutdown,
                   closed, calls, overlap, panicked>>

\* close(r.shutdown): closing it a second time panics.
CloseShutdown(c) ==
    /\ Running /\ closer[c] = "shut"
    /\ shutdown' = TRUE
    /\ panicked' = shutdown
    /\ closer' = [closer EXCEPT ![c] = "wait"]
    /\ UNCHANGED <<constructorVars, fdVars, runVars, contextVars, queue, closed,
                   calls, overlap>>

\* <-r.closed
CloseWaits(c) ==
    /\ Running /\ closer[c] = "wait" /\ closed
    /\ closer' = [closer EXCEPT ![c] = "out"]
    /\ UNCHANGED <<constructorVars, fdVars, runVars, contextVars, queue, shutdown,
                   closed, calls, overlap, panicked>>

CloseStep(c) == CloseLooks(c) \/ CloseShutdown(c) \/ CloseWaits(c)

\* LinuxSender.Close: its context governs nothing, the descriptors go; nothing
\* records that they have gone.
CloseSender(c) ==
    /\ Running /\ calls[c] < MaxCalls /\ kind = "sender"
    /\ CloseFds({"fd", "epfd"})
    /\ calls' = [calls EXCEPT ![c] = @ + 1]
    /\ UNCHANGED <<constructorVars, runVars, contextVars, queue, shutdown,
                   closed, closer, overlap, panicked>>

----------------------------------------------------------------------------
(* The surroundings and the specification. *)

\* A datagram arrives while the socket is open.
Arrives ==
    /\ Running /\ kind = "reflector" /\ "fd" \in open /\ queue < MaxQueue
    /\ queue' = queue + 1
    /\ UNCHANGED <<constructorVars, fdVars, runVars, contextVars, shutdown, closed,
                   closeVars, panicked>>

\* The context is cancelled, or its deadline, if it has one, comes near.
Cancel ==
    /\ Running /\ kind = "reflector" /\ ~ctxDone
    /\ ctxDone' = TRUE
    /\ UNCHANGED <<constructorVars, fdVars, runVars, expired, queue, shutdown,
                   closed, closeVars, panicked>>

Expire ==
    /\ Running /\ kind = "reflector" /\ ~expired
    /\ expired' = TRUE
    /\ UNCHANGED <<constructorVars, fdVars, runVars, ctxDone, queue, shutdown,
                   closed, closeVars, panicked>>

LifeInit ==
    /\ kind \in {"reflector", "sender"}
    /\ built = 0 /\ failed = FALSE /\ open = {} /\ stray = FALSE
    /\ pc = "new" /\ result = "nil"
    /\ ctxDone = FALSE /\ expired = FALSE
    /\ queue = 0
    /\ shutdown = FALSE /\ closed = FALSE
    /\ closer = [c \in Closers |-> "out"]
    /\ calls = [c \in Closers |-> 0]
    /\ overlap = FALSE /\ panicked = FALSE

LifeNext ==
    \/ NewSucceeds \/ NewFails
    \/ Start \/ RunStep
    \/ \E c \in Closers : Close(c) \/ CloseStep(c) \/ CloseSender(c)
    \/ Interrupted \/ Fault \/ Arrives \/ Cancel \/ Expire

\* Run and every call of Close keep executing.  Nothing is said of the network,
\* of faults and signals, of the context, or of whether Run or Close is called.
LifeFairness == WF_lifeVars(RunStep) /\ \A c \in Closers : WF_lifeVars(CloseStep(c))

LifeSpec == LifeInit /\ [][LifeNext]_lifeVars /\ LifeFairness

----------------------------------------------------------------------------
(* Properties. *)

LifeTypeOK ==
    /\ kind \in {"reflector", "sender"}
    /\ built \in 0 .. Len(Steps) /\ failed \in BOOLEAN
    /\ open \subseteq {"fd", "epfd"}
    /\ pc \in {"new", "select", "epoll", "drain", "defers", "defer_fd",
              "defer_closed", "returned"}
    /\ result \in {"nil", "deadline", "epoll_wait", "recvmsg"}
    /\ {stray, ctxDone, expired, shutdown, closed, overlap, panicked} \subseteq BOOLEAN
    /\ queue \in 0 .. MaxQueue
    /\ closer \in [Closers -> {"out", "look", "shut", "wait"}]
    /\ calls \in [Closers -> 0 .. MaxCalls]

\* A call of Close has returned.
CloseReturned == ~panicked /\ \E c \in Closers : calls[c] > 0 /\ ~InClose(c)

\* A constructor that fails at any of its calls, and a Close that has returned,
\* leave no descriptor open; in particular no reply is sent and no datagram
\* read after Close has returned.  (The error paths of NewLinuxReflector and
\* NewLinuxSender, the deferred calls of Run, Close.)
NothingLeaks == failed \/ CloseReturned => open = {}

\* Close has been called more than once.
CloseRepeated ==
    \/ \E c \in Closers : calls[c] > 1
    \/ \E c, d \in Closers : c # d /\ calls[c] > 0 /\ calls[d] > 0

\* No error path of a constructor and no end of a Run closes a number that is not
\* its own at that moment, however many goroutines close the reflector.  A sender
\* does only when it is closed a second time: LinuxSender.Close, unlike
\* LinuxReflector.Close, does not remember that it was called.
ClosesOnlyItsOwn == stray => kind = "sender" /\ CloseRepeated

\* Close may be called again and again, before, during and after Run, and
\* nothing panics as long as no two calls overlap.  (LinuxReflector.Close.)
SequentialClosesSafe == panicked => overlap

\* Once the context is done or shutdown is closed, a started Run returns, unless
\* datagrams keep the socket from ever becoming empty.  (The select of Run, the
\* timeout of EpollWait and the inner loop, which looks at neither.)
ShutdownEnds ==
    (Stopping /\ pc # "new") ~> (pc = "returned" \/ panicked \/ [](pc = "drain"))

\* A call of Close returns, with the same exception, once Run has been started,
\* whatever Run returns and whether it had returned before.
CloseEnds ==
    \A c \in Closers :
        InClose(c) ~> (~InClose(c) \/ panicked \/ [](pc \in {"new", "drain"}))
============================================================================
