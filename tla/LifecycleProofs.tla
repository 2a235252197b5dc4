-------------------------- MODULE LifecycleProofs --------------------------
(***************************************************************************)
(* Theorems about Lifecycle: any number of goroutines and calls of Close.  *)
(***************************************************************************)
EXTENDS Lifecycle, TLAPS

----------------------------------------------------------------------------
(* The constructors. *)

\* Both constructors make seven calls that can fail.
LEMMA SevenSteps == Len(Steps) = 7
  BY DEF Steps

\* The descriptors open after each call of a constructor that has not failed.
OpenAfter(n) ==
    IF kind = "reflector"
    THEN IF n <= 1 THEN {} ELSE IF n <= 4 THEN {"fd"} ELSE {"fd", "epfd"}
    ELSE IF n = 0 THEN {} ELSE IF n <= 3 THEN {"fd"} ELSE {"fd", "epfd"}

\* A call opens what the next one finds open, and its error path closes all of
\* what it finds open and nothing else.
LEMMA ConstructorSteps ==
  ASSUME NEW n \in 0 .. 6
  PROVE  /\ OpenAfter(n) \cup Opens(Steps[n + 1]) = OpenAfter(n + 1)
         /\ OpenAfter(n) = ClosedOnFailure(Steps[n + 1])
<1> USE DEF OpenAfter, Opens, ClosedOnFailure, Steps
<1>1. CASE kind = "reflector"
  <2>1. /\ Steps[1] = "resolve" /\ Steps[2] = "socket" /\ Steps[3] = "bind"
        /\ Steps[4] = "getsockname" /\ Steps[5] = "epoll_create1"
        /\ Steps[6] = "epoll_ctl" /\ Steps[7] = "SO_TIMESTAMPNS"
    BY <1>1
  <2>2. n = 0 \/ n = 1 \/ n = 2 \/ n = 3 \/ n = 4 \/ n = 5 \/ n = 6
    OBVIOUS
  <2> HIDE DEF Steps
  <2>3. QED
    BY <1>1, <2>1, <2>2
<1>2. CASE kind # "reflector"
  <2>1. /\ Steps[1] = "socket" /\ Steps[2] = "SO_BINDTODEVICE" /\ Steps[3] = "bind"
        /\ Steps[4] = "epoll_create1" /\ Steps[5] = "epoll_ctl"
        /\ Steps[6] = "SO_TIMESTAMPNS" /\ Steps[7] = "remote"
    BY <1>2
  <2>2. n = 0 \/ n = 1 \/ n = 2 \/ n = 3 \/ n = 4 \/ n = 5 \/ n = 6
    OBVIOUS
  <2> HIDE DEF Steps
  <2>3. QED
    BY <1>2, <2>1, <2>2
<1>3. QED
  BY <1>1, <1>2

----------------------------------------------------------------------------
(* The steps, by what they can change. *)

\* Before the deferred calls: both descriptors are open.
Looping == {"new", "select", "epoll", "drain", "defers"}

\* The constructor, the calls of Close and the deferred calls of Run are left
\* alone: Run moves on or returns, or something happens around it.
QuietStep ==
    /\ Running
    /\ UNCHANGED <<kind, built, failed, open, stray, shutdown, closed, closer, calls,
                   overlap, panicked>>
    /\ \/ pc' = pc
       \/ /\ kind = "reflector" \/ pc # "new"
          /\ pc \in Looping /\ pc' \in Looping

\* The steps of the life cycle.
LEMMA LifeCases ==
  ASSUME LifeNext
  PROVE  \/ NewSucceeds \/ NewFails \/ QuietStep \/ Deferred
         \/ \E c \in Closers : \/ Close(c) \/ CloseLooks(c) \/ CloseShutdown(c)
                               \/ CloseWaits(c) \/ CloseSender(c)
<1> USE DEF QuietStep, Looping, constructorVars, fdVars, runVars, contextVars, closeVars
<1>1. ASSUME NEW from \in {"new", "select", "epoll", "drain"},
             from = "new" => kind = "reflector",
             NEW to \in {"select", "epoll", "drain"}, Goto(from, to)
      PROVE  QuietStep
  BY <1>1 DEF Goto
<1>2. ASSUME NEW from \in {"select", "epoll", "drain"}, NEW err, Leave(from, err)
      PROVE  QuietStep
  BY <1>2 DEF Leave
<1>3. CASE Start \/ Look \/ EpollWait \/ Interrupted \/ Fault
  BY <1>1, <1>2, <1>3 DEF Start, Look, EpollWait, Interrupted, Fault
<1>4. CASE Recvmsg
  BY <1>1, <1>4 DEF Recvmsg
<1>5. ASSUME Arrives \/ Cancel \/ Expire
      PROVE  QuietStep
  <2>1. /\ Running
        /\ UNCHANGED <<kind, built, failed, open, stray, pc, shutdown, closed, closer,
                       calls, overlap, panicked>>
    BY <1>5 DEF Arrives, Cancel, Expire
  <2>2. QED
    BY <2>1
<1>6. QED
  BY <1>3, <1>4, <1>5 DEF LifeNext, RunStep, CloseStep

----------------------------------------------------------------------------
(* Type correctness. *)

\* Every step keeps the types.
LEMMA LifeTypeStep == LifeTypeOK /\ [LifeNext]_lifeVars => LifeTypeOK'
<1> SUFFICES ASSUME LifeTypeOK, [LifeNext]_lifeVars PROVE LifeTypeOK'
  OBVIOUS
<1> USE SevenSteps, LifecycleAssumption
        DEF LifeTypeOK, constructorVars, fdVars, runVars, contextVars, closeVars
<1>1. Len(Steps') = 7
  BY DEF Steps
<1>2. CASE NewSucceeds
  BY <1>1, <1>2 DEF NewSucceeds, Constructing, Ready, Opens
<1>3. CASE NewFails
  BY <1>1, <1>3 DEF NewFails, CloseFds
<1>4. CASE Start \/ Look \/ EpollWait \/ Interrupted \/ Fault
  BY <1>1, <1>4 DEF Start, Look, EpollWait, Interrupted, Fault, Goto, Leave
<1>5. ASSUME queue' \in 0 .. MaxQueue,
             UNCHANGED <<kind, built, failed, open, stray, pc, result, ctxDone, expired,
                         shutdown, closed, closer, calls, overlap, panicked>>
      PROVE  LifeTypeOK'
  BY <1>1, <1>5
<1>6. CASE Deferred
  BY <1>1, <1>6 DEF Deferred, Defer, CloseFds
<1>7. ASSUME NEW c \in Closers, Close(c) PROVE LifeTypeOK'
  BY <1>1, <1>7 DEF Close
<1>8. ASSUME NEW c \in Closers, CloseStep(c) PROVE LifeTypeOK'
  BY <1>1, <1>8 DEF CloseStep, CloseLooks, CloseShutdown, CloseWaits
<1>9. ASSUME NEW c \in Closers, CloseSender(c) PROVE LifeTypeOK'
  BY <1>1, <1>9 DEF CloseSender, CloseFds
<1>10. CASE Recvmsg
  <2>1. CASE queue = 0 /\ Goto("drain", "select")
    BY <1>1, <2>1 DEF Goto
  <2>2. CASE queue > 0 /\ Recvmsg
    <3>1. queue' \in 0 .. MaxQueue
      BY <2>2 DEF Recvmsg
    <3>2. UNCHANGED <<kind, built, failed, open, stray, pc, result, ctxDone, expired,
                      shutdown, closed, closer, calls, overlap, panicked>>
      BY <2>2 DEF Recvmsg
    <3>3. QED
      BY <1>5, <3>1, <3>2
  <2>3. QED
    BY <1>10, <2>1, <2>2 DEF Recvmsg
<1>11. CASE Arrives
  <2>1. queue' \in 0 .. MaxQueue
    BY <1>11 DEF Arrives
  <2>2. UNCHANGED <<kind, built, failed, open, stray, pc, result, ctxDone, expired,
                    shutdown, closed, closer, calls, overlap, panicked>>
    BY <1>11 DEF Arrives
  <2>3. QED
    BY <1>5, <2>1, <2>2
<1>12. CASE Cancel \/ Expire
  BY <1>1, <1>12 DEF Cancel, Expire
<1>13. CASE UNCHANGED lifeVars
  BY <1>1, <1>13 DEF lifeVars
<1>14. QED
  BY <1>2, <1>3, <1>4, <1>6, <1>7, <1>8, <1>9, <1>10, <1>11, <1>12, <1>13
  DEF LifeNext, RunStep

\* The types hold at first.
LEMMA LifeTypeInit == LifeInit => LifeTypeOK
<1> SUFFICES ASSUME LifeInit PROVE LifeTypeOK
  OBVIOUS
<1>1. /\ built \in 0 .. Len(Steps) /\ queue \in 0 .. MaxQueue
      /\ calls \in [Closers -> 0 .. MaxCalls]
  BY SevenSteps, LifecycleAssumption DEF LifeInit
<1>2. closer \in [Closers -> {"out", "look", "shut", "wait"}]
  BY DEF LifeInit
<1>3. QED
  BY <1>1, <1>2 DEF LifeInit, LifeTypeOK

\* Every reachable state of the constructors, Run and the calls of Close is well
\* typed: in particular the socket's queue never goes below empty, whichever way
\* EpollWait returns.
THEOREM LifeTypeCorrect == LifeSpec => []LifeTypeOK
  BY LifeTypeInit, LifeTypeStep, PTL DEF LifeSpec

----------------------------------------------------------------------------
(* Nothing leaks. *)

\* The descriptors open at each point of Run.
HeldAt(p) == CASE p \in Looping -> {"fd", "epfd"}
               [] p = "defer_fd" -> {"fd"}
               [] OTHER -> {}

\* No call of Close has begun.
NeverClosed == \A c \in Closers : calls[c] = 0 /\ closer[c] = "out"

\* What is open while the constructor runs, after it failed, while Run runs, and
\* of a sender before and after its first Close; nothing runs before the
\* constructor is done; and a call of Close that has returned found its work done.
LeakInv ==
    /\ built < 7 /\ ~failed => open = OpenAfter(built)
    /\ failed => built < 7 /\ open = {}
    /\ built < 7 => pc = "new" /\ NeverClosed
    /\ kind = "sender" => pc = "new"
    /\ built = 7 => open = IF kind = "reflector" THEN HeldAt(pc)
                           ELSE IF NeverClosed THEN {"fd", "epfd"} ELSE {}
    /\ closed <=> pc = "returned"
    /\ \A c \in Closers :
          calls[c] > 0 /\ closer[c] = "out" /\ kind = "reflector" => closed
    /\ kind = "sender" => \A c \in Closers : closer[c] = "out"

\* Nothing but the descriptors that are held is closed.
StrayInv == stray => built = 7 /\ kind = "sender" /\ CloseRepeated

\* Every step keeps the account of the descriptors.
LEMMA LeakStep ==
  LifeTypeOK /\ LeakInv /\ StrayInv /\ [LifeNext]_lifeVars => LeakInv' /\ StrayInv'
<1> SUFFICES ASSUME LifeTypeOK, LeakInv, StrayInv, [LifeNext]_lifeVars
             PROVE  LeakInv' /\ StrayInv'
  OBVIOUS
<1>1. /\ built \in 0 .. 7 /\ {failed, closed, stray} \subseteq BOOLEAN
      /\ kind \in {"reflector", "sender"}
      /\ closer \in [Closers -> {"out", "look", "shut", "wait"}]
      /\ calls \in [Closers -> 0 .. MaxCalls] /\ MaxCalls \in Nat
  BY SevenSteps, LifecycleAssumption DEF LifeTypeOK
<1>2. Ready <=> built = 7
  BY SevenSteps DEF Ready
<1> USE DEF constructorVars, fdVars, runVars, contextVars, closeVars
<1>3. CASE NewSucceeds
  <2>1. /\ built \in 0 .. 6 /\ ~failed /\ built' = built + 1
        /\ open' = open \cup Opens(Steps[built + 1])
        /\ UNCHANGED <<kind, failed, stray, pc, closed, closer, calls>>
    BY <1>1, <1>2, <1>3 DEF NewSucceeds, Constructing
  <2>2. open' = OpenAfter(built + 1)
    BY <2>1, ConstructorSteps DEF LeakInv
  <2>3. open' = OpenAfter(built)'
    BY <2>1, <2>2 DEF OpenAfter
  <2>4. pc = "new" /\ NeverClosed /\ NeverClosed' /\ ~stray
    BY <1>1, <2>1 DEF LeakInv, StrayInv, NeverClosed
  <2>5. built' = 7 => open' = {"fd", "epfd"}
    BY <1>1, <2>1, <2>2 DEF OpenAfter
  <2>6. HeldAt(pc)' = {"fd", "epfd"}
    BY <2>1, <2>4 DEF HeldAt, Looping
  <2>7. LeakInv'
    BY <1>1, <2>1, <2>3, <2>4, <2>5, <2>6 DEF LeakInv, NeverClosed
  <2>8. QED
    BY <2>1, <2>4, <2>7 DEF StrayInv
<1>4. CASE NewFails
  <2>1. /\ built \in 0 .. 6 /\ failed' /\ built' = built
        /\ CloseFds(ClosedOnFailure(Steps[built + 1]))
        /\ UNCHANGED <<kind, pc, closed, closer, calls>>
    BY <1>1, <1>2, <1>4 DEF NewFails, Constructing
  <2>2. open = ClosedOnFailure(Steps[built + 1]) /\ ~stray
    <3>1. open = OpenAfter(built)
      BY <1>1, <1>2, <1>4, <2>1 DEF LeakInv, NewFails, Constructing
    <3>2. QED
      BY <2>1, <3>1, ConstructorSteps DEF StrayInv
  <2>3. open' = {} /\ ~stray'
    BY <2>1, <2>2 DEF CloseFds
  <2>4. QED
    BY <2>1, <2>3 DEF LeakInv, StrayInv, NeverClosed
<1>5. CASE QuietStep
  <2>1. /\ built = 7 /\ UNCHANGED <<kind, built, failed, open, stray, closed, closer, calls>>
    BY <1>2, <1>5 DEF QuietStep, Running
  <2>2. kind = "sender" => pc' = pc
    BY <1>5 DEF QuietStep, LeakInv
  <2>3. HeldAt(pc)' = HeldAt(pc) /\ (pc' = "returned" <=> pc = "returned")
    BY <1>5 DEF QuietStep, HeldAt, Looping
  <2>4. LeakInv'
    BY <1>1, <2>1, <2>2, <2>3 DEF LeakInv, NeverClosed
  <2>5. QED
    BY <2>1, <2>4 DEF StrayInv, CloseRepeated
<1>6. CASE Deferred
  <2>1. /\ built = 7 /\ kind = "reflector" /\ ~closed /\ ~stray
        /\ UNCHANGED <<kind, built, failed, closer, calls>>
    BY <1>1, <1>2, <1>6 DEF Deferred, Defer, Running, LeakInv, StrayInv
  <2>2. /\ ~stray' /\ open' = HeldAt(pc)'
        /\ closed' <=> pc' = "returned"
    <3>1. CASE Defer("defers", {"epfd"}, FALSE, "defer_fd")
      <4>1. open = {"fd", "epfd"}
        BY <2>1, <3>1 DEF LeakInv, Defer, HeldAt, Looping
      <4>2. QED
        BY <1>1, <2>1, <3>1, <4>1 DEF Defer, CloseFds, HeldAt, Looping
    <3>2. CASE Defer("defer_fd", {"fd"}, FALSE, "defer_closed")
      <4>1. open = {"fd"}
        BY <2>1, <3>2 DEF LeakInv, Defer, HeldAt, Looping
      <4>2. QED
        BY <1>1, <2>1, <3>2, <4>1 DEF Defer, CloseFds, HeldAt, Looping
    <3>3. CASE Defer("defer_closed", {}, TRUE, "returned")
      <4>1. open = {}
        BY <2>1, <3>3 DEF LeakInv, Defer, HeldAt, Looping
      <4>2. QED
        BY <1>1, <2>1, <3>3, <4>1 DEF Defer, CloseFds, HeldAt, Looping
    <3>4. QED
      BY <1>6, <3>1, <3>2, <3>3 DEF Deferred
  <2>3. QED
    BY <1>1, <2>1, <2>2 DEF LeakInv, StrayInv, NeverClosed
<1>7. ASSUME NEW c \in Closers,
             Close(c) \/ CloseLooks(c) \/ CloseShutdown(c) \/ CloseWaits(c)
      PROVE  LeakInv' /\ StrayInv'
  <2>1. /\ built = 7
        /\ UNCHANGED <<kind, built, failed, open, stray, pc, closed>>
        /\ \A d \in Closers \ {c} : closer'[d] = closer[d] /\ calls'[d] = calls[d]
        /\ closer'[c] = "out" => closed
    BY <1>1, <1>2, <1>7 DEF Close, CloseLooks, CloseShutdown, CloseWaits, Running,
                            AlreadyClosed
  <2>2. kind = "reflector"
    BY <1>1, <1>7 DEF Close, CloseLooks, CloseShutdown, CloseWaits, LeakInv
  <2>3. ~stray /\ HeldAt(pc)' = HeldAt(pc)
    BY <2>1, <2>2 DEF StrayInv, HeldAt
  <2>4. QED
    BY <1>1, <2>1, <2>2, <2>3 DEF LeakInv, StrayInv
<1>8. ASSUME NEW c \in Closers, CloseSender(c)
      PROVE  LeakInv' /\ StrayInv'
  <2>1. /\ built = 7 /\ kind = "sender" /\ calls' = [calls EXCEPT ![c] = @ + 1]
        /\ CloseFds({"fd", "epfd"}) /\ UNCHANGED <<kind, built, failed, pc, closed, closer>>
    BY <1>2, <1>8 DEF CloseSender, Running
  <2>2. /\ calls'[c] = calls[c] + 1 /\ calls'[c] \in Nat /\ calls[c] \in Nat
        /\ \A d \in Closers \ {c} : calls'[d] = calls[d] /\ calls[d] \in Nat
    BY <1>1, <2>1
  <2>3. open \in {{"fd", "epfd"}, {}} /\ open' = {}
    BY <1>1, <2>1 DEF LeakInv, CloseFds
  <2>4. ~NeverClosed'
    BY <2>2 DEF NeverClosed
  <2>5. LeakInv'
    BY <1>1, <2>1, <2>3, <2>4 DEF LeakInv
  <2>6. CASE NeverClosed
    <3>1. open = {"fd", "epfd"} /\ ~stray
      BY <1>1, <2>1, <2>6 DEF LeakInv, StrayInv, CloseRepeated, NeverClosed
    <3>2. QED
      BY <2>1, <2>5, <3>1 DEF StrayInv, CloseFds
  <2>7. CASE ~NeverClosed
    <3>1. PICK d \in Closers : calls[d] > 0
      <4>1. \A d \in Closers : closer[d] = "out" /\ calls[d] \in Nat
        BY <1>1, <2>1 DEF LeakInv
      <4>2. QED
        BY <2>7, <4>1 DEF NeverClosed
    <3>2. CloseRepeated'
      BY <2>2, <3>1 DEF CloseRepeated
    <3>3. QED
      BY <2>1, <2>5, <3>2 DEF StrayInv
  <2>8. QED
    BY <2>6, <2>7
<1>9. CASE UNCHANGED lifeVars
  BY <1>9 DEF lifeVars, LeakInv, StrayInv, CloseRepeated, OpenAfter, HeldAt, NeverClosed
<1>10. QED
  BY <1>3, <1>4, <1>5, <1>6, <1>7, <1>8, <1>9, LifeCases

\* The account holds at first.
LEMMA LeakInit == LifeInit => LeakInv /\ StrayInv
  BY DEF LifeInit, LeakInv, StrayInv, OpenAfter, NeverClosed

\* Whichever call of a constructor fails, and however many goroutines call Close
\* while Run is in whatever state, no descriptor is open once the constructor has
\* failed or any call of Close has returned.
THEOREM LeakCorrect == LifeSpec => []NothingLeaks
<1>1. LifeTypeOK /\ LeakInv => NothingLeaks
  <2> SUFFICES ASSUME LifeTypeOK, LeakInv, ~failed, CloseReturned PROVE open = {}
    BY DEF LeakInv, NothingLeaks
  <2>1. PICK c \in Closers : calls[c] > 0 /\ closer[c] = "out"
    BY DEF CloseReturned, InClose
  <2>2. built = 7 /\ kind \in {"reflector", "sender"} /\ ~NeverClosed
    BY <2>1, SevenSteps DEF LeakInv, NeverClosed, LifeTypeOK
  <2>3. CASE kind = "reflector"
    BY <2>1, <2>2, <2>3 DEF LeakInv, HeldAt, Looping
  <2>4. CASE kind = "sender"
    BY <2>2, <2>4 DEF LeakInv
  <2>5. QED
    BY <2>2, <2>3, <2>4
<1>2. QED
  BY <1>1, LeakInit, LifeTypeInit, LifeTypeStep, LeakStep, PTL DEF LifeSpec

\* An error path of a constructor closes exactly what the calls before it opened,
\* Run closes each descriptor once, and only a second Close of a sender closes
\* numbers that are no longer its own, for any number of goroutines and calls.
THEOREM OwnCorrect == LifeSpec => []ClosesOnlyItsOwn
<1>1. StrayInv => ClosesOnlyItsOwn
  BY DEF StrayInv, ClosesOnlyItsOwn
<1>2. QED
  BY <1>1, LeakInit, LifeTypeInit, LifeTypeStep, LeakStep, PTL DEF LifeSpec

----------------------------------------------------------------------------
(* Calls of Close that do not overlap. *)

\* Without an overlap one call at most is under way, and it reaches the close of
\* shutdown only while shutdown is open: the call that closed it has either not
\* returned or left closed closed behind it.
OneCloser ==
    /\ panicked => overlap
    /\ ~overlap =>
          /\ \A c, d \in Closers : InClose(c) /\ InClose(d) => c = d
          /\ \A c \in Closers : closer[c] = "shut" => ~shutdown
          /\ shutdown => closed \/ \E c \in Closers : closer[c] = "wait"

\* Every step keeps the invariant of the closers.
LEMMA OneCloserStep ==
  LifeTypeOK /\ LeakInv /\ OneCloser /\ [LifeNext]_lifeVars => OneCloser'
<1> SUFFICES ASSUME LifeTypeOK, LeakInv, OneCloser, [LifeNext]_lifeVars PROVE OneCloser'
  OBVIOUS
<1>1. /\ {shutdown, closed, overlap, panicked} \subseteq BOOLEAN
      /\ closer \in [Closers -> {"out", "look", "shut", "wait"}]
  BY DEF LifeTypeOK
<1> USE DEF constructorVars, fdVars, runVars, contextVars, closeVars
<1>2. CASE UNCHANGED <<closer, shutdown, overlap, panicked>> /\ (closed => closed')
  BY <1>2 DEF OneCloser, InClose
<1>3. CASE NewSucceeds \/ NewFails \/ QuietStep \/ UNCHANGED lifeVars
  BY <1>2, <1>3 DEF NewSucceeds, NewFails, QuietStep, lifeVars
<1>4. CASE Deferred
  <2>1. ~closed
    BY <1>1, <1>4 DEF Deferred, Defer, LeakInv
  <2>2. QED
    BY <1>2, <1>4, <2>1 DEF Deferred, Defer
<1>5. ASSUME NEW c \in Closers, CloseSender(c)
      PROVE  OneCloser'
  BY <1>2, <1>5 DEF CloseSender
<1>6. ASSUME NEW c \in Closers, Close(c)
      PROVE  OneCloser'
  <2>1. /\ closer[c] = "out" /\ closer' = [closer EXCEPT ![c] = "look"]
        /\ UNCHANGED <<shutdown, closed, panicked>>
        /\ overlap' = (overlap \/ \E d \in Closers : InClose(d))
    BY <1>6 DEF Close, InClose
  <2>2. \A d \in Closers : closer[d] \in {"shut", "wait"} => closer'[d] = closer[d]
    BY <1>1, <2>1
  <2>3. QED
    BY <1>1, <2>1, <2>2 DEF OneCloser, InClose
<1>7. ASSUME NEW c \in Closers, CloseLooks(c)
      PROVE  OneCloser'
  <2>1. /\ closer[c] = "look"
        /\ closer' = [closer EXCEPT ![c] = IF closed THEN "out" ELSE "shut"]
        /\ UNCHANGED <<shutdown, closed, panicked, overlap>>
    BY <1>7 DEF CloseLooks, AlreadyClosed
  <2>2. ~overlap /\ shutdown => closed
    BY <1>1, <2>1 DEF OneCloser, InClose
  <2>3. QED
    BY <1>1, <2>1, <2>2 DEF OneCloser, InClose
<1>8. ASSUME NEW c \in Closers, CloseShutdown(c)
      PROVE  OneCloser'
  <2>1. /\ closer[c] = "shut" /\ closer' = [closer EXCEPT ![c] = "wait"]
        /\ shutdown' = TRUE /\ panicked' = shutdown /\ UNCHANGED <<closed, overlap>>
    BY <1>8 DEF CloseShutdown
  <2>2. QED
    BY <1>1, <2>1 DEF OneCloser, InClose
<1>9. ASSUME NEW c \in Closers, CloseWaits(c)
      PROVE  OneCloser'
  <2>1. /\ closer[c] = "wait" /\ closed /\ closer' = [closer EXCEPT ![c] = "out"]
        /\ UNCHANGED <<shutdown, panicked, closed, overlap>>
    BY <1>9 DEF CloseWaits
  <2>2. QED
    BY <1>1, <2>1 DEF OneCloser, InClose
<1>10. QED
  BY <1>3, <1>4, <1>5, <1>6, <1>7, <1>8, <1>9, LifeCases

\* Close may be called any number of times by any number of goroutines, before,
\* during and after Run: shutdown is closed twice only if two calls overlapped.
THEOREM SequentialClosesCorrect == LifeSpec => []SequentialClosesSafe
<1>1. LifeInit => OneCloser
  BY DEF LifeInit, OneCloser, InClose
<1>2. OneCloser => SequentialClosesSafe
  BY DEF OneCloser, SequentialClosesSafe
<1>3. QED
  BY <1>1, <1>2, LeakInit, LifeTypeInit, LifeTypeStep, LeakStep, OneCloserStep, PTL DEF LifeSpec
============================================================================
