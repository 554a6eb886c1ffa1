----------------------------- MODULE V4l2Plane -----------------------------
(* The two planes of a V4L2 element (src/classes/NvV4l2ElementPlane.cpp) under *)
(* the thread that calls their methods ("app") and the DQ thread ("dq") of the  *)
(* capture plane.  A section under plane_lock is one step.  The ioctls DQBUF    *)
(* and the tests of streamon and stop_dqthread that the code makes without the  *)
(* lock are steps of their own, whatever another thread does in between.         *)
EXTENDS Integers, FiniteSets

CONSTANTS Requested,    (* number of buffers the application asks of each plane *)
          Wrap,         (* num_queued_buffers counts modulo Wrap                *)
          CanFail       (* may ioctls and pthread_create fail?                  *)

Planes == {"output", "capture"}
Threads == {"app", "dq"}

ASSUME PlaneAssumption == /\ Requested \in [Planes -> Nat \ {0}]
                          /\ Wrap \in Nat
                          /\ \A p \in Planes : Requested[p] + 2 < Wrap
                          /\ CanFail \in BOOLEAN

Indices(p) == 1..Requested[p]

VARIABLES bufs,      (* num_buffers, the length of the array buffers            *)
          mapped,    (* the buffers of the capture plane that are mapped        *)
          on,        (* streamon                                                *)
          where,     (* where each buffer is: "app", "queued" or "done"         *)
          num,       (* num_queued_buffers                                      *)
          blocking,  (* was the device opened without O_NONBLOCK?               *)
          running,   (* dqthread_running                                        *)
          stop,      (* stop_dqthread                                           *)
          handle,    (* is dq_thread a thread that was not joined?              *)
          pc,        (* program point of each thread                            *)
          arg,       (* the plane whose method the thread executes              *)
          ret,       (* program point after setStreamStatus                     *)
          item,      (* index of the buffer in the thread's hands               *)
          goal,      (* what a deinitPlane or wait of "app" is part of          *)
          straddled, (* history: STREAMOFF fell between a DQBUF and its section *)
          broken     (* history: what has happened that lets waits hang         *)

deviceVars == <<where, num, straddled>>
dqVars     == <<running, stop, handle>>
threadVars == <<pc, arg, ret, item, goal>>
planeVars  == <<bufs, mapped, on, deviceVars, blocking, dqVars, threadVars, broken>>

PlaneInit ==
  /\ bufs = [p \in Planes |-> 0] /\ mapped = {}
  /\ on = [p \in Planes |-> FALSE]
  /\ where = [p \in Planes |-> [i \in Indices(p) |-> "app"]]
  /\ num = [p \in Planes |-> 0] /\ straddled = [p \in Planes |-> FALSE]
  /\ running = FALSE /\ stop = FALSE /\ handle = FALSE
  /\ pc = [app |-> "ready", dq |-> "off"]
  /\ arg = [t \in Threads |-> "capture"] /\ ret = [t \in Threads |-> "ready"]
  /\ item = [t \in Threads |-> 1] /\ goal = "call" /\ broken = FALSE

Goto(t, l) == pc' = [pc EXCEPT ![t] = l]
Moves(t, l) == Goto(t, l) /\ UNCHANGED <<arg, ret, item, goal>>
(* A thread that returns from a call at l forgets its arguments.                *)
Returns(t, l) == /\ Goto(t, l)
                 /\ arg' = [arg EXCEPT ![t] = "capture"]
                 /\ ret' = [ret EXCEPT ![t] = "ready"]
                 /\ item' = [item EXCEPT ![t] = 1]
                 /\ UNCHANGED goal

Dequeuing(p) == {t \in Threads : pc[t] = "dequeued" /\ arg[t] = p}
InDriver(p) == {i \in Indices(p) : where[p][i] # "app"}

-----------------------------------------------------------------------------
(* setStreamStatus(false), called by thread t, which goes on at l.             *)
CallStreamOff(t, p, l) == /\ Goto(t, "check")
                          /\ arg' = [arg EXCEPT ![t] = p]
                          /\ ret' = [ret EXCEPT ![t] = l]

AfterStreamOff(t) == IF ret[t] = "waitdq"
                       THEN Goto(t, "waitdq") /\ UNCHANGED <<arg, ret, item, goal>>
                       ELSE Returns(t, ret[t])

StreamCheck(t) == /\ pc[t] = "check"
                  /\ IF on[arg[t]] THEN Moves(t, "streamoff") ELSE AfterStreamOff(t)
                  /\ UNCHANGED <<bufs, mapped, on, deviceVars, blocking, dqVars, broken>>

FaultyStreamOff(t) ==                       \* the count is kept
  /\ pc[t] = "streamoff"
  /\ on' = [on EXCEPT ![arg[t]] = FALSE]
  /\ where' = [where EXCEPT ![arg[t]] = [i \in Indices(arg[t]) |-> "app"]]
  /\ straddled' = [straddled EXCEPT ![arg[t]] = Dequeuing(arg[t]) # {}]
  /\ AfterStreamOff(t)
  /\ UNCHANGED <<num, bufs, mapped, blocking, dqVars, broken>>

(* STREAMOFF gives every buffer back, and the count is zeroed.                  *)
StreamOff(t) ==
  /\ pc[t] = "streamoff"
  /\ LET p == arg[t]
     IN  \/ /\ on' = [on EXCEPT ![p] = FALSE]
            /\ where' = [where EXCEPT ![p] = [i \in Indices(p) |-> "app"]]
            /\ num' = [num EXCEPT ![p] = 0]
            /\ straddled' = [straddled EXCEPT ![p] = Dequeuing(p) # {}]
            /\ UNCHANGED broken
         \/ /\ CanFail
            /\ broken' = TRUE          \* the device streams on
            /\ UNCHANGED <<on, deviceVars>>
  /\ AfterStreamOff(t)
  /\ UNCHANGED <<bufs, mapped, blocking, dqVars>>

(* NvV4l2Element::abort turns both planes off, one after the other.            *)
Abort(t) == /\ CallStreamOff(t, "output", "abort2")
            /\ item' = [item EXCEPT ![t] = 1] /\ UNCHANGED goal
AbortNext(t) == /\ pc[t] = "abort2"
                /\ CallStreamOff(t, "capture", IF t = "dq" THEN "leave" ELSE "ready")
                /\ UNCHANGED <<item, goal, bufs, mapped, on, deviceVars, blocking, dqVars, broken>>

(* setStreamStatus(true); the driver refuses a plane without buffers.           *)
StreamOn(p) == /\ ~on[p] /\ bufs[p] > 0
               /\ on' = [on EXCEPT ![p] = TRUE]
               /\ UNCHANGED <<bufs, mapped, deviceVars, blocking, dqVars, broken>>

(* The device (external) moves a frame from a queued output buffer into a       *)
(* queued capture buffer.                                                       *)
Process == /\ on["output"] /\ on["capture"]
           /\ \E i \in Indices("output"), j \in Indices("capture") :
                /\ where["output"][i] = "queued" /\ where["capture"][j] = "queued"
                /\ where' = [where EXCEPT !["output"][i] = "done", !["capture"][j] = "done"]
           /\ UNCHANGED <<bufs, mapped, on, num, straddled, blocking, dqVars, threadVars, broken>>

(* qBuffer: the ioctl is made under the lock, and counted when it succeeds.     *)
Queue(p, i) == /\ where[p][i] = "app"
               /\ where' = [where EXCEPT ![p][i] = "queued"]
               /\ num' = [num EXCEPT ![p] = (@ + 1) % Wrap]
               /\ UNCHANGED straddled

FaultyDqCount(t) ==               \* a faulty variant: an int instead of a __u32
  /\ pc[t] = "dequeued"
  /\ num' = [num EXCEPT ![arg[t]] = @ - 1]
  /\ IF t = "dq" THEN Moves(t, "callback") ELSE Returns(t, "ready")
  /\ UNCHANGED <<where, straddled, bufs, mapped, on, blocking, dqVars, broken>>

(* dqBuffer: DQBUF blocks while the stream is on, unless opened with O_NONBLOCK. *)
DqIoctl(t, p) ==
  /\ \/ \E i \in Indices(p) : /\ on[p] /\ where[p][i] = "done"
                              /\ where' = [where EXCEPT ![p][i] = "app"]
                              /\ item' = [item EXCEPT ![t] = i]
                              /\ Goto(t, "dequeued")
                              /\ UNCHANGED <<arg, ret, goal>>
     \/ /\ ~on[p] \/ CanFail
        /\ Returns(t, IF t = "dq" THEN "failed" ELSE "ready") /\ UNCHANGED where
     \/ /\ ~blocking /\ on[p] /\ \A i \in Indices(p) : where[p][i] # "done"
        /\ Returns(t, IF t = "dq" THEN "again" ELSE "ready") /\ UNCHANGED where
  /\ UNCHANGED <<num, straddled, bufs, mapped, on, blocking, dqVars, broken>>

(* ... and the section under the lock that follows a successful DQBUF.           *)
DqCount(t) ==
  /\ pc[t] = "dequeued"
  /\ num' = [num EXCEPT ![arg[t]] = (@ - 1) % Wrap]
  /\ IF t = "dq" THEN Moves(t, "callback") ELSE Returns(t, "ready")
  /\ UNCHANGED <<where, straddled, bufs, mapped, on, blocking, dqVars, broken>>

-----------------------------------------------------------------------------
(* Faulty variants, which the properties must notice.                          *)
FaultyDqLeave == /\ pc["dq"] = "leave"      \* leaves dqthread_running set
                 /\ stop' = FALSE
                 /\ Moves("dq", "ended")
                 /\ UNCHANGED <<bufs, mapped, on, deviceVars, blocking, running, handle, broken>>

FaultyWaitForDQThread == /\ pc["app"] = "waitdq"
                         /\ Moves("app", IF goal = "call" THEN "ready" ELSE "release")
                         /\ UNCHANGED <<bufs, mapped, on, deviceVars, blocking, dqVars, broken>>

-----------------------------------------------------------------------------
(* The DQ thread.  Its first statement resets stop_dqthread, also when          *)
(* stopDQThread has just set it: that stop is lost.                              *)
DqBegin == /\ pc["dq"] = "begin"
           /\ stop' = FALSE
           /\ broken' = (broken \/ (stop /\ pc["app"] = "stopjoin"))   \* the stop is lost
           /\ Moves("dq", "test")
           /\ UNCHANGED <<bufs, mapped, on, deviceVars, blocking, running, handle>>

DqTest == /\ pc["dq"] = "test"
          /\ Moves("dq", IF stop THEN "leave" ELSE "dq")
          /\ UNCHANGED <<bufs, mapped, on, deviceVars, blocking, dqVars, broken>>

DqDequeue == pc["dq"] = "dq" /\ DqIoctl("dq", "capture")

(* The callback with a buffer: it uses the data, then queues the buffer again,   *)
(* or aborts when that fails; it may end the thread (at the end of the stream).  *)
DqCallback ==
  /\ pc["dq"] = "callback"
  /\ \/ /\ Queue("capture", item["dq"])
        /\ Returns("dq", "test") \/ Returns("dq", "leave")
     \/ /\ CanFail \/ where["capture"][item["dq"]] # "app"
        /\ Abort("dq") /\ UNCHANGED deviceVars
  /\ UNCHANGED <<bufs, mapped, on, blocking, dqVars, broken>>

(* After EAGAIN the callback is called only while the stream is on; otherwise    *)
(* its result is never set, and used if the stream is on again by then.          *)
DqAgain == /\ pc["dq"] = "again"
           /\ Moves("dq", IF on["capture"] THEN "failed" ELSE "unset")
           /\ UNCHANGED <<bufs, mapped, on, deviceVars, blocking, dqVars, broken>>

(* The callback without a buffer: the encoder's aborts, another may end the thread *)
(* or go on, which the thread does while the stream is on.                         *)
DqFailed == /\ pc["dq"] = "failed"
            /\ Abort("dq") \/ Moves("dq", "leave") \/ Moves("dq", "unset")
            /\ UNCHANGED <<bufs, mapped, on, deviceVars, blocking, dqVars, broken>>

DqStreaming == /\ pc["dq"] = "unset"
               /\ Moves("dq", "leave") \/ (on["capture"] /\ Moves("dq", "test"))
               /\ UNCHANGED <<bufs, mapped, on, deviceVars, blocking, dqVars, broken>>

DqLeave == /\ pc["dq"] = "leave"
           /\ stop' = FALSE
           /\ Moves("dq", "ending")
           /\ UNCHANGED <<bufs, mapped, on, deviceVars, blocking, running, handle, broken>>

DqEnd == /\ pc["dq"] = "ending"
         /\ running' = FALSE
         /\ Moves("dq", "ended")
         /\ UNCHANGED <<bufs, mapped, on, deviceVars, blocking, stop, handle, broken>>

DqThread == \/ DqBegin \/ DqTest \/ DqDequeue \/ DqCount("dq") \/ DqCallback \/ DqAgain
            \/ DqFailed \/ DqStreaming \/ DqLeave \/ DqEnd
            \/ StreamCheck("dq") \/ StreamOff("dq") \/ AbortNext("dq")

-----------------------------------------------------------------------------
(* startDQThread; the result of pthread_create is not looked at.                *)
StartDQThread ==
  /\ ~running
  /\ running' = TRUE
  /\ \/ /\ handle' = TRUE
        /\ Moves("dq", "begin")
        /\ UNCHANGED broken
     \/ /\ CanFail
        /\ broken' = TRUE          \* running is set, and no thread will reset it
        /\ UNCHANGED <<handle, threadVars>>
  /\ UNCHANGED <<bufs, mapped, on, deviceVars, blocking, stop>>

StopDQThread == /\ ~blocking
                /\ stop' = TRUE
                /\ Moves("app", "stopjoin")
                /\ UNCHANGED <<bufs, mapped, on, deviceVars, blocking, running, handle, broken>>

(* waitForDQThread on plane arg: of the planes only the capture plane has a       *)
(* thread.  The wait inside deinitPlane is without limit.                         *)
WaitForDQThread ==
  /\ pc["app"] = "waitdq"
  /\ \/ /\ arg["app"] = "output" \/ ~running
        /\ Moves("app", "join")
     \/ /\ goal = "call" /\ running
        /\ Returns("app", "ready")
  /\ UNCHANGED <<bufs, mapped, on, deviceVars, blocking, dqVars, broken>>

(* The join that follows.  When there is no thread, because there never was one,  *)
(* as on the output plane, or because it was joined before, pthread_join(0) is     *)
(* undefined: it returns, or the process ends there.                              *)
AfterJoin == IF goal = "call" THEN "ready" ELSE "release"
Join ==
  /\ pc["app"] \in {"join", "stopjoin"}
  /\ \/ /\ handle /\ (pc["app"] = "join" => arg["app"] = "capture")
        /\ pc["dq"] = "ended"
        /\ handle' = FALSE
        /\ pc' = [app |-> AfterJoin, dq |-> "off"]
     \/ /\ ~handle \/ (pc["app"] = "join" /\ arg["app"] = "output")
        /\ Goto("app", AfterJoin) \/ Goto("app", "undefined")
        /\ UNCHANGED handle
  /\ UNCHANGED <<arg, ret, item, goal, bufs, mapped, on, deviceVars, blocking, running, stop, broken>>

-----------------------------------------------------------------------------
(* deinitPlane: stream off, wait for the thread, unmap, give the buffers back.    *)
Deinit(p, g) == /\ CallStreamOff("app", p, "waitdq") /\ goal' = g
                /\ item' = [item EXCEPT !["app"] = 1]

FaultyDeinitRelease ==            \* a faulty variant: num_buffers is reset first
  /\ pc["app"] = "release"
  /\ LET p == arg["app"]
     IN  /\ mapped' = IF p = "capture" THEN {} ELSE mapped
         /\ bufs' = [bufs EXCEPT ![p] = 0]
         /\ IF on[p] THEN UNCHANGED where
                     ELSE where' = [where EXCEPT ![p] = [i \in Indices(p) |-> "app"]]
         /\ \/ /\ goal = "setup"
               /\ Goto("app", "error") /\ goal' = "call"
               /\ UNCHANGED <<arg, ret, item>>
            \/ goal = "delete" /\ p = "output" /\ Deinit("capture", "delete")
            \/ goal = "delete" /\ p = "capture" /\ Moves("app", "closed")
  /\ UNCHANGED <<on, num, straddled, blocking, dqVars, broken>>

(* Unmapping and REQBUFS(0), which fails while the stream is on.  ~NvV4l2Element   *)
(* goes on with the capture plane, and then closes the device.                    *)
DeinitRelease ==
  /\ pc["app"] = "release"
  /\ LET p == arg["app"]
     IN  /\ mapped' = IF p = "capture" THEN {} ELSE mapped
         /\ \/ /\ ~on[p]
               /\ bufs' = [bufs EXCEPT ![p] = 0]
               /\ where' = [where EXCEPT ![p] = [i \in Indices(p) |-> "app"]]
            \/ /\ on[p] \/ CanFail
               /\ UNCHANGED <<bufs, where>>
         /\ \/ /\ goal = "setup"
               /\ Goto("app", "error") /\ goal' = "call"
               /\ UNCHANGED <<arg, ret, item>>
            \/ goal = "delete" /\ p = "output" /\ Deinit("capture", "delete")
            \/ goal = "delete" /\ p = "capture" /\ Moves("app", "closed")
  /\ UNCHANGED <<on, num, straddled, blocking, dqVars, broken>>

(* setupPlane: REQBUFS, which may grant fewer buffers; on the capture plane each  *)
(* buffer is queried, exported and mapped.  Any failure deinitializes the plane.   *)
SetupPlane(p) ==
  /\ bufs[p] = 0
  /\ \/ /\ \E n \in Indices(p) : bufs' = [bufs EXCEPT ![p] = n]
        /\ Goto("app", IF p = "capture" THEN "setup" ELSE "ready")
        /\ item' = [item EXCEPT !["app"] = 1]
        /\ UNCHANGED <<arg, ret, goal>>
     \/ /\ CanFail
        /\ Deinit(p, "setup") /\ UNCHANGED bufs
  /\ UNCHANGED <<mapped, on, deviceVars, blocking, dqVars, broken>>

SetupBuffer ==
  /\ pc["app"] = "setup"
  /\ LET i == item["app"]
     IN  \/ /\ mapped' = mapped \cup {i}
            /\ item' = [item EXCEPT !["app"] = IF i < bufs["capture"] THEN i + 1 ELSE 1]
            /\ Goto("app", IF i < bufs["capture"] THEN "setup" ELSE "ready")
            /\ UNCHANGED <<arg, ret, goal>>
         \/ /\ CanFail
            /\ Deinit("capture", "setup") /\ UNCHANGED mapped
  /\ UNCHANGED <<bufs, on, deviceVars, blocking, dqVars, broken>>

(* What goes on inside a call of the application.                                *)
InCall == \/ StreamCheck("app") \/ StreamOff("app") \/ AbortNext("app") \/ DqCount("app")
          \/ WaitForDQThread \/ Join \/ DeinitRelease \/ SetupBuffer
=============================================================================
