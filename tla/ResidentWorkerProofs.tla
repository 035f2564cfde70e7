------------------------ MODULE ResidentWorkerProofs ------------------------
(***************************************************************************)
(* Proofs about ResidentWorker for any number of requests, any capacity of *)
(* the event channel and any amount of diagnostics.                        *)
(*                                                                         *)
(* None of the three safety properties is inductive.  Which line may still *)
(* be on its way depends on where the consumer is and on how far the       *)
(* process got: Quiet says that nothing is when nothing is asked, Greeting *)
(* that READY comes alone, Answering that TIMING and DONE of one request   *)
(* are the only lines in the two buffers between process and consumer, in  *)
(* that order, and that the result precedes DONE.                          *)
(***************************************************************************)
EXTENDS ResidentWorker, SequenceTheorems, TLAPS

\* Protocol lines of a buffer: everything but diagnostics.
Silent(s)  == \A i \in 1..Len(s) : s[i].word = "log"
Has(s, w)  == \E i \in 1..Len(s) : s[i].word = w
Only(s, W) == \A i \in 1..Len(s) : s[i].word = "log" \/ s[i].word \in W

Greetings == {"READY"}
Replies   == {"TIMING", "DONE"}

\* w, if it is there, is preceded by nothing but diagnostics and the words
\* of W, and followed by nothing but diagnostics.
Last(s, w) == \A i, j \in 1..Len(s) : s[i].word = w /\ i < j => s[j].word = "log"

\* What the consumer's place says about the process it refers to.
Places ==
    /\ native <= req
    /\ gpc \notin {"idle", "off", "stop", "kill", "drain"} => req # 0
    /\ gpc \in {"start", "solo", "reap", "off"} => native = 0
    /\ gpc \in {"ready", "send", "wait", "kill", "drain"} => native # 0
    /\ gpc \in {"idle", "enter"} /\ ~persistent => native = 0
    /\ gpc \in {"ready", "send", "wait"} => Resident
    /\ gpc \in {"solo", "reap"} => ~Resident /\ proc[req] \in {"solo", "dead", "reaped"}
    /\ gpc \in {"stop", "kill", "drain"} /\ after = "start" => req # 0

\* The request has no process yet.
Fresh ==
    /\ \A q \in Reqs : q > req => proc[q] = "none"
    /\ (gpc \in {"enter", "start"} \/ (gpc \in {"stop", "kill", "drain"} /\ after = "start"))
         => proc[req] = "none"
    /\ native # 0 => proc[native] \notin {"none", "solo"}
    /\ \A q \in Reqs : proc[q] = "none" =>
         stdin[q] = <<>> /\ stdout[q] = <<>> /\ stderr[q] = 0 /\ events[q] = <<>>

\* Every process that is not reaped is the resident one or the own process
\* of the current request.
Owned == \A p \in Reqs : proc[p] \notin {"none", "reaped"} =>
            p = native \/ (p = req /\ gpc \in {"solo", "reap"})

\* A process computes only what it was asked.
Asked == \A p \in Reqs :
    /\ proc[p] \in {"infer", "write", "reply"} => work[p] \in Reqs
    /\ proc[p] = "solo" => work[p] = p

Resting == {"await", "dead", "reaped"}

\* Nothing is asked: the process owes nothing.
Quiet == native # 0 /\ gpc \in {"idle", "enter", "send"} =>
    /\ proc[native] \in Resting
    /\ stdin[native] = <<>>
    /\ stdout[native] = <<>>
    /\ Silent(events[native])

\* The process comes up.
Greeting == gpc = "ready" =>
    /\ native = req
    /\ proc[native] = "loading" \/ proc[native] \in Resting
    /\ stdin[native] = <<>>
    /\ Only(stdout[native], Greetings)
    /\ Len(stdout[native]) <= 1
    /\ Only(events[native], Greetings)
    /\ Last(events[native], "READY")
    /\ stdout[native] # <<>> => Silent(events[native])
    /\ proc[native] = "loading" => stdout[native] = <<>> /\ Silent(events[native])

\* It was asked for req.
Answering == gpc = "wait" =>
    LET p == native
        timed == timing \/ Has(events[p], "TIMING") \/ Has(stdout[p], "TIMING")
        done  == Has(events[p], "DONE") \/ Has(stdout[p], "DONE")
    IN  /\ Only(stdout[p], Replies) /\ ~Has(stdout[p], "log")
        /\ Only(events[p], Replies)
        /\ Last(stdout[p], "DONE") /\ Last(events[p], "DONE")
        /\ Has(events[p], "DONE") => stdout[p] = <<>>
        /\ stdin[p] \in {<<>>, <<req>>}
        /\ stdin[p] # <<>> => proc[p] \in Resting /\ ~done
        /\ proc[p] \in Resting \/ proc[p] \in {"infer", "write", "reply"}
        /\ proc[p] \in {"infer", "write", "reply"} => work[p] = req /\ ~done
        /\ proc[p] \in {"write", "reply"} => timed
        /\ proc[p] = "reply" => result[req] = "whole"
        /\ done => timed /\ result[req] = "whole"

\* A verdict is given once; after "ok" the process has nothing left to do.
Settled ==
    /\ (gpc \notin {"idle", "off", "stop", "kill", "drain"}
          \/ (gpc \in {"stop", "kill", "drain"} /\ after = "start")) => verdict = "none"
    /\ verdict = "ok" =>
         /\ req # 0
         /\ result[req] = "whole"
         /\ Resident => timing
         /\ native # 0 => proc[native] \in Resting /\ stdin[native] = <<>>

Inv ==
    /\ TypeOK
    /\ Places
    /\ Fresh
    /\ Owned
    /\ Asked
    /\ Quiet
    /\ Greeting
    /\ Answering
    /\ Settled

-----------------------------------------------------------------------------
(* Buffers of lines                                                        *)

\* What one more line at the end changes (fprintf to the pipe, a send on
\* w.events).
LEMMA AppendLine ==
    ASSUME NEW s \in Seq(Lines), NEW x \in Lines
    PROVE  /\ Append(s, x) \in Seq(Lines)
           /\ Len(Append(s, x)) = Len(s) + 1
           /\ Append(s, x) # <<>>
           /\ Silent(s) /\ x.word = "log" => Silent(Append(s, x))
           /\ \A W : Only(s, W) /\ x.word \in W \cup {"log"} => Only(Append(s, x), W)
           /\ \A w : Has(Append(s, x), w) <=> Has(s, w) \/ x.word = w
           /\ \A w : Last(s, w) /\ x.word = "log" => Last(Append(s, x), w)
           /\ \A w : ~Has(s, w) => Last(Append(s, x), w)
<1>. DEFINE t == Append(s, x)
<1>1. /\ t \in Seq(Lines) /\ Len(t) = Len(s) + 1 /\ Len(s) \in Nat
      /\ \A i \in 1..Len(s) : t[i] = s[i]
      /\ t[Len(s) + 1] = x
  BY AppendProperties, LenProperties
<1>2. t # <<>>
  BY <1>1, EmptySeq
<1>3. \A i \in 1..Len(t) : i \in 1..Len(s) \/ i = Len(s) + 1
  BY <1>1
<1>4. 1..Len(s) \subseteq 1..Len(t) /\ Len(s) + 1 \in 1..Len(t)
  BY <1>1
<1>. HIDE DEF t
<1>5. Silent(s) /\ x.word = "log" => Silent(t)
  BY <1>1, <1>3 DEF Silent
<1>6. \A W : Only(s, W) /\ x.word \in W \cup {"log"} => Only(t, W)
  BY <1>1, <1>3 DEF Only
<1>7. \A w : Has(t, w) <=> Has(s, w) \/ x.word = w
  BY <1>1, <1>3, <1>4 DEF Has
<1>8. \A w : Last(s, w) /\ x.word = "log" => Last(t, w)
  BY <1>1, <1>3 DEF Last
<1>9. \A w : ~Has(s, w) => Last(t, w)
  BY <1>1, <1>3 DEF Has, Last
<1>. QED  BY <1>1, <1>2, <1>5, <1>6, <1>7, <1>8, <1>9 DEF t

\* What taking the first line changes (a reader goroutine, a receive from
\* w.events).
LEMMA TakeLine ==
    ASSUME NEW s \in Seq(Lines), s # <<>>
    PROVE  /\ Head(s) \in Lines /\ Tail(s) \in Seq(Lines)
           /\ Len(Tail(s)) = Len(s) - 1
           /\ Silent(s) => Silent(Tail(s)) /\ Head(s).word = "log"
           /\ \A W : Only(s, W) => Only(Tail(s), W) /\ Head(s).word \in W \cup {"log"}
           /\ \A w : Has(s, w) <=> Head(s).word = w \/ Has(Tail(s), w)
           /\ \A w : Last(s, w) => Last(Tail(s), w)
           /\ \A w : Last(s, w) /\ Head(s).word = w => Silent(Tail(s))
<1>. DEFINE t == Tail(s)
<1>1. /\ t \in Seq(Lines) /\ Len(t) = Len(s) - 1 /\ Len(t) \in Nat
      /\ Head(s) = s[1] /\ Head(s) \in Lines
      /\ \A i \in 1..Len(t) : t[i] = s[i + 1]
  BY HeadTailProperties, LenProperties
<1>2. \A i \in 1..Len(t) : i + 1 \in 1..Len(s)
  BY <1>1, LenProperties
<1>3. \A i \in 1..Len(s) : i = 1 \/ (i - 1 \in 1..Len(t) /\ t[i - 1] = s[i])
  BY <1>1, LenProperties
<1>4. 1 \in 1..Len(s)
  BY <1>1, LenProperties
<1>. HIDE DEF t
<1>5. Silent(s) => Silent(t) /\ Head(s).word = "log"
  BY <1>1, <1>2, <1>4 DEF Silent
<1>6. \A W : Only(s, W) => Only(t, W) /\ Head(s).word \in W \cup {"log"}
  BY <1>1, <1>2, <1>4 DEF Only
<1>7. \A w : Has(s, w) <=> Head(s).word = w \/ Has(t, w)
  BY <1>1, <1>2, <1>3, <1>4 DEF Has
<1>8. \A w : Last(s, w) => Last(t, w)
  <2>. SUFFICES ASSUME NEW w, Last(s, w), NEW i \in 1..Len(t), NEW j \in 1..Len(t),
                       t[i].word = w, i < j
                PROVE  t[j].word = "log"
    BY DEF Last
  <2>1. i + 1 \in 1..Len(s) /\ j + 1 \in 1..Len(s) /\ i + 1 < j + 1
    BY <1>2
  <2>2. s[i + 1].word = w /\ s[j + 1].word = t[j].word
    BY <1>1
  <2>. QED  BY <2>1, <2>2 DEF Last
<1>9. \A w : Last(s, w) /\ Head(s).word = w => Silent(t)
  <2>. SUFFICES ASSUME NEW w, Last(s, w), s[1].word = w, NEW i \in 1..Len(t)
                PROVE  t[i].word = "log"
    BY <1>1 DEF Silent
  <2>. QED  BY <1>1, <1>2, <1>4 DEF Last
<1>. QED  BY <1>1, <1>5, <1>6, <1>7, <1>8, <1>9 DEF t

\* An empty buffer, and one that holds diagnostics only.
LEMMA NoLines ==
    /\ <<>> \in Seq(Lines) /\ Len(<<>>) = 0 /\ Silent(<<>>) /\ ~Has(<<>>, "log")
    /\ \A s \in Seq(Lines) : Silent(s) /\ ~Has(s, "log") => s = <<>>
    /\ \A s \in Seq(Lines) : Silent(s) =>
         /\ Last(s, "READY") /\ Last(s, "DONE")
         /\ Only(s, Greetings) /\ Only(s, Replies)
         /\ ~Has(s, "READY") /\ ~Has(s, "TIMING") /\ ~Has(s, "DONE")
BY DEF Silent, Has, Last, Only
-----------------------------------------------------------------------------
(* The inductive invariant, one lemma per group of actions                 *)

\* Taking a request, choosing a process for it and giving a verdict move the
\* consumer only.
LEMMA ChoiceKeepsInv ==
    Inv /\ (\/ \E k \in Kinds : Begin(k)
            \/ Enter \/ StartFails \/ LogFails \/ SoloDone \/ SoloReaped
            \/ NothingToStop \/ IdleTick \/ WorkerExit \/ EndContext \/ Signal)
    => Inv'
<1>. USE WorkerAssumption, NoLines
     DEF Inv, TypeOK, Places, Fresh, Owned, Asked, Quiet, Greeting, Answering, Settled,
         Reqs, Kinds, Resting, Resident, request, native_
<1>. SUFFICES ASSUME Inv PROVE 
       (\/ \E k \in Kinds : Begin(k)
            \/ Enter \/ StartFails \/ LogFails \/ SoloDone \/ SoloReaped
            \/ NothingToStop \/ IdleTick \/ WorkerExit \/ EndContext \/ Signal)
        => Inv'
  OBVIOUS
<1>1. ASSUME NEW k \in Kinds, Begin(k) PROVE Inv'
  <2>0. req + 1 \in 1..MaxReq /\ req' = req + 1 /\ proc' = proc /\ gpc' = "enter"
    BY <1>1 DEF Begin
  <2>6. req' \in 0..MaxReq /\ ctx' \in {"live", "ended"}
    BY <1>1 DEF Begin
  <2>1. TypeOK'
    BY <1>1, <2>0, <2>6, Zenon DEF Begin
  <2>2. Places'
    BY <1>1, <2>0 DEF Begin
  <2>5. Fresh'
    <3>1. proc[req'] = "none"
      BY <2>0
    <3>2. \A q \in Reqs : q > req' => proc'[q] = "none"
      BY <2>0
    <3>. QED  BY <1>1, <2>0, <3>1, <3>2 DEF Begin
  <2>3. Owned' /\ Asked'
    BY <1>1 DEF Begin
  <2>4. Quiet' /\ Greeting' /\ Answering' /\ Settled'
    BY <1>1 DEF Begin
  <2>. QED  BY <2>1, <2>2, <2>3, <2>4, <2>5
<1>2. CASE EnterResident
  BY <1>2 DEF EnterResident, Return
<1>3. CASE ScratchFails
  BY <1>3 DEF ScratchFails
<1>12. CASE EnterOnce
  BY <1>12 DEF EnterOnce
<1>4. CASE EnterObject
  BY <1>4 DEF EnterObject, Return
<1>5. CASE StartFails
  BY <1>5 DEF StartFails, Return
<1>6. CASE LogFails
  BY <1>6 DEF LogFails, Fail
<1>7. CASE SoloDone
  BY <1>7 DEF SoloDone, Return
<1>8. CASE SoloReaped
  BY <1>8 DEF SoloReaped, Return
<1>9. CASE NothingToStop
  BY <1>9 DEF NothingToStop
<1>10. CASE IdleTick
  BY <1>10 DEF IdleTick
<1>11. CASE WorkerExit
  BY <1>11 DEF WorkerExit
<1>13. CASE EndContext
  BY <1>13 DEF EndContext
<1>14. CASE Signal
  BY <1>14 DEF Signal
<1>. QED  BY <1>1, <1>2, <1>3, <1>4, <1>5, <1>6, <1>7, <1>8, <1>9, <1>10,
           <1>11, <1>12, <1>13, <1>14 DEF Enter

\* Starting a process: it is the resident one, or the request's own.
LEMMA StartKeepsInv == Inv /\ Start => Inv'
<1>. USE WorkerAssumption, NoLines
     DEF Inv, TypeOK, Places, Fresh, Owned, Asked, Quiet, Greeting, Answering, Settled,
         Reqs, Kinds, Resting, Resident, request, native_
<1>. SUFFICES ASSUME Inv, Start PROVE Inv'
  OBVIOUS
<1>1. /\ native = 0 /\ req \in Reqs /\ gpc = "start"
      /\ proc[req] = "none" /\ verdict = "none"
      /\ stdin[req] = <<>> /\ stdout[req] = <<>> /\ events[req] = <<>> /\ stderr[req] = 0
      /\ \A p \in Reqs : proc[p] \in {"none", "reaped"}
  BY DEF Start
<1>2. /\ UNCHANGED <<persistent, after, req, kind, verdict, timing, ctx, stopping,
                     result, stdin, stdout, stderr, events>>
      /\ Resident' <=> Resident
  BY DEF Start
<1>3. CASE Resident
  <2>1. /\ proc' = [proc EXCEPT ![req] = "loading"] /\ work' = [work EXCEPT ![req] = 0]
        /\ open' = [open EXCEPT ![req] = TRUE]
        /\ native' = req /\ gpc' = "ready"
    BY <1>3, Zenon DEF Start
  <2>2. /\ proc'[req] = "loading" /\ stdin'[native'] = <<>>
        /\ stdout'[native'] = <<>> /\ events'[native'] = <<>>
        /\ \A p \in Reqs : p # req => proc'[p] = proc[p]
    BY <1>1, <1>2, <2>1
  <2>3. TypeOK'
    BY <1>1, <1>2, <2>1
  <2>4. Places'
    BY <1>1, <1>2, <2>1, <2>2, <1>3
  <2>8. Fresh'
    <3>1. \A q \in Reqs : proc'[q] = "none" => q # req /\ proc[q] = "none"
      BY <2>2
    <3>2. ASSUME NEW q \in Reqs, q > req' PROVE proc'[q] = "none"
      <4>1. q > req /\ q # req
        BY <1>1, <1>2, <3>2
      <4>. QED  BY <2>2, <4>1
    <3>. QED  BY <1>1, <1>2, <2>1, <2>2, <3>1, <3>2
  <2>5. Owned' /\ Asked'
    BY <1>1, <1>2, <2>1, <2>2
  <2>6. Greeting'
    <3>1. Len(stdout'[native']) = 0 /\ Silent(events'[native']) /\ native' = req'
      BY <1>2, <2>1, <2>2
    <3>2. /\ stdout'[native'] \in Seq(Lines) /\ Silent(stdout'[native'])
          /\ events'[native'] \in Seq(Lines)
      BY <2>2
    <3>3. Only(stdout'[native'], Greetings) /\ Last(events'[native'], "READY")
          /\ Only(events'[native'], Greetings)
      BY <3>1, <3>2
    <3>4. proc'[native'] = "loading" /\ stdin'[native'] = <<>> /\ stdout'[native'] = <<>>
      BY <2>1, <2>2
    <3>. QED  BY <3>1, <3>3, <3>4
  <2>7. Quiet' /\ Answering' /\ Settled'
    BY <1>1, <1>2, <2>1, <2>2
  <2>. QED  BY <2>3, <2>4, <2>5, <2>6, <2>7, <2>8
<1>4. CASE ~Resident
  <2>1. /\ proc' = [proc EXCEPT ![req] = "solo"] /\ work' = [work EXCEPT ![req] = req]
        /\ open' = [open EXCEPT ![req] = FALSE]
        /\ native' = native /\ gpc' = "solo"
    BY <1>4, Zenon DEF Start
  <2>2. /\ proc'[req] = "solo" /\ work'[req] = req
        /\ \A p \in Reqs : p # req => proc'[p] = proc[p] /\ work'[p] = work[p]
    BY <1>1, <1>2, <2>1
  <2>3. TypeOK'
    BY <1>1, <1>2, <2>1
  <2>4. Places'
    BY <1>1, <1>2, <2>1, <2>2, <1>4
  <2>8. Fresh'
    <3>1. \A q \in Reqs : proc'[q] = "none" => q # req /\ proc[q] = "none"
      BY <2>2
    <3>2. ASSUME NEW q \in Reqs, q > req' PROVE proc'[q] = "none"
      <4>1. q > req /\ q # req
        BY <1>1, <1>2, <3>2
      <4>. QED  BY <2>2, <4>1
    <3>. QED  BY <1>1, <1>2, <2>1, <2>2, <3>1, <3>2
  <2>5. Owned' /\ Asked'
    BY <1>1, <1>2, <2>1, <2>2
  <2>6. Quiet' /\ Greeting' /\ Answering' /\ Settled'
    BY <1>1, <1>2, <2>1, <2>2
  <2>. QED  BY <2>3, <2>4, <2>5, <2>6, <2>8
<1>. QED  BY <1>3, <1>4

\* Handing a frame to the resident process, or giving up while doing so.
LEMMA SendKeepsInv == Inv /\ (Send \/ Cancelled) => Inv'
<1>. USE WorkerAssumption, NoLines
     DEF Inv, TypeOK, Places, Fresh, Owned, Asked, Quiet, Greeting, Answering, Settled,
         Reqs, Kinds, Resting, Resident, request, native_
<1>. SUFFICES ASSUME Inv PROVE Send \/ Cancelled => Inv'
  OBVIOUS
<1>1. ASSUME gpc = "send", Running(native),
             stdin' = [stdin EXCEPT ![native] = Append(@, req)]
      PROVE  /\ stdin' \in [Reqs -> Seq(Reqs)]
             /\ stdin'[native] = <<req>>
             /\ \A p \in Reqs : p # native => stdin'[p] = stdin[p]
             /\ proc[native] = "await" /\ native \in Reqs /\ stdout[native] = <<>>
             /\ Silent(events[native])
  <2>1. native \in Reqs /\ req \in Reqs /\ proc[native] \in Resting /\ stdin[native] = <<>>
        /\ stdout[native] = <<>> /\ Silent(events[native])
    BY <1>1
  <2>2. Append(stdin[native], req) = <<req>>
    BY <2>1
  <2>. QED  BY <1>1, <2>1, <2>2 DEF Running
<1>2. CASE Send /\ Running(native)
  <2>1. /\ gpc = "send" /\ gpc' = "wait" /\ stdin' = [stdin EXCEPT ![native] = Append(@, req)]
        /\ UNCHANGED <<persistent, after, req, kind, ctx, stopping, timing, native, verdict,
                       proc, work, result, open, stdout, stderr, events>>
    BY <1>2 DEF Send
  <2>2. TypeOK'
    <3>1. stdin' \in [Reqs -> Seq(Reqs)] /\ gpc' = "wait"
      BY <1>1, <1>2, <2>1
    <3>. HIDE DEF Inv, Places, Fresh, Owned, Asked, Quiet, Greeting, Answering, Settled
    <3>2. TypeOK
      BY DEF Inv
    <3>. QED  BY <2>1, <3>1, <3>2
  <2>5. Places' /\ Fresh'
    BY <1>1, <2>1, SMTT(20)
  <2>3. Owned' /\ Asked' /\ Quiet' /\ Greeting' /\ Settled'
    BY <1>1, <1>2, <2>1
  <2>4. Answering'
    <3>1. /\ events'[native'] \in Seq(Lines) /\ Silent(events'[native'])
          /\ stdout'[native'] = <<>> /\ stdin'[native'] = <<req'>> /\ proc'[native'] = "await"
      BY <1>1, <1>2, <2>1
    <3>2. stdout'[native'] \in Seq(Lines) /\ Silent(stdout'[native'])
          /\ ~Has(stdout'[native'], "log")
      BY <3>1
    <3>3. Only(events'[native'], Replies) /\ Last(events'[native'], "DONE")
          /\ ~Has(events'[native'], "DONE")
      BY <3>1
    <3>. QED  BY <3>1, <3>2, <3>3
  <2>. QED  BY <2>2, <2>3, <2>4, <2>5
<1>3. CASE Send /\ ~Running(native)
  <2>1. /\ gpc = "send" /\ gpc' = "stop" /\ verdict' = "error" /\ after' = "idle"
        /\ UNCHANGED <<persistent, req, kind, ctx, stopping, timing, native,
                       proc, work, result, stdin, open, stdout, stderr, events>>
    BY <1>3 DEF Send, Fail
  <2>. QED  BY <2>1
<1>4. CASE Cancelled /\ UNCHANGED stdin
  BY <1>4 DEF Cancelled, Fail
<1>5. CASE /\ Cancelled /\ gpc = "send" /\ Running(native)
           /\ stdin' = [stdin EXCEPT ![native] = Append(@, req)]
  BY <1>1, <1>5 DEF Cancelled, Fail
<1>. QED  BY <1>2, <1>3, <1>4, <1>5 DEF Cancelled

\* The resident process is found dead; the context of a request with a
\* process of its own ends.
LEMMA EndedKeepsInv == Inv /\ (ProcessGone \/ SoloKilled) => Inv'
<1>. USE WorkerAssumption, NoLines
     DEF Inv, TypeOK, Places, Fresh, Owned, Asked, Quiet, Greeting, Answering, Settled,
         Reqs, Kinds, Resting, Resident, request, native_
<1>. SUFFICES ASSUME Inv PROVE ProcessGone \/ SoloKilled => Inv'
  OBVIOUS
<1>1. CASE ProcessGone
  <2>1. /\ native \in Reqs /\ events' = [events EXCEPT ![native] = <<>>]
        /\ gpc \in {"ready", "wait"} /\ gpc' = "stop" /\ verdict' = "error" /\ after' = "idle"
        /\ UNCHANGED <<persistent, req, kind, ctx, stopping, timing, native, native_>>
    BY <1>1 DEF ProcessGone, Fail
  <2>2. /\ events' \in [Reqs -> Seq(Lines)]
        /\ \A p \in Reqs : events'[p] = <<>> \/ events'[p] = events[p]
    BY <2>1
  <2>3. \A p \in Reqs : Len(events'[p]) <= Cap
    BY <2>2
  <2>. QED  BY <2>1, <2>2, <2>3
<1>2. CASE SoloKilled
  <2>1. /\ req \in Reqs /\ gpc = "solo" /\ gpc' = "reap" /\ proc[req] \in {"solo", "dead", "reaped"}
        /\ proc' = [proc EXCEPT ![req] = IF Running(req) THEN "dead" ELSE @]
        /\ native = 0 /\ verdict = "none"
        /\ UNCHANGED <<persistent, after, req, kind, verdict, timing, ctx, stopping, native,
                       work, result, stdin, open, stdout, stderr, events>>
    BY <1>2 DEF SoloKilled
  <2>2. /\ \A p \in Reqs : p # req => proc'[p] = proc[p]
        /\ proc'[req] \in {"dead", "reaped"}
        /\ proc' \in [Reqs -> {"none", "loading", "await", "infer", "write", "reply",
                               "solo", "dead", "reaped"}]
    BY <2>1 DEF Running
  <2>3. TypeOK'
    BY <2>1, <2>2
  <2>4. Places' /\ Fresh'
    BY <2>1, <2>2
  <2>6. Owned' /\ Asked'
    BY <2>1, <2>2
  <2>5. Quiet' /\ Greeting' /\ Answering' /\ Settled'
    BY <2>1, <2>2
  <2>. QED  BY <2>3, <2>4, <2>5, <2>6
<1>. QED  BY <1>1, <1>2

\* A line is received from w.events: the five outcomes of wait.
LEMMA ReadEventKeepsInv == Inv /\ ReadEvent => Inv'
<1>. USE WorkerAssumption, NoLines
     DEF Inv, TypeOK, Places, Fresh, Owned, Asked, Quiet, Greeting, Answering, Settled,
         Reqs, Kinds, Resting, Resident, request, native_
<1>. SUFFICES ASSUME Inv, ReadEvent PROVE Inv'
  OBVIOUS
<1>. DEFINE e == events[native]
            t == Tail(events[native])
            word == Head(events[native]).word
<1>1. /\ native \in Reqs /\ req \in Reqs /\ gpc \in {"ready", "wait"} /\ verdict = "none"
      /\ e \in Seq(Lines) /\ e # <<>>
      /\ events' = [events EXCEPT ![native] = t]
      /\ UNCHANGED <<persistent, req, kind, ctx, stopping, native, proc, work, result,
                     stdin, open, stdout, stderr>>
  <2>1. /\ gpc \in {"ready", "wait"} /\ e # <<>>
        /\ events' = [events EXCEPT ![native] = t]
        /\ UNCHANGED <<persistent, req, kind, ctx, stopping, native, proc, work, result,
                     stdin, open, stdout, stderr>>
    BY DEF ReadEvent
  <2>4. native # 0 /\ req # 0 /\ verdict = "none"
    BY <2>1
  <2>2. native \in Reqs /\ req \in Reqs /\ verdict = "none"
    BY <2>4
  <2>3. e \in Seq(Lines)
    BY <2>2
  <2>. QED  BY <2>1, <2>2, <2>3
<1>2. /\ t \in Seq(Lines) /\ Len(t) = Len(e) - 1
      /\ Silent(e) => Silent(t) /\ word = "log"
      /\ \A W : Only(e, W) => Only(t, W) /\ word \in W \cup {"log"}
      /\ \A w : Has(e, w) <=> word = w \/ Has(t, w)
      /\ \A w : Last(e, w) => Last(t, w)
      /\ \A w : Last(e, w) /\ word = w => Silent(t)
  BY <1>1, TakeLine
<1>3. \/ word = "log" /\ UNCHANGED <<gpc, after, verdict, timing>>
      \/ /\ word = "TIMING" /\ gpc = "wait" /\ timing' = TRUE
         /\ UNCHANGED <<gpc, after, verdict>>
      \/ /\ word = "READY" /\ gpc = "ready" /\ gpc' = "send"
         /\ UNCHANGED <<after, verdict, timing>>
      \/ word = "DONE" /\ gpc = "wait" /\ Return("ok") /\ UNCHANGED timing
      \/ Fail("error") /\ UNCHANGED timing
  BY <1>1 DEF ReadEvent, Answers, Expected
<1>. HIDE DEF e, t, word
<1>4. /\ events'[native] = t /\ events' \in [Reqs -> Seq(Lines)]
      /\ \A p \in Reqs : Len(events'[p]) <= Cap
      /\ \A p \in Reqs : p # native => events'[p] = events[p]
      /\ Len(e) \in Nat /\ Len(t) \in Nat
  <2>1. Len(e) \in Nat /\ Len(t) \in Nat /\ Len(e) <= Cap
    BY <1>1, <1>2, LenProperties DEF e
  <2>2. events'[native] = t /\ events' \in [Reqs -> Seq(Lines)]
        /\ \A p \in Reqs : p # native => events'[p] = events[p]
    BY <1>1, <1>2
  <2>3. Len(t) <= Cap
    BY <1>2, <2>1
  <2>4. ASSUME NEW p \in Reqs PROVE Len(events'[p]) <= Cap
    BY <2>2, <2>3
  <2>. QED  BY <2>1, <2>2, <2>4
<1>5. Fresh' /\ Owned' /\ Asked'
  <2>1. gpc' \in {"ready", "wait", "send", "idle", "stop"} /\ (gpc' = "stop" => after' = "idle")
        /\ (gpc' = "idle" => gpc = "wait")
    BY <1>1, <1>3 DEF Return, Fail
  <2>2. proc[native] # "none"
    BY <1>1
  <2>. QED  BY <1>1, <1>4, <2>1, <2>2
<1>6. CASE word = "log" /\ UNCHANGED <<gpc, after, verdict, timing>>
  <2>1. TypeOK'
    BY <1>1, <1>4, <1>6
  <2>4. Places' /\ Settled'
    BY <1>1, <1>4, <1>6
  <2>2. Quiet' /\ Greeting'
    BY <1>1, <1>2, <1>4, <1>6 DEF e
  <2>3. Answering'
    BY <1>1, <1>2, <1>4, <1>6 DEF e
  <2>. QED  BY <1>5, <2>1, <2>2, <2>3, <2>4
<1>7. CASE word = "TIMING" /\ gpc = "wait" /\ timing' = TRUE /\ UNCHANGED <<gpc, after, verdict>>
  <2>1. TypeOK'
    BY <1>1, <1>4, <1>7, Zenon
  <2>2. Places' /\ Settled'
    BY <1>1, <1>4, <1>7
  <2>3. Quiet' /\ Greeting'
    BY <1>1, <1>7
  <2>4. Answering'
    BY <1>1, <1>2, <1>4, <1>7 DEF e
  <2>. QED  BY <1>5, <2>1, <2>2, <2>3, <2>4
<1>8. CASE word = "READY" /\ gpc = "ready" /\ gpc' = "send" /\ UNCHANGED <<after, verdict, timing>>
  <2>1. TypeOK' /\ Places' /\ Settled'
    BY <1>1, <1>4, <1>8
  <2>2. Quiet'
    BY <1>1, <1>2, <1>4, <1>8 DEF e
  <2>3. Greeting' /\ Answering'
    BY <1>8
  <2>. QED  BY <1>5, <2>1, <2>2, <2>3
<1>9. CASE word = "DONE" /\ gpc = "wait" /\ Return("ok") /\ UNCHANGED timing
  <2>1. /\ gpc' \in {"idle", "stop"} /\ after' = "idle" /\ verdict' = "ok"
        /\ gpc' = "idle" => persistent
    BY <1>1, <1>9 DEF Return
  <2>2. /\ Silent(t) /\ stdout[native] = <<>> /\ stdin[native] = <<>>
        /\ proc[native] \in Resting /\ result[req] = "whole"
    BY <1>1, <1>2, <1>9 DEF e
  <2>3. timing
    BY <1>1, <1>2, <1>9, <2>2 DEF e
  <2>4. TypeOK' /\ Places'
    BY <1>1, <1>4, <1>9, <2>1
  <2>5. Quiet' /\ Greeting' /\ Answering' /\ Settled'
    BY <1>1, <1>4, <1>9, <2>1, <2>2, <2>3
  <2>. QED  BY <1>5, <2>4, <2>5
<1>10. CASE Fail("error") /\ UNCHANGED timing
  BY <1>1, <1>4, <1>5, <1>10 DEF Fail
<1>. QED  BY <1>3, <1>6, <1>7, <1>8, <1>9, <1>10

\* A process that was reaped is forgotten: nobody refers to it any more.
LEMMA ForgetKeepsInv ==
    ASSUME Inv, native \in Reqs, proc[native] = "reaped", gpc \in {"stop", "drain"},
           gpc' = after, Forget, open' \in [Reqs -> BOOLEAN],
           UNCHANGED <<persistent, after, request, ctx, stopping, proc, result, stdout, stderr>>
    PROVE  Inv'
<1>. USE DEF request
<1>1. /\ native' = 0
      /\ work' = [work EXCEPT ![native] = 0]
      /\ stdin' = [stdin EXCEPT ![native] = <<>>]
      /\ events' = [events EXCEPT ![native] = <<>>]
  BY DEF Forget
<1>2. /\ UNCHANGED <<persistent, after, req, kind, verdict, timing, ctx, stopping, proc,
                     result, stdout, stderr>>
      /\ gpc' = after
  OBVIOUS
<1>3. TypeOK
  BY DEF Inv
<1>4. /\ events' \in [Reqs -> Seq(Lines)]
      /\ stdin' \in [Reqs -> Seq(Reqs)]
      /\ work' \in [Reqs -> 0..MaxReq]
  BY <1>1, <1>3, WorkerAssumption DEF TypeOK
<1>5. \A p \in Reqs : /\ events'[p] = events[p] \/ events'[p] = <<>>
                      /\ stdin'[p] = stdin[p] \/ stdin'[p] = <<>>
                      /\ p # native => work'[p] = work[p]
  BY <1>1, <1>3 DEF TypeOK
<1>6. ASSUME NEW p \in Reqs PROVE Len(events'[p]) <= Cap
  <2>1. Len(events[p]) <= Cap /\ Len(<<>>) <= Cap
    BY <1>3, WorkerAssumption DEF TypeOK
  <2>. QED  BY <1>5, <2>1
<1>7. TypeOK'
  BY <1>1, <1>2, <1>3, <1>4, <1>6 DEF TypeOK
<1>8. \A p \in Reqs : proc[p] \in {"none", "reaped"}
  BY DEF Inv, Owned
<1>9. after # "start" \/ (req # 0 /\ proc[req] = "none")
  BY DEF Inv, Places, Fresh
<1>10. Places'
  BY <1>1, <1>2, <1>3, <1>9 DEF Places, TypeOK, Resident
<1>11. Fresh'
  <2>1. \A q \in Reqs : proc[q] = "none" => /\ stdin[q] = <<>> /\ stdout[q] = <<>>
                                            /\ stderr[q] = 0 /\ events[q] = <<>>
    BY DEF Inv, Fresh
  <2>2. \A q \in Reqs : q > req => proc[q] = "none"
    BY DEF Inv, Fresh
  <2>. QED  BY <1>1, <1>2, <1>3, <1>5, <1>9, <2>1, <2>2 DEF Fresh, TypeOK
<1>12. Owned' /\ Asked'
  BY <1>2, <1>8 DEF Owned, Asked
<1>13. Quiet' /\ Greeting' /\ Answering'
  BY <1>1, <1>2, <1>3 DEF Quiet, Greeting, Answering, TypeOK
<1>14. Settled'
  BY <1>1, <1>2, <1>3 DEF Inv, Settled, TypeOK, Resident
<1>. QED  BY <1>7, <1>10, <1>11, <1>12, <1>13, <1>14 DEF Inv

\* stopResident: the process is told to leave, killed, drained and forgotten.
LEMMA StopKeepsInv == Inv /\ (StopResident \/ Kill \/ DrainEvent \/ Drained) => Inv'
<1>. SUFFICES ASSUME Inv PROVE StopResident \/ Kill \/ DrainEvent \/ Drained => Inv'
  OBVIOUS
<1>. USE DEF request, native_
<1>0. TypeOK /\ (native # 0 => native \in Reqs)
  BY DEF Inv, TypeOK, Reqs
<1>1. CASE StopResident
  <2>1. native \in Reqs /\ gpc = "stop" /\ open' = [open EXCEPT ![native] = FALSE]
        /\ UNCHANGED <<persistent, after, request, ctx, stopping, proc, result, stdout, stderr>>
    BY <1>0, <1>1 DEF StopResident
  <2>2. open' \in [Reqs -> BOOLEAN]
    BY <1>0, <2>1 DEF TypeOK
  <2>3. CASE proc[native] = "reaped"
    BY <1>1, <2>1, <2>2, <2>3, ForgetKeepsInv DEF StopResident
  <2>4. CASE proc[native] # "reaped"
    <3>1. gpc' = "kill" /\ UNCHANGED <<native, work, stdin, events>>
      BY <1>1, <2>4 DEF StopResident
    <3>2. TypeOK'
      BY <1>0, <2>1, <2>2, <3>1 DEF TypeOK
    <3>3. Places' /\ Fresh'
      BY <1>0, <2>1, <3>1 DEF Inv, TypeOK, Reqs, Places, Fresh, Resident
    <3>4. Owned' /\ Asked' /\ Quiet' /\ Greeting' /\ Answering' /\ Settled'
      BY <2>1, <3>1 DEF Inv, Owned, Asked, Quiet, Greeting, Answering, Settled, Resident
    <3>. QED  BY <3>2, <3>3, <3>4 DEF Inv
  <2>. QED  BY <2>3, <2>4
<1>2. CASE Kill
  <2>1. /\ gpc = "kill" /\ gpc' = "drain"
        /\ proc' = [proc EXCEPT ![native] = IF Running(native) THEN "dead" ELSE @]
        /\ UNCHANGED <<persistent, after, request, ctx, stopping, native, work, result, stdin,
                       open, stdout, stderr, events>>
    BY <1>2 DEF Kill
  <2>2. native \in Reqs /\ proc[native] \notin {"none", "solo"}
    BY <1>0, <2>1 DEF Inv, Places, Fresh
  <2>3. /\ proc' \in [Reqs -> {"none", "loading", "await", "infer", "write", "reply",
                               "solo", "dead", "reaped"}]
        /\ proc'[native] \in {"dead", "reaped"}
        /\ \A p \in Reqs : p # native => proc'[p] = proc[p]
    BY <1>0, <2>1, <2>2 DEF Running, TypeOK
  <2>4. TypeOK'
    BY <1>0, <2>1, <2>3 DEF TypeOK
  <2>5. Places'
    BY <2>1, <2>3 DEF Inv, Places, Resident
  <2>6. Fresh'
    BY <2>1, <2>2, <2>3 DEF Inv, Fresh
  <2>7. Owned' /\ Asked'
    BY <2>1, <2>2, <2>3 DEF Inv, Owned, Asked
  <2>8. Quiet' /\ Greeting' /\ Answering' /\ Settled'
    BY <2>1, <2>2, <2>3 DEF Inv, Quiet, Greeting, Answering, Settled, Resident, Resting
  <2>. QED  BY <2>4, <2>5, <2>6, <2>7, <2>8 DEF Inv
<1>3. CASE DrainEvent
  <2>1. /\ gpc = "drain" /\ events[native] # <<>>
        /\ events' = [events EXCEPT ![native] = Tail(@)]
        /\ UNCHANGED <<persistent, gpc, after, request, ctx, stopping, native, native_>>
    BY <1>3 DEF DrainEvent
  <2>2. native \in Reqs /\ events[native] \in Seq(Lines) /\ Len(events[native]) <= Cap
    BY <1>0, <2>1 DEF Inv, Places, TypeOK
  <2>3. /\ Tail(events[native]) \in Seq(Lines)
        /\ Len(Tail(events[native])) = Len(events[native]) - 1
    BY <2>1, <2>2, TakeLine
  <2>4. Len(Tail(events[native])) <= Cap
    BY <2>2, <2>3, LenProperties, WorkerAssumption
  <2>5. /\ events' \in [Reqs -> Seq(Lines)]
        /\ \A p \in Reqs : p # native => events'[p] = events[p]
        /\ events'[native] = Tail(events[native])
    BY <1>0, <2>1, <2>2, <2>3 DEF TypeOK
  <2>6. ASSUME NEW p \in Reqs PROVE Len(events'[p]) <= Cap
    BY <1>0, <2>4, <2>5 DEF TypeOK
  <2>7. TypeOK' /\ Places'
    BY <1>0, <2>1, <2>5, <2>6 DEF Inv, TypeOK, Places, Resident
  <2>8. Fresh' /\ Owned' /\ Asked'
    BY <2>1, <2>2, <2>5 DEF Inv, Fresh, Owned, Asked
  <2>9. Quiet' /\ Greeting' /\ Answering' /\ Settled'
    BY <2>1 DEF Inv, Quiet, Greeting, Answering, Settled, Resident
  <2>. QED  BY <2>7, <2>8, <2>9 DEF Inv
<1>4. CASE Drained
  <2>1. gpc = "drain" /\ proc[native] = "reaped" /\ gpc' = after /\ Forget
        /\ UNCHANGED <<persistent, after, request, ctx, stopping, proc, result, open,
                       stdout, stderr>>
    BY <1>4 DEF Drained
  <2>2. native \in Reqs /\ open' \in [Reqs -> BOOLEAN]
    BY <1>0, <2>1 DEF Inv, Places, TypeOK
  <2>. QED  BY <2>1, <2>2, ForgetKeepsInv
<1>. QED  BY <1>1, <1>2, <1>3, <1>4

\* A process that speaks the protocol is the resident one, and it computes
\* only while the consumer waits for it or is about to stop it.
LEMMA ResidentIsNative ==
    ASSUME Inv, NEW p \in Reqs, proc[p] \in {"loading", "await", "infer", "write", "reply"}
    PROVE  /\ p = native /\ native # 0 /\ gpc \notin {"start", "solo", "reap", "off"}
           /\ proc[p] \notin Resting => /\ gpc \in {"ready", "wait", "stop", "kill", "drain"}
                                        /\ verdict # "ok"
           /\ proc[p] = "loading" => gpc # "wait"
           /\ proc[p] \in {"infer", "write", "reply"} => gpc # "ready"
<1>1. p = native /\ native # 0
  BY DEF Inv, Owned, Places, Reqs
<1>2. gpc \notin {"start", "solo", "reap", "off"}
  BY <1>1 DEF Inv, Places
<1>3. proc[p] \notin Resting => gpc \in {"ready", "wait", "stop", "kill", "drain"}
  BY <1>1, <1>2 DEF Inv, Quiet, TypeOK
<1>4. proc[p] \notin Resting => verdict # "ok"
  BY <1>1 DEF Inv, Settled
<1>5. proc[p] = "loading" => gpc # "wait"
  BY <1>1 DEF Inv, Answering, Resting
<1>6. proc[p] \in {"infer", "write", "reply"} => gpc # "ready"
  BY <1>1 DEF Inv, Greeting, Resting
<1>. QED  BY <1>1, <1>2, <1>3, <1>4, <1>5, <1>6

\* What every step of a process that was started leaves alone.
LEMMA ProcessStep ==
    ASSUME Inv, NEW p \in Reqs, proc[p] \notin {"none", "reaped"},
           UNCHANGED <<Go, open, events>>,
           NEW s \in {"await", "infer", "write", "reply", "dead"},
           proc' = [proc EXCEPT ![p] = s],
           p = native \/ s = "dead",
           \A q \in Reqs : q # p => /\ stdin'[q] = stdin[q] /\ stdout'[q] = stdout[q]
                                    /\ work'[q] = work[q] /\ stderr'[q] = stderr[q],
           s \in {"infer", "write", "reply"} => work'[p] \in Reqs,
           stdin' \in [Reqs -> Seq(Reqs)], stdout' \in [Reqs -> Seq(Lines)],
           work' \in [Reqs -> 0..MaxReq], stderr' \in [Reqs -> 0..MaxLines],
           result' \in [Reqs -> {"none", "partial", "whole"}]
    PROVE  TypeOK' /\ Places' /\ Fresh' /\ Owned' /\ Asked'
<1>. USE DEF Go, request
<1>1. /\ proc' \in [Reqs -> {"none", "loading", "await", "infer", "write", "reply",
                             "solo", "dead", "reaped"}]
      /\ proc'[p] = s
      /\ \A q \in Reqs : q # p => proc'[q] = proc[q]
  BY DEF Inv, TypeOK
<1>2. UNCHANGED <<persistent, gpc, after, req, kind, verdict, timing, ctx, stopping,
                  native, open, events>>
  OBVIOUS
<1>3. TypeOK'
  BY <1>1, <1>2 DEF Inv, TypeOK
<1>4. p = native \/ (p = req /\ gpc \in {"solo", "reap"})
  BY DEF Inv, Owned
<1>5. Places'
  BY <1>1, <1>2, <1>4 DEF Inv, Places, Resident, Reqs
<1>6. Fresh'
  <2>1. p <= req /\ (p = req => gpc \notin {"enter", "start"}
                            /\ ~(gpc \in {"stop", "kill", "drain"} /\ after = "start"))
    BY DEF Inv, Fresh, TypeOK, Reqs
  <2>2. \A q \in Reqs : proc'[q] = "none" => q # p /\ proc[q] = "none"
    BY <1>1
  <2>3. \A q \in Reqs : q > req' => proc'[q] = "none"
    BY <1>1, <1>2, <2>1 DEF Inv, Fresh, TypeOK, Reqs
  <2>4. native' # 0 => proc'[native'] \notin {"none", "solo"}
    BY <1>1, <1>2 DEF Inv, Fresh, TypeOK, Reqs
  <2>5. (gpc' \in {"enter", "start"} \/ (gpc' \in {"stop", "kill", "drain"} /\ after' = "start"))
           => proc'[req'] = "none"
    BY <1>1, <1>2, <2>1 DEF Inv, Fresh, Places, TypeOK, Reqs
  <2>6. \A q \in Reqs : proc'[q] = "none" => /\ stdin'[q] = <<>> /\ stdout'[q] = <<>>
                                             /\ stderr'[q] = 0 /\ events'[q] = <<>>
    <3>1. \A q \in Reqs : proc[q] = "none" => /\ stdin[q] = <<>> /\ stdout[q] = <<>>
                                              /\ stderr[q] = 0 /\ events[q] = <<>>
      BY DEF Inv, Fresh
    <3>. QED  BY <1>2, <2>2, <3>1
  <2>. QED  BY <2>3, <2>4, <2>5, <2>6 DEF Fresh
<1>7. Owned'
  BY <1>1, <1>2, <1>4 DEF Inv, Owned
<1>8. Asked'
  <2>. SUFFICES ASSUME NEW q \in Reqs
                PROVE  /\ proc'[q] \in {"infer", "write", "reply"} => work'[q] \in Reqs
                       /\ proc'[q] = "solo" => work'[q] = q
    BY DEF Asked, Reqs
  <2>1. CASE q = p
    BY <1>1, <2>1
  <2>2. CASE q # p
    <3>1. proc'[q] = proc[q] /\ work'[q] = work[q]
      BY <1>1, <2>2
    <3>2. /\ proc[q] \in {"infer", "write", "reply"} => work[q] \in Reqs
          /\ proc[q] = "solo" => work[q] = q
      BY DEF Inv, Asked
    <3>. QED  BY <3>1, <3>2
  <2>. QED  BY <2>1, <2>2
<1>. QED  BY <1>3, <1>5, <1>6, <1>7, <1>8

\* Diagnostics stay within their bound.
LEMMA DiagnoseType ==
    ASSUME TypeOK, NEW p \in Reqs, Diagnose(p)
    PROVE  /\ stderr' \in [Reqs -> 0..MaxLines]
           /\ \A q \in Reqs : q # p => stderr'[q] = stderr[q]
<1>1. CASE UNCHANGED stderr
  BY <1>1 DEF TypeOK
<1>2. CASE stderr[p] < MaxLines /\ stderr' = [stderr EXCEPT ![p] = @ + 1]
  <2>1. stderr[p] + 1 \in 0..MaxLines
    BY <1>2, WorkerAssumption DEF TypeOK
  <2>. QED  BY <1>2, <2>1 DEF TypeOK
<1>. QED  BY <1>1, <1>2 DEF Diagnose

\* A failed request, an abort or a kill from outside ends the process.
LEMMA DiesKeepsInv == ASSUME Inv, NEW p \in Reqs, Dies(p) PROVE Inv'
<1>1. /\ Running(p) /\ proc' = [proc EXCEPT ![p] = "dead"]
      /\ UNCHANGED <<persistent, gpc, after, req, kind, verdict, timing, ctx, stopping, native,
                     work, result, stdin, open, stdout, stderr, events>>
  BY DEF Dies, Go, request
<1>2. proc[p] \notin {"none", "reaped"}
  BY <1>1 DEF Running
<1>3. TypeOK' /\ Places' /\ Fresh' /\ Owned' /\ Asked'
  BY <1>1, <1>2, ProcessStep DEF Inv, TypeOK, Go, request
<1>4. proc'[native] = proc[native] \/ native = 0 \/ (native = p /\ proc'[native] = "dead")
  BY <1>1 DEF Inv, TypeOK, Reqs
<1>5. proc[native] \in Resting => (proc'[native] \in Resting \/ native = 0)
  BY <1>4 DEF Resting
<1>6. Quiet' /\ Settled'
  BY <1>1, <1>5 DEF Inv, Quiet, Settled, Resident
<1>7. Greeting'
  BY <1>1, <1>4 DEF Inv, Greeting, Places, Resting
<1>8. Answering'
  BY <1>1, <1>4 DEF Inv, Answering, Places, Resting
<1>. QED  BY <1>3, <1>6, <1>7, <1>8 DEF Inv

\* The resident process: READY, taking a frame, end of input.
LEMMA UpKeepsInv ==
    ASSUME Inv, NEW p \in Reqs, Announce(p) \/ TakeFrame(p) \/ LeaveAtEof(p)
    PROVE  Inv'
<1>. USE DEF Go, request
<1>0. TypeOK
  BY DEF Inv
<1>1. CASE Announce(p)
  <2>1. /\ proc[p] = "loading" /\ proc' = [proc EXCEPT ![p] = "await"]
        /\ stdout' = [stdout EXCEPT ![p] = Append(@, Line("READY", 0))]
        /\ Diagnose(p)
        /\ UNCHANGED <<Go, work, result, stdin, open, events>>
    BY <1>1 DEF Announce
  <2>2. p = native /\ gpc \in {"ready", "stop", "kill", "drain"} /\ verdict # "ok"
    BY <2>1, ResidentIsNative DEF Resting
  <2>3. Line("READY", 0) \in Lines /\ Line("READY", 0).word = "READY"
    BY WorkerAssumption DEF Line, Lines, Words
  <2>. DEFINE r == Line("READY", 0)
  <2>. HIDE DEF r
  <2>4. /\ stdout' \in [Reqs -> Seq(Lines)]
        /\ stdout'[p] = Append(stdout[p], r)
        /\ \A q \in Reqs : q # p => stdout'[q] = stdout[q]
    BY <1>0, <2>1, <2>3, AppendLine DEF TypeOK, r
  <2>5. TypeOK' /\ Places' /\ Fresh' /\ Owned' /\ Asked'
    <3>1. stderr' \in [Reqs -> 0..MaxLines] /\ \A q \in Reqs : q # p => stderr'[q] = stderr[q]
      BY <1>0, <2>1, DiagnoseType
    <3>. QED  BY <1>0, <2>1, <2>2, <2>4, <3>1, ProcessStep DEF TypeOK
  <2>6. Greeting'
    <3>. SUFFICES ASSUME gpc = "ready" PROVE Greeting'
      BY <2>1 DEF Greeting
    <3>1. /\ native = req /\ stdin[p] = <<>> /\ stdout[p] = <<>> /\ Silent(events[p])
          /\ Len(stdout[p]) = 0 /\ stdout[p] \in Seq(Lines) /\ events[p] \in Seq(Lines)
      BY <1>0, <2>1, <2>2, NoLines DEF Inv, Greeting, TypeOK
    <3>2. /\ Only(stdout[p], Greetings) /\ Only(events[p], Greetings)
          /\ Last(events[p], "READY")
      BY <3>1, NoLines
    <3>3. Only(stdout'[p], Greetings) /\ Len(stdout'[p]) <= 1
      <4>1. r \in Lines /\ r.word \in Greetings \cup {"log"}
        BY <2>3 DEF Greetings, r
      <4>2. stdout[p] \in Seq(Lines) /\ stdout'[p] = Append(stdout[p], r)
        BY <2>4, <3>1
      <4>3. Only(stdout'[p], Greetings)
        BY <3>2, <4>1, <4>2, AppendLine
      <4>4. Len(stdout'[p]) = Len(stdout[p]) + 1
        BY <4>1, <4>2, AppendLine
      <4>. QED  BY <3>1, <4>3, <4>4
    <3>4. proc'[p] = "await" /\ native' = native /\ req' = req /\ events' = events /\ stdin' = stdin
      BY <1>0, <2>1 DEF TypeOK
    <3>. QED  BY <2>2, <3>1, <3>2, <3>3, <3>4 DEF Greeting, Resting
  <2>7. Quiet' /\ Answering'
    BY <2>1, <2>2 DEF Quiet, Answering
  <2>8. Settled'
    BY <2>1, <2>2 DEF Inv, Settled, Resident
  <2>. QED  BY <2>5, <2>6, <2>7, <2>8 DEF Inv
<1>2. CASE TakeFrame(p)
  <2>1. /\ proc[p] = "await" /\ stdin[p] # <<>> /\ proc' = [proc EXCEPT ![p] = "infer"]
        /\ work' = [work EXCEPT ![p] = Head(stdin[p])]
        /\ stdin' = [stdin EXCEPT ![p] = Tail(@)]
        /\ Diagnose(p)
        /\ UNCHANGED <<Go, result, open, stdout, events>>
    BY <1>2 DEF TakeFrame
  <2>2. p = native /\ gpc \in {"wait", "stop", "kill", "drain"} /\ verdict # "ok"
    BY <1>0, <2>1, ResidentIsNative DEF Inv, Quiet, Greeting, Settled, TypeOK
  <2>3. Head(stdin[p]) \in Reqs /\ Tail(stdin[p]) \in Seq(Reqs)
    BY <1>0, <2>1, HeadTailProperties DEF TypeOK
  <2>4. /\ stdin' \in [Reqs -> Seq(Reqs)] /\ work' \in [Reqs -> 0..MaxReq]
        /\ stdin'[p] = Tail(stdin[p]) /\ work'[p] = Head(stdin[p])
        /\ \A q \in Reqs : q # p => stdin'[q] = stdin[q] /\ work'[q] = work[q]
    BY <1>0, <2>1, <2>3 DEF TypeOK, Reqs
  <2>5. TypeOK' /\ Places' /\ Fresh' /\ Owned' /\ Asked'
    <3>1. stderr' \in [Reqs -> 0..MaxLines] /\ \A q \in Reqs : q # p => stderr'[q] = stderr[q]
      BY <1>0, <2>1, DiagnoseType
    <3>2. /\ proc[p] \notin {"none", "reaped"}
          /\ UNCHANGED <<Go, open, events>>
          /\ proc' = [proc EXCEPT ![p] = "infer"]
          /\ \A q \in Reqs : q # p => /\ stdin'[q] = stdin[q] /\ stdout'[q] = stdout[q]
                                      /\ work'[q] = work[q] /\ stderr'[q] = stderr[q]
          /\ work'[p] \in Reqs
      BY <2>1, <2>3, <2>4, <3>1
    <3>3. stdout' \in [Reqs -> Seq(Lines)] /\ result' \in [Reqs -> {"none", "partial", "whole"}]
      BY <1>0, <2>1 DEF TypeOK
    <3>. QED  BY <2>2, <2>4, <3>1, <3>2, <3>3, ProcessStep
  <2>6. Answering'
    <3>. SUFFICES ASSUME gpc = "wait" PROVE Answering'
      BY <2>1 DEF Answering
    <3>1. stdin[p] = <<req>>
      BY <2>1, <2>2 DEF Inv, Answering
    <3>2. stdin'[p] = <<>> /\ work'[p] = req
      BY <2>4, <3>1
    <3>3. proc'[p] = "infer"
      BY <1>0, <2>1 DEF TypeOK
    <3>. QED  BY <2>1, <2>2, <3>1, <3>2, <3>3 DEF Inv, Answering
  <2>7. Quiet' /\ Greeting'
    BY <2>1, <2>2 DEF Quiet, Greeting
  <2>8. Settled'
    BY <2>1, <2>2 DEF Inv, Settled, Resident
  <2>. QED  BY <2>5, <2>6, <2>7, <2>8 DEF Inv
<1>3. CASE LeaveAtEof(p)
  <2>1. /\ proc[p] = "await" /\ proc' = [proc EXCEPT ![p] = "dead"] /\ Running(p)
        /\ UNCHANGED <<Go, work, result, stdin, open, stdout, stderr, events>>
    BY <1>3 DEF LeaveAtEof, Running
  <2>2. Dies(p)
    BY <2>1 DEF Dies
  <2>. QED  BY <2>2, DiesKeepsInv
<1>. QED  BY <1>1, <1>2, <1>3

\* The request itself: inference and its timing line, the result, DONE.
LEMMA InferKeepsInv ==
    ASSUME Inv, NEW p \in Reqs, Infer(p) \/ WriteResult(p) \/ Reply(p)
    PROVE  Inv'
<1>. USE DEF Go, request
<1>0. TypeOK
  BY DEF Inv
<1>1. /\ p = native /\ gpc \in {"wait", "stop", "kill", "drain"} /\ verdict # "ok"
      /\ work[p] \in Reqs /\ proc[p] \in {"infer", "write", "reply"}
  <2>1. proc[p] \in {"infer", "write", "reply"}
    BY DEF Infer, WriteResult, Reply
  <2>2. p = native /\ gpc \in {"wait", "stop", "kill", "drain"} /\ verdict # "ok"
    BY <2>1, ResidentIsNative DEF Resting
  <2>. QED  BY <2>1, <2>2 DEF Inv, Asked
<1>2. UNCHANGED <<persistent, gpc, after, req, kind, verdict, timing, ctx, stopping, native,
                  work, stdin, open, events>>
  BY DEF Infer, WriteResult, Reply
<1>3. Quiet' /\ Greeting'
  BY <1>1, <1>2 DEF Quiet, Greeting
<1>4. Settled'
  BY <1>1, <1>2 DEF Inv, Settled, Resident
<1>5. gpc = "wait" =>
        /\ work[p] = req /\ stdin[p] = <<>>
        /\ ~Has(events[p], "DONE") /\ ~Has(stdout[p], "DONE")
        /\ Only(stdout[p], Replies) /\ Only(events[p], Replies)
        /\ ~Has(stdout[p], "log")
        /\ Last(events[p], "DONE")
        /\ events[p] \in Seq(Lines) /\ stdout[p] \in Seq(Lines)
        /\ proc[p] \in {"write", "reply"} =>
             timing \/ Has(events[p], "TIMING") \/ Has(stdout[p], "TIMING")
        /\ proc[p] = "reply" => result[req] = "whole"
  <2>. SUFFICES ASSUME gpc = "wait"
                PROVE  /\ work[p] = req /\ stdin[p] = <<>>
                       /\ ~Has(events[p], "DONE") /\ ~Has(stdout[p], "DONE")
                       /\ Only(stdout[p], Replies) /\ Only(events[p], Replies)
                       /\ ~Has(stdout[p], "log")
                       /\ Last(events[p], "DONE")
                       /\ events[p] \in Seq(Lines) /\ stdout[p] \in Seq(Lines)
                       /\ proc[p] \in {"write", "reply"} =>
                            timing \/ Has(events[p], "TIMING") \/ Has(stdout[p], "TIMING")
                       /\ proc[p] = "reply" => result[req] = "whole"
    OBVIOUS
  <2>. QED  BY <1>0, <1>1 DEF Inv, Answering, Resting, TypeOK
<1>6. CASE Infer(p)
  <2>1. /\ proc[p] = "infer" /\ proc' = [proc EXCEPT ![p] = "write"]
        /\ stdout' = [stdout EXCEPT ![p] = Append(@, Line("TIMING", work[p]))]
        /\ result' = [result EXCEPT ![work[p]] = "partial"]
        /\ Diagnose(p)
    BY <1>6 DEF Infer
  <2>. DEFINE r == Line("TIMING", work[p])
  <2>2. r \in Lines /\ r.word = "TIMING" /\ r.word \in Replies \cup {"log"}
    BY <1>1 DEF Line, Lines, Words, Replies, Reqs
  <2>. HIDE DEF r
  <2>3. /\ stdout' \in [Reqs -> Seq(Lines)]
        /\ stdout'[p] = Append(stdout[p], r)
        /\ \A q \in Reqs : q # p => stdout'[q] = stdout[q]
    BY <1>0, <2>1, <2>2, AppendLine DEF TypeOK, r
  <2>4. TypeOK' /\ Places' /\ Fresh' /\ Owned' /\ Asked'
    <3>1. stderr' \in [Reqs -> 0..MaxLines] /\ \A q \in Reqs : q # p => stderr'[q] = stderr[q]
      BY <1>0, <2>1, DiagnoseType
    <3>2. result' \in [Reqs -> {"none", "partial", "whole"}]
      BY <1>0, <1>1, <2>1 DEF TypeOK
    <3>. QED  BY <1>0, <1>1, <1>2, <2>1, <2>3, <3>1, <3>2, ProcessStep DEF TypeOK
  <2>5. Answering'
    <3>. SUFFICES ASSUME gpc = "wait" PROVE Answering'
      BY <1>2 DEF Answering
    <3>1. /\ Only(stdout'[p], Replies) /\ Has(stdout'[p], "TIMING")
          /\ ~Has(stdout'[p], "DONE") /\ Last(stdout'[p], "DONE")
          /\ ~Has(stdout'[p], "log")
      BY <1>5, <2>2, <2>3, AppendLine
    <3>2. proc'[p] = "write"
      BY <1>0, <2>1 DEF TypeOK
    <3>. QED  BY <1>1, <1>2, <1>5, <3>1, <3>2 DEF Answering, Resting
  <2>. QED  BY <1>3, <1>4, <2>4, <2>5 DEF Inv
<1>7. CASE WriteResult(p)
  <2>1. /\ proc[p] = "write" /\ proc' = [proc EXCEPT ![p] = "reply"]
        /\ result' = [result EXCEPT ![work[p]] = "whole"]
        /\ UNCHANGED <<stdout, stderr>>
    BY <1>7 DEF WriteResult
  <2>2. /\ result' \in [Reqs -> {"none", "partial", "whole"}]
        /\ result'[work[p]] = "whole" /\ proc'[p] = "reply"
    BY <1>0, <1>1, <2>1 DEF TypeOK
  <2>3. TypeOK' /\ Places' /\ Fresh' /\ Owned' /\ Asked'
    BY <1>0, <1>1, <1>2, <2>1, <2>2, ProcessStep DEF TypeOK
  <2>4. Answering'
    <3>. SUFFICES ASSUME gpc = "wait" PROVE Answering'
      BY <1>2 DEF Answering
    <3>1. Last(stdout[p], "DONE")
      BY <1>1 DEF Inv, Answering
    <3>. QED  BY <1>1, <1>2, <1>5, <2>1, <2>2, <3>1 DEF Answering, Resting
  <2>. QED  BY <1>3, <1>4, <2>3, <2>4 DEF Inv
<1>8. CASE Reply(p)
  <2>1. /\ proc[p] = "reply" /\ proc' = [proc EXCEPT ![p] = "await"]
        /\ stdout' = [stdout EXCEPT ![p] = Append(@, Line("DONE", work[p]))]
        /\ UNCHANGED <<result, stderr>>
    BY <1>8 DEF Reply
  <2>. DEFINE r == Line("DONE", work[p])
  <2>2. r \in Lines /\ r.word = "DONE" /\ r.word \in Replies \cup {"log"}
    BY <1>1 DEF Line, Lines, Words, Replies, Reqs
  <2>. HIDE DEF r
  <2>3. /\ stdout' \in [Reqs -> Seq(Lines)]
        /\ stdout'[p] = Append(stdout[p], r)
        /\ \A q \in Reqs : q # p => stdout'[q] = stdout[q]
    BY <1>0, <2>1, <2>2, AppendLine DEF TypeOK, r
  <2>4. TypeOK' /\ Places' /\ Fresh' /\ Owned' /\ Asked'
    BY <1>0, <1>1, <1>2, <2>1, <2>3, ProcessStep DEF TypeOK
  <2>5. Answering'
    <3>. SUFFICES ASSUME gpc = "wait" PROVE Answering'
      BY <1>2 DEF Answering
    <3>1. /\ Only(stdout'[p], Replies) /\ Last(stdout'[p], "DONE")
          /\ Has(stdout'[p], "TIMING") <=> Has(stdout[p], "TIMING")
          /\ ~Has(stdout'[p], "log")
      BY <1>5, <2>2, <2>3, AppendLine
    <3>2. proc'[p] = "await" /\ result'[req] = "whole"
      BY <1>0, <1>5, <2>1 DEF TypeOK
    <3>. QED  BY <1>1, <1>2, <1>5, <2>1, <3>1, <3>2 DEF Answering, Resting
  <2>. QED  BY <1>3, <1>4, <2>4, <2>5 DEF Inv
<1>. QED  BY <1>6, <1>7, <1>8

\* The own process of a job writes its result and exits.
LEMMA SoloKeepsInv == ASSUME Inv, NEW p \in Reqs, SoloFinishes(p) PROVE Inv'
<1>1. /\ proc[p] = "solo" /\ proc' = [proc EXCEPT ![p] = "dead"]
      /\ result' = [result EXCEPT ![work[p]] = "whole"]
      /\ UNCHANGED <<persistent, gpc, after, req, kind, verdict, timing, ctx, stopping, native,
                     work, stdin, open, stdout, stderr, events>>
  BY DEF SoloFinishes, Go, request
<1>2. p = req /\ gpc \in {"solo", "reap"}
  BY <1>1 DEF Inv, Owned, Fresh, Reqs
<1>3. result' \in [Reqs -> {"none", "partial", "whole"}]
  BY <1>1 DEF Inv, TypeOK, Asked
<1>4. TypeOK' /\ Places' /\ Fresh' /\ Owned' /\ Asked'
  BY <1>1, <1>3, ProcessStep DEF Inv, TypeOK, Go, request
<1>5. Quiet' /\ Greeting' /\ Answering'
  BY <1>1, <1>2 DEF Quiet, Greeting, Answering
<1>6. Settled'
  BY <1>1, <1>2 DEF Inv, Settled, Resident
<1>. QED  BY <1>4, <1>5, <1>6 DEF Inv

\* The reader goroutines move the first line of stdout to the end of the
\* channel, add or drop a diagnostic, and reap the process.
LEMMA ReadersKeepInv == ASSUME Inv, NEW p \in Reqs, Readers(p) PROVE Inv'
<1>. USE DEF Go, request
<1>0. TypeOK
  BY DEF Inv
<1>1. CASE ReadStdout(p)
  <2>. DEFINE e == events[p]
              o == stdout[p]
              h == Head(stdout[p])
  <2>1. /\ o # <<>> /\ Len(e) < Cap
        /\ events' = [events EXCEPT ![p] = Append(e, h)]
        /\ stdout' = [stdout EXCEPT ![p] = Tail(o)]
        /\ UNCHANGED <<persistent, gpc, after, req, kind, verdict, timing, ctx, stopping, native,
                       proc, work, result, stdin, open, stderr>>
    BY <1>1 DEF ReadStdout
  <2>2. e \in Seq(Lines) /\ o \in Seq(Lines)
    BY <1>0 DEF TypeOK
  <2>. HIDE DEF e, o, h
  <2>3. /\ h \in Lines /\ Tail(o) \in Seq(Lines)
        /\ \A W : Only(o, W) => Only(Tail(o), W) /\ h.word \in W \cup {"log"}
        /\ \A w : Has(o, w) <=> h.word = w \/ Has(Tail(o), w)
        /\ \A w : Last(o, w) => Last(Tail(o), w)
        /\ \A w : Last(o, w) /\ h.word = w => Silent(Tail(o))
        /\ Silent(o) => Silent(Tail(o)) /\ h.word = "log"
        /\ Len(Tail(o)) = Len(o) - 1
    BY <2>1, <2>2, TakeLine DEF o, h
  <2>4. /\ Append(e, h) \in Seq(Lines) /\ Len(Append(e, h)) = Len(e) + 1
        /\ \A W : Only(e, W) /\ h.word \in W \cup {"log"} => Only(Append(e, h), W)
        /\ \A w : Has(Append(e, h), w) <=> Has(e, w) \/ h.word = w
        /\ \A w : ~Has(e, w) => Last(Append(e, h), w)
        /\ \A w : Last(e, w) /\ h.word = "log" => Last(Append(e, h), w)
    BY <2>2, <2>3, AppendLine
  <2>5. /\ events' \in [Reqs -> Seq(Lines)] /\ stdout' \in [Reqs -> Seq(Lines)]
        /\ events'[p] = Append(e, h) /\ stdout'[p] = Tail(o)
        /\ \A q \in Reqs : q # p => events'[q] = events[q] /\ stdout'[q] = stdout[q]
    BY <1>0, <2>1, <2>3, <2>4 DEF TypeOK
  <2>6. Len(events'[p]) <= Cap
    BY <2>1, <2>2, <2>4, <2>5, LenProperties, WorkerAssumption
  <2>7. TypeOK'
    <3>1. ASSUME NEW q \in Reqs PROVE Len(events'[q]) <= Cap
      BY <1>0, <2>5, <2>6 DEF TypeOK
    <3>. QED  BY <1>0, <2>1, <2>5, <3>1 DEF TypeOK
  <2>8. Places' /\ Owned' /\ Asked'
    BY <2>1 DEF Inv, Places, Owned, Asked, Resident
  <2>9. proc[p] # "none"
    BY <2>1 DEF Inv, Fresh, o
  <2>10. Fresh'
    BY <2>1, <2>5, <2>9 DEF Inv, Fresh
  <2>11. Settled'
    BY <2>1 DEF Inv, Settled, Resident
  <2>12. CASE p # native
    <3>1. native # 0 => native \in Reqs
      BY <1>0 DEF TypeOK, Reqs
    <3>2. native # 0 => events'[native] = events[native] /\ stdout'[native] = stdout[native]
      BY <2>5, <2>12, <3>1
    <3>3. Quiet' /\ Greeting'
      BY <2>1, <3>2 DEF Inv, Quiet, Greeting, Places
    <3>4. Answering'
      BY <2>1, <3>2 DEF Inv, Answering, Places
    <3>. QED  BY <2>7, <2>8, <2>10, <2>11, <3>3, <3>4 DEF Inv
  <2>13. CASE p = native
    <3>1. Quiet'
      BY <2>1, <2>13 DEF Inv, Quiet, o
    <3>2. Greeting'
      <4>. SUFFICES ASSUME gpc = "ready" PROVE Greeting'
        BY <2>1 DEF Greeting
      <4>1. /\ native = req /\ (proc[p] = "loading" \/ proc[p] \in Resting) /\ stdin[p] = <<>>
            /\ Only(o, Greetings) /\ Len(o) <= 1 /\ Only(e, Greetings) /\ Silent(e)
            /\ proc[p] # "loading"
        BY <2>1, <2>13 DEF Inv, Greeting, e, o
      <4>2. Tail(o) = <<>>
        BY <2>1, <2>2, <2>3, <4>1, LenProperties, EmptySeq
      <4>3. Only(stdout'[p], Greetings) /\ Len(stdout'[p]) = 0
        BY <2>3, <2>5, <4>1, <4>2, NoLines
      <4>4. Only(events'[p], Greetings) /\ Last(events'[p], "READY")
        BY <2>2, <2>3, <2>4, <2>5, <4>1, NoLines
      <4>. QED  BY <2>1, <2>5, <2>13, <4>1, <4>2, <4>3, <4>4 DEF Greeting
    <3>3. Answering'
      <4>. SUFFICES ASSUME gpc = "wait" PROVE Answering'
        BY <2>1 DEF Answering
      <4>1. /\ Only(o, Replies) /\ Only(e, Replies) /\ Last(o, "DONE") /\ Last(e, "DONE")
            /\ ~Has(e, "DONE") /\ ~Has(o, "log")
        BY <2>1, <2>13 DEF Inv, Answering, e, o
      <4>2. /\ Only(stdout'[p], Replies) /\ Only(events'[p], Replies)
            /\ Last(stdout'[p], "DONE") /\ Last(events'[p], "DONE")
            /\ ~Has(stdout'[p], "log")
        BY <2>3, <2>4, <2>5, <4>1
      <4>3. \A w : Has(events'[p], w) \/ Has(stdout'[p], w) <=> Has(e, w) \/ Has(o, w)
        BY <2>3, <2>4, <2>5
      <4>4. Has(events'[p], "DONE") => stdout'[p] = <<>>
        <5>. SUFFICES ASSUME Has(events'[p], "DONE") PROVE Tail(o) = <<>>
          BY <2>5
        <5>1. h.word = "DONE"
          BY <2>4, <2>5, <4>1
        <5>2. Silent(Tail(o)) /\ ~Has(Tail(o), "log")
          BY <2>3, <4>1, <5>1
        <5>. QED  BY <2>3, <5>2, NoLines
      <4>. QED  BY <2>1, <2>13, <4>2, <4>3, <4>4 DEF Inv, Answering, e, o
    <3>. QED  BY <2>7, <2>8, <2>10, <2>11, <3>1, <3>2, <3>3 DEF Inv
  <2>. QED  BY <2>12, <2>13
<1>2. CASE ReadStderr(p)
  <2>. DEFINE e == events[p]
              r == Line("log", 0)
  <2>1. /\ stderr[p] > 0 /\ stderr' = [stderr EXCEPT ![p] = @ - 1]
        /\ events' = [events EXCEPT ![p] = IF Len(e) < Cap THEN Append(e, r) ELSE e]
        /\ UNCHANGED <<persistent, gpc, after, req, kind, verdict, timing, ctx, stopping, native,
                       proc, work, result, stdin, open, stdout>>
    BY <1>2 DEF ReadStderr
  <2>2. /\ e \in Seq(Lines) /\ r \in Lines /\ r.word = "log"
        /\ Len(e) <= Cap /\ Len(e) \in Nat
    <3>1. e \in Seq(Lines) /\ Len(e) <= Cap
      BY <1>0 DEF TypeOK
    <3>2. r \in Lines /\ r.word = "log"
      BY WorkerAssumption DEF Line, Lines, Words
    <3>. HIDE DEF e, r
    <3>. QED  BY <3>1, <3>2, LenProperties
  <2>. HIDE DEF e, r
  <2>3. /\ Append(e, r) \in Seq(Lines) /\ Len(Append(e, r)) = Len(e) + 1
        /\ Silent(e) => Silent(Append(e, r))
        /\ \A W : Only(e, W) => Only(Append(e, r), W)
        /\ \A w : w # "log" => (Has(Append(e, r), w) <=> Has(e, w))
        /\ \A w : Last(e, w) => Last(Append(e, r), w)
    <3>1. \A W : r.word \in W \cup {"log"}
      BY <2>2
    <3>. QED  BY <2>2, <3>1, AppendLine
  <2>4. /\ events' \in [Reqs -> Seq(Lines)] /\ Len(events'[p]) <= Cap
        /\ events'[p] = e \/ events'[p] = Append(e, r)
        /\ \A q \in Reqs : q # p => events'[q] = events[q]
    <3>1. CASE Len(e) < Cap
      BY <1>0, <2>1, <2>2, <2>3, <3>1, WorkerAssumption DEF TypeOK
    <3>2. CASE ~(Len(e) < Cap)
      BY <1>0, <2>1, <2>2, <3>2, WorkerAssumption DEF TypeOK
    <3>. QED  BY <3>1, <3>2
  <2>5. /\ Silent(e) => Silent(events'[p])
        /\ \A W : Only(e, W) => Only(events'[p], W)
        /\ \A w : w # "log" => (Has(events'[p], w) <=> Has(e, w))
        /\ \A w : Last(e, w) => Last(events'[p], w)
    BY <2>3, <2>4
  <2>6. TypeOK'
    <3>1. ASSUME NEW q \in Reqs PROVE Len(events'[q]) <= Cap
      BY <1>0, <2>4 DEF TypeOK
    <3>2. stderr' \in [Reqs -> 0..MaxLines]
      <4>1. stderr[p] - 1 \in 0..MaxLines
        BY <1>0, <2>1, WorkerAssumption DEF TypeOK
      <4>. QED  BY <1>0, <2>1, <4>1 DEF TypeOK
    <3>. QED  BY <1>0, <2>1, <2>4, <3>1, <3>2, SMTT(20) DEF TypeOK
  <2>7. Places' /\ Owned' /\ Asked'
    BY <2>1 DEF Inv, Places, Owned, Asked, Resident
  <2>8. Fresh'
    <3>1. proc[p] # "none"
      BY <2>1 DEF Inv, Fresh
    <3>2. \A q \in Reqs : q # p => stderr'[q] = stderr[q]
      BY <1>0, <2>1 DEF TypeOK
    <3>. QED  BY <2>1, <2>4, <3>1, <3>2 DEF Inv, Fresh
  <2>9. Settled'
    BY <2>1 DEF Inv, Settled, Resident
  <2>10. /\ native # 0 => native \in Reqs
         /\ native # p => events'[native] = events[native] \/ native = 0
    BY <1>0, <2>4 DEF TypeOK, Reqs
  <2>11. Quiet'
    BY <2>1, <2>5, <2>10 DEF Inv, Quiet, e
  <2>12. Greeting'
    BY <2>1, <2>5, <2>10 DEF Inv, Greeting, Places, e
  <2>13. Answering'
    BY <2>1, <2>5, <2>10 DEF Inv, Answering, Places, e
  <2>. QED  BY <2>6, <2>7, <2>8, <2>9, <2>11, <2>12, <2>13 DEF Inv
<1>3. CASE Reap(p)
  <2>1. /\ proc[p] = "dead" /\ proc' = [proc EXCEPT ![p] = "reaped"]
        /\ UNCHANGED <<persistent, gpc, after, req, kind, verdict, timing, ctx, stopping, native,
                       work, result, stdin, open, stdout, stderr, events>>
    BY <1>3 DEF Reap
  <2>2. /\ proc' \in [Reqs -> {"none", "loading", "await", "infer", "write", "reply",
                               "solo", "dead", "reaped"}]
        /\ proc'[p] = "reaped"
        /\ \A q \in Reqs : q # p => proc'[q] = proc[q]
    BY <1>0, <2>1 DEF TypeOK
  <2>3. TypeOK'
    BY <1>0, <2>1, <2>2 DEF TypeOK
  <2>4. Places'
    BY <1>0, <2>1, <2>2 DEF Inv, Places, Resident, Reqs, TypeOK
  <2>5. Fresh'
    <3>1. \A q \in Reqs : (proc'[q] = "none") <=> (proc[q] = "none")
      BY <2>1, <2>2
    <3>2. native # 0 => native \in Reqs /\ proc'[native] \notin {"none", "solo"}
      BY <1>0, <2>1, <2>2 DEF Inv, Fresh, TypeOK, Reqs
    <3>3. (gpc \in {"enter", "start"} \/ (gpc \in {"stop", "kill", "drain"} /\ after = "start"))
             => req \in Reqs
      BY <1>0 DEF Inv, Places, TypeOK, Reqs
    <3>. QED  BY <2>1, <3>1, <3>2, <3>3 DEF Inv, Fresh
  <2>6. Owned' /\ Asked'
    BY <2>1, <2>2 DEF Inv, Owned, Asked
  <2>7. native = 0 \/ proc'[native] = proc[native]
          \/ (proc[native] = "dead" /\ proc'[native] = "reaped")
    BY <1>0, <2>1, <2>2 DEF TypeOK, Reqs
  <2>8. Quiet' /\ Settled'
    BY <2>1, <2>7 DEF Inv, Quiet, Settled, Resident, Resting
  <2>9. Greeting'
    BY <2>1, <2>7 DEF Inv, Greeting, Places, Resting
  <2>10. Answering'
    BY <2>1, <2>7 DEF Inv, Answering, Places, Resting
  <2>. QED  BY <2>3, <2>4, <2>5, <2>6, <2>8, <2>9, <2>10 DEF Inv
<1>. QED  BY <1>1, <1>2, <1>3 DEF Readers

-----------------------------------------------------------------------------
(* The theorems                                                            *)

\* The invariant holds in every state.
THEOREM Invariant == Spec => []Inv
<1>1. Init => Inv
  <2>. SUFFICES ASSUME Init PROVE Inv
    OBVIOUS
  <2>1. TypeOK
    <3>1. /\ persistent \in BOOLEAN /\ stopping \in BOOLEAN /\ timing \in BOOLEAN
          /\ open \in [Reqs -> BOOLEAN]
      BY DEF Init
    <3>2. /\ stdout \in [Reqs -> Seq(Lines)] /\ events \in [Reqs -> Seq(Lines)]
          /\ stdin \in [Reqs -> Seq(Reqs)]
          /\ \A p \in Reqs : Len(events[p]) <= Cap
      BY WorkerAssumption, NoLines DEF Init
    <3>3. /\ gpc = "idle" /\ after = "idle" /\ req \in 0..MaxReq /\ kind \in Kinds
          /\ ctx = "live" /\ native \in 0..MaxReq /\ verdict = "none"
      BY WorkerAssumption DEF Init, Kinds
    <3>4. /\ proc = [p \in Reqs |-> "none"] /\ work \in [Reqs -> 0..MaxReq]
          /\ result = [r \in Reqs |-> "none"] /\ stderr \in [Reqs -> 0..MaxLines]
      BY WorkerAssumption DEF Init
    <3>. QED  BY <3>1, <3>2, <3>3, <3>4 DEF TypeOK
  <2>2. Places /\ Fresh /\ Owned /\ Asked
    BY DEF Init, Places, Fresh, Owned, Asked
  <2>3. Quiet /\ Greeting /\ Answering /\ Settled
    BY DEF Init, Quiet, Greeting, Answering, Settled
  <2>. QED  BY <2>1, <2>2, <2>3 DEF Inv
<1>2. Inv /\ [Next]_vars => Inv'
  <2>. SUFFICES ASSUME Inv, [Next]_vars PROVE Inv'
    OBVIOUS
  <2>1. CASE Consumer
    BY <2>1, ChoiceKeepsInv, StartKeepsInv, SendKeepsInv, EndedKeepsInv, ReadEventKeepsInv,
       StopKeepsInv DEF Consumer, Await, Solo, Stop
  <2>2. CASE EndContext \/ Signal
    BY <2>2, ChoiceKeepsInv
  <2>3. ASSUME NEW p \in Reqs, Native(p) PROVE Inv'
    BY <2>3, UpKeepsInv, InferKeepsInv, DiesKeepsInv, SoloKeepsInv DEF Native
  <2>4. ASSUME NEW p \in Reqs, Readers(p) PROVE Inv'
    BY <2>4, ReadersKeepInv
  <2>5. CASE UNCHANGED vars
    BY <2>5 DEF vars, Inv, TypeOK, Places, Fresh, Owned, Asked, Quiet, Greeting, Answering,
                Settled, Resident
  <2>. QED  BY <2>1, <2>2, <2>3, <2>4, <2>5 DEF Next
<1>. QED  BY <1>1, <1>2, PTL DEF Spec

\* Every variable keeps its type.
THEOREM TypeCorrect == Spec => []TypeOK
BY Invariant, PTL DEF Inv

\* A run that returns without an error has its own complete result and, from
\* the resident process, its own timing line: app.runResidentPaths never takes
\* the DONE of another request for the answer.
THEOREM OkIsWritten == Spec => []OkMeansWritten
<1>1. Inv => OkMeansWritten
  BY DEF Inv, Settled, OkMeansWritten
<1>. QED  BY <1>1, Invariant, PTL

\* Between requests nothing of the resident process is on its way that the
\* next request could mistake for its own answer.
THEOREM NothingStale == Spec => []NoStaleReply
<1>1. Inv => NoStaleReply
  <2>. SUFFICES ASSUME Inv, gpc = "idle", native # 0 PROVE NoStaleReply
    BY DEF NoStaleReply
  <2>1. stdin[native] = <<>> /\ stdout[native] = <<>> /\ Silent(events[native])
    BY DEF Inv, Quiet
  <2>2. events[native] \in Seq(Lines)
    BY DEF Inv, TypeOK, Reqs
  <2>3. DOMAIN events[native] = 1..Len(events[native])
    BY <2>2, LenProperties
  <2>. QED  BY <2>1, <2>3 DEF Silent, NoStaleReply
<1>. QED  BY <1>1, Invariant, PTL

\* At any time at most one native process is up and the consumer will stop it:
\* stopResident never leaves a hidden GPU job, and none outlives app.worker.
THEOREM NoneHidden == Spec => []NoHiddenProcess
<1>1. Inv => NoHiddenProcess
  <2>. SUFFICES ASSUME Inv, NEW p \in Reqs, proc[p] \notin {"none", "reaped"}
                PROVE  /\ p = native \/ (p = req /\ gpc \in {"solo", "reap"})
                       /\ \A q \in Reqs : q # p => ~Running(q)
                       /\ gpc # "off"
    BY DEF NoHiddenProcess
  <2>1. \A q \in Reqs : proc[q] \notin {"none", "reaped"} =>
          q = native \/ (q = req /\ gpc \in {"solo", "reap"})
    BY DEF Inv, Owned
  <2>2. gpc \in {"solo", "reap", "off"} => native \notin Reqs
    BY DEF Inv, Places, Reqs
  <2>. QED  BY <2>1, <2>2 DEF Running
<1>. QED  BY <1>1, Invariant, PTL
=============================================================================
