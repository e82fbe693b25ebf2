------------------------- MODULE JudgeVerdictProofs --------------------------
(***************************************************************************)
(* What cpp_runner finds out about a submission is so: VerdictsAreOwn, for *)
(* users who wait for a verdict before they submit to the problem again,   *)
(* and OthersDoNoHarm, for users who submit to a problem once, whatever    *)
(* others do.  Both come from one invariant about the files of which at    *)
(* most one submission has no verdict yet.  The runner of an earlier one   *)
(* may still be about to remove its files: a submission that comes before  *)
(* that is hasty, and may lose its source or its executable.               *)
(***************************************************************************)
EXTENDS JudgePipelineProofs

\* No two submissions under the file name ever wait for a verdict together.
Calm(f) == ~Overlap \/ \E s \in Subs : SubsOf(f) = {s}

AloneInv ==
    \A s, u \in Subs : Calm(FileOf[s]) /\ FileOf[s] = FileOf[u] /\ ~Judged(s) /\ ~Judged(u)
        => s = u

\* A submission is hasty as long as the runner of an earlier one is at work.
HastyInv ==
    \A s, u \in Subs : Calm(FileOf[s]) /\ FileOf[s] = FileOf[u] /\ ~Judged(s) /\ ~Ended(u)
        => s = u \/ s \in hasty

\* Which requests and tasks a step may touch.
LEMMA ReqSteps ==
    ASSUME TypeInv, [Next]_vars
    PROVE  \/ UNCHANGED <<req, finished>>
           \/ \E s \in Subs : /\ Request(s) /\ UNCHANGED finished
                              /\ \E r : req' = [req EXCEPT ![s] = r]
           \/ \E s \in Subs : UNCHANGED req /\ finished' = finished \cup {s}
           \/ /\ req' = [s \in Subs |-> IF Ended(s) THEN req[s] ELSE "lost"]
              /\ UNCHANGED finished
<1>1. ASSUME NEW s \in Subs, Request(s)
      PROVE  UNCHANGED finished /\ \E r : req' = [req EXCEPT ![s] = r]
  BY <1>1 DEF Request, Receive, SetSum, ExpireSum, TaskPush, TQ!Submit, poolVars
<1>2. ASSUME NEW s \in Subs, cpp_runner(s)
      PROVE  UNCHANGED req /\ (UNCHANGED finished \/ finished' = finished \cup {s})
  BY <1>2, RunnerStep DEF TypeInv
<1>3. ASSUME NEW p \in Polls, runState(p) PROVE UNCHANGED <<req, finished>>
  BY <1>3 DEF runState, PollSum, PollCase, PollInsert, PollDel, poolVars
<1>4. CASE Start \/ UNCHANGED vars
           \/ \E f \in Files : ChangeCases(f) \/ \E k \in Keys : KeyExpires(f, k)
  BY <1>4 DEF Start, TQ!Start, ChangeCases, KeyExpires, vars, poolVars
<1>5. CASE Restart
  BY <1>5 DEF Restart
<1> QED
  BY <1>1, <1>2, <1>3, <1>4, <1>5 DEF Next

\* What has been dealt with stays so, until it is sent for the first time.
LEMMA EndedStays ==
    ASSUME TypeInv, [Next]_vars, NEW s \in Subs, Ended(s), ~Receive(s)
    PROVE  Ended(s)'
<1>1. DOMAIN req = Subs
  BY DEF TypeInv, ControlInv, ControlTypes
<1>2. req[s] \notin {"setSum", "expireSum", "select"}
  BY DEF Ended
<1>3. ASSUME Request(s) PROVE FALSE
  BY <1>2, <1>3 DEF Request, SetSum, ExpireSum, TaskPush
<1>4. ASSUME NEW u \in Subs, Request(u), UNCHANGED finished, NEW r,
             req' = [req EXCEPT ![u] = r]
      PROVE  Ended(s)'
  <2>1. req'[s] = req[s]
    BY <1>1, <1>3, <1>4
  <2> QED
    BY <1>4, <2>1 DEF Ended
<1>5. CASE UNCHANGED <<req, finished>>
  BY <1>5 DEF Ended
<1>6. CASE \E u \in Subs : UNCHANGED req /\ finished' = finished \cup {u}
  BY <1>6 DEF Ended
<1>7. CASE /\ req' = [u \in Subs |-> IF Ended(u) THEN req[u] ELSE "lost"]
           /\ UNCHANGED finished
  <2>1. req'[s] = req[s]
    BY <1>7
  <2> QED
    BY <1>7, <2>1 DEF Ended
<1> QED
  BY <1>4, <1>5, <1>6, <1>7, ReqSteps

\* What a runner has left to do once the verdict is there.
TailSteps == {"crashExpire", "brokenExpire", "rmSrc", "rmExe"}

InTail(s) == run[s] \in TailSteps \/ (run[s] = "expire" /\ LastCase(s))

\* A verdict that is there stays there.
LEMMA JudgedStays ==
    ASSUME TypeInv, [Next]_vars, NEW s \in Subs, Judged(s), ~Receive(s)
    PROVE  Judged(s)'
<1>1. CASE Ended(s)
  BY <1>1, EndedStays DEF Judged
<1>2. CASE ~Ended(s)
  <2>1. req[s] = "accepted" /\ s \notin finished /\ InTail(s)
    BY <1>2 DEF Judged, Ended, InTail, TailSteps
  <2>2. ASSUME req'[s] = req[s], run'[s] = run[s], cur'[s] = cur[s], total'[s] = total[s]
        PROVE  Judged(s)'
    BY <2>1, <2>2 DEF Judged, InTail, TailSteps, LastCase
  <2>3. DOMAIN req = Subs /\ DOMAIN run = Subs /\ DOMAIN cur = Subs /\ DOMAIN total = Subs
    BY DEF TypeInv, ControlInv, ControlTypes
  <2>4. ASSUME NEW u \in Subs, Request(u) PROVE Judged(s)'
    <3>1. u # s
      BY <2>1, <2>4 DEF Request, Receive, SetSum, ExpireSum, TaskPush
    <3>2. UNCHANGED <<run, cur>>
      BY <2>4 DEF Request, Receive, SetSum, ExpireSum, TaskPush, runnerVars
    <3>3. req'[s] = req[s] /\ total'[s] = total[s]
      BY <2>3, <2>4, <3>1 DEF Request, Receive, SetSum, ExpireSum, TaskPush, runnerVars
    <3> QED
      BY <2>2, <3>2, <3>3
  <2>5. ASSUME NEW u \in Subs, cpp_runner(u) PROVE Judged(s)'
    <3>1. CASE u # s
      BY <2>2, <2>5, <3>1, RunnerFrame
    <3>2. CASE u = s
      <4>1. UNCHANGED req
        BY <2>5, RunnerFrame
      <4>2. \/ run'[s] \in TailSteps \/ s \in finished'
        BY <2>1, <2>3, <2>5, <3>2
           DEF cpp_runner, Compile, Link, BoxInit, CopyIn, BoxRun, CopyOut, Compare, Count,
               ExpireCase, SetCode, ExpireCode, RemoveSource, RemoveExecutable, At, Goto,
               InTail, TailSteps, TQ!Finish
      <4> QED
        BY <2>1, <4>1, <4>2 DEF Judged, Ended, TailSteps
    <3> QED
      BY <3>1, <3>2
  <2>6. ASSUME NEW p \in Polls, runState(p) PROVE Judged(s)'
    BY <2>2, <2>6 DEF runState, PollSum, PollCase, PollInsert, PollDel, runnerVars
  <2>7. CASE Start \/ UNCHANGED vars
             \/ \E f \in Files : ChangeCases(f) \/ \E k \in Keys : KeyExpires(f, k)
    BY <2>2, <2>7 DEF Start, ChangeCases, KeyExpires, vars, runnerVars
  <2>8. CASE Restart
    BY <1>2, <2>8 DEF Restart, Judged, Ended
  <2> QED
    BY <2>4, <2>5, <2>6, <2>7, <2>8 DEF Next
<1> QED
  BY <1>1, <1>2

\* That a submission was hasty is not forgotten.
LEMMA HastyGrows ==
    ASSUME [Next]_vars
    PROVE  hasty \subseteq hasty'
<1>1. ASSUME NEW s \in Subs, Request(s) PROVE hasty \subseteq hasty'
  BY <1>1 DEF Request, Receive, SetSum, ExpireSum, TaskPush, fileVars
<1>2. ASSUME NEW s \in Subs, cpp_runner(s) PROVE UNCHANGED hasty
  BY <1>2
     DEF cpp_runner, Compile, Link, BoxInit, CopyIn, BoxRun, CopyOut, Compare, Count,
         ExpireCase, SetCode, ExpireCode, RemoveSource, RemoveExecutable, fileVars
<1>3. ASSUME NEW p \in Polls, runState(p) PROVE UNCHANGED hasty
  BY <1>3 DEF runState, PollSum, PollCase, PollInsert, PollDel, fileVars
<1>4. CASE Start \/ Restart \/ UNCHANGED vars
           \/ \E f \in Files : ChangeCases(f) \/ \E k \in Keys : KeyExpires(f, k)
  BY <1>4 DEF Start, Restart, ChangeCases, KeyExpires, vars, fileVars
<1> QED
  BY <1>1, <1>2, <1>3, <1>4 DEF Next

\* A request is received when nothing else under a calm file name waits for a verdict.
LEMMA ReceiveAlone ==
    ASSUME TypeInv, NEW s \in Subs, Receive(s), Calm(FileOf[s]),
           NEW u \in Subs, FileOf[u] = FileOf[s]
    PROVE  Judged(u)
<1>1. CASE ~Overlap
  BY <1>1 DEF Receive
<1>2. CASE \E x \in Subs : SubsOf(FileOf[s]) = {x}
  <2>1. u = s
    BY <1>2 DEF SubsOf
  <2> QED
    BY <2>1 DEF Receive, Judged, Ended
<1> QED
  BY <1>1, <1>2 DEF Calm

\* What receiving a request leaves of the others.
LEMMA ReceiveFrame ==
    ASSUME TypeInv, NEW s \in Subs, Receive(s), NEW u \in Subs, u # s
    PROVE  (Judged(u)' <=> Judged(u)) /\ (Ended(u)' <=> Ended(u))
<1>1. req'[u] = req[u] /\ UNCHANGED <<finished, run, cur, total>>
  BY DEF Receive, poolVars, runnerVars, TypeInv, ControlInv, ControlTypes
<1> QED
  BY <1>1 DEF Judged, Ended, LastCase

\* At most one submission under a calm file name waits for a verdict, and it is hasty if
\* another one has not ended.
LEMMA AloneStep ==
    ASSUME TypeInv, AloneInv, HastyInv, [Next]_vars
    PROVE  AloneInv' /\ HastyInv'
<1>1. ASSUME NEW x \in Subs, NEW y \in Subs, x # y, FileOf[x] = FileOf[y], Calm(FileOf[x]),
             Receive(x), ~Judged(y)'
      PROVE  FALSE
  <2>1. Judged(y)
    BY <1>1, ReceiveAlone
  <2> QED
    BY <1>1, <2>1, ReceiveFrame
<1>2. ASSUME NEW s \in Subs, NEW u \in Subs, Calm(FileOf[s]), FileOf[s] = FileOf[u],
             ~Judged(s)', ~Judged(u)', s # u
      PROVE  FALSE
  <2>1. CASE ~Receive(s) /\ ~Receive(u)
    BY <1>2, <2>1, JudgedStays DEF AloneInv
  <2> QED
    BY <1>1, <1>2, <2>1
<1>3. ASSUME NEW s \in Subs, NEW u \in Subs, Calm(FileOf[s]), FileOf[s] = FileOf[u],
             ~Judged(s)', ~Ended(u)', s # u
      PROVE  s \in hasty'
  <2>1. CASE Receive(s)
    <3>1. ~Ended(u)
      BY <1>3, <2>1, ReceiveFrame
    <3> QED
      BY <1>3, <2>1, <3>1 DEF Receive
  <2>2. CASE Receive(u)
    BY <1>1, <1>3, <2>2
  <2>3. CASE ~Receive(s) /\ ~Receive(u)
    BY <1>3, <2>3, JudgedStays, EndedStays, HastyGrows DEF HastyInv
  <2> QED
    BY <2>1, <2>2, <2>3
<1>4. AloneInv'
  BY <1>2 DEF AloneInv, Calm, SubsOf
<1>5. HastyInv'
  BY <1>3 DEF HastyInv, Calm, SubsOf
<1> QED
  BY <1>4, <1>5

-----------------------------------------------------------------------------
(* The source files.                                                         *)

\* The submission's text was written, and its runner has not removed it yet.
HasSource(s) ==
    \/ req[s] \in {"setSum", "expireSum", "select"}
    \/ /\ req[s] = "accepted" /\ s \notin finished
       /\ run[s] \notin {"rmExe", "brokenRmExe", "brokenSet", "brokenExpire", "done"}

\* The source that a submission is to be built from: its own text, or none any more when
\* the runner of an earlier one has removed it.
Found(s, t) == IF t = <<>> THEN s \in hasty ELSE t[1] = s

\* The source begins with the text of the submission that waits for a verdict.  A longer
\* file has the length of a text that was left there, by a request that was refused or
\* lost, or by a submission whose runner has not removed it yet.
TextInv ==
    \A f \in Files : Calm(f) =>
        /\ \A s \in SubsOf(f) : HasSource(s) /\ ~Judged(s) => Found(s, src[f])
        /\ src[f] # <<>> =>
              \E u \in SubsOf(f) : /\ Len(src[f]) = Size[u]
                                   /\ req[u] \in {"refused", "lost"} \/ HasSource(u)

\* A submission with a source is under way.
LEMMA SourceUnderWay ==
    ASSUME NEW s \in Subs, HasSource(s)
    PROVE  ~Ended(s)
  BY DEF HasSource, Ended

\* Who may have left a text: a submission under way, or one refused or lost.
MayLeave(u) == req[u] \in {"refused", "lost"} \/ HasSource(u)

\* What TextInv says of one file.
SourceOf(f) ==
    /\ \A s \in SubsOf(f) : HasSource(s) /\ ~Judged(s) => Found(s, src[f])
    /\ src[f] # <<>> => \E u \in SubsOf(f) : Len(src[f]) = Size[u] /\ MayLeave(u)

\* A step that leaves a file alone, and gives none of its submissions a source.
LEMMA TextQuiet ==
    ASSUME TypeInv, NEW f \in Files, Calm(f),
           src'[f] = src[f], hasty \subseteq hasty',
           \A u \in SubsOf(f) : /\ HasSource(u)' => HasSource(u)
                                /\ MayLeave(u) => MayLeave(u)'
                                /\ Judged(u) => Judged(u)',
           TextInv
    PROVE  SourceOf(f)'
  BY DEF TextInv, MayLeave, SourceOf, Found, Calm, SubsOf

\* Steps that write or remove no source give none and take none away.
LEMMA SourcesStay ==
    ASSUME TypeInv, [Next]_vars, \A s \in Subs : ~Receive(s) /\ ~RemoveSource(s)
    PROVE  /\ UNCHANGED src
           /\ \A u \in Subs : /\ HasSource(u)' => HasSource(u)
                              /\ MayLeave(u) => MayLeave(u)'
<1>1. DOMAIN req = Subs /\ DOMAIN run = Subs
  BY DEF TypeInv, ControlInv, ControlTypes
<1>2. ASSUME NEW s \in Subs, Request(s)
      PROVE  /\ UNCHANGED src
             /\ \A u \in Subs : /\ HasSource(u)' => HasSource(u)
                                /\ MayLeave(u) => MayLeave(u)'
  <2>1. UNCHANGED <<src, run, finished>>
    BY <1>2 DEF Request, SetSum, ExpireSum, TaskPush, TQ!Submit, fileVars, poolVars, runnerVars
  <2>2. /\ \A u \in Subs \ {s} : req'[u] = req[u]
        /\ req[s] \in {"setSum", "expireSum", "select"}
        /\ req'[s] \in {"expireSum", "select", "refused", "accepted"}
    BY <1>1, <1>2 DEF Request, SetSum, ExpireSum, TaskPush
  <2>3. req'[s] = "accepted" => run[s] = "compile" /\ s \notin finished
    BY <1>1, <1>2, <2>2
       DEF Request, SetSum, ExpireSum, TaskPush, TypeInv, ControlInv, ControlTypes, TaskInv
  <2> QED
    BY <2>1, <2>2, <2>3 DEF HasSource, MayLeave
<1>3. ASSUME NEW s \in Subs, cpp_runner(s)
      PROVE  /\ UNCHANGED src
             /\ \A u \in Subs : /\ HasSource(u)' => HasSource(u)
                                /\ MayLeave(u) => MayLeave(u)'
  <2>1. UNCHANGED <<src, req>>
    BY <1>3
       DEF cpp_runner, Compile, Link, BoxInit, CopyIn, BoxRun, CopyOut, Compare, Count,
           ExpireCase, SetCode, ExpireCode, RemoveExecutable, fileVars
  <2> DEFINE After == {"rmExe", "brokenRmExe", "brokenSet", "brokenExpire", "done"}
  <2>2. run[s] \in After => run'[s] \in After
    BY <1>1, <1>3
       DEF cpp_runner, Compile, Link, BoxInit, CopyIn, BoxRun, CopyOut, Compare, Count,
           ExpireCase, SetCode, ExpireCode, RemoveExecutable, At, Goto
  <2>3. run[s] \notin After => run'[s] \notin After /\ UNCHANGED finished
    BY <1>1, <1>3
       DEF cpp_runner, Compile, Link, BoxInit, CopyIn, BoxRun, CopyOut, Compare, Count,
           ExpireCase, SetCode, ExpireCode, RemoveExecutable, At, Goto, poolVars
  <2>4. \A u \in Subs \ {s} : run'[u] = run[u]
    BY <1>3, RunnerFrame
  <2>5. UNCHANGED finished \/ finished' = finished \cup {s}
    BY <1>3, RunnerStep DEF TypeInv
  <2>6. ASSUME NEW u \in Subs \ {s}
        PROVE  (HasSource(u)' => HasSource(u)) /\ (MayLeave(u) => MayLeave(u)')
    BY <2>1, <2>4, <2>5 DEF HasSource, MayLeave
  <2>7. (HasSource(s)' => HasSource(s)) /\ (MayLeave(s) => MayLeave(s)')
    BY <2>1, <2>2, <2>3, <2>5 DEF HasSource, MayLeave
  <2> QED
    BY <2>1, <2>6, <2>7
<1>4. ASSUME UNCHANGED <<src, req, run, finished>>
      PROVE  /\ UNCHANGED src
             /\ \A u \in Subs : /\ HasSource(u)' => HasSource(u)
                                /\ MayLeave(u) => MayLeave(u)'
  BY <1>4 DEF HasSource, MayLeave
<1>5. CASE \/ \E p \in Polls : runState(p)
           \/ \E f \in Files : ChangeCases(f) \/ \E k \in Keys : KeyExpires(f, k)
           \/ Start \/ UNCHANGED vars
  <2>1. UNCHANGED <<src, req, run, finished>>
    BY <1>5
       DEF runState, PollSum, PollCase, PollInsert, PollDel, ChangeCases, KeyExpires, Start,
           TQ!Start, vars, poolVars, fileVars, runnerVars
  <2> QED
    BY <1>4, <2>1
<1>6. CASE Restart
  <2>1. /\ UNCHANGED <<src, run, finished>>
        /\ req' = [s \in Subs |-> IF Ended(s) THEN req[s] ELSE "lost"]
    BY <1>6 DEF Restart, fileVars
  <2>2. \A u \in Subs : HasSource(u) => req'[u] = "lost"
    BY <2>1, SourceUnderWay
  <2>3. \A u \in Subs : req'[u] \in {req[u], "lost"}
    BY <2>1
  <2> QED
    BY <2>1, <2>2, <2>3 DEF HasSource, MayLeave
<1> QED
  BY <1>2, <1>3, <1>5, <1>6 DEF Next

\* A request writes its text over what is left of the earlier ones.
LEMMA ReceiveText ==
    ASSUME TypeInv, TextInv, NEW s \in Subs, Receive(s)
    PROVE  TextInv'
<1> DEFINE f == FileOf[s]
<1>1. f \in Files /\ src[f] \in Seq(Subs) /\ Size[s] \in Nat \ {0}
  BY JudgeAssumption DEF TypeInv, SourceInv
<1>2. PICK new : new = Overwrite(src[f], Text(s))
  OBVIOUS
<1>3. /\ new \in Seq(Subs) /\ new # <<>> /\ new[1] = s
      /\ Len(new) = IF Len(src[f]) > Size[s] THEN Len(src[f]) ELSE Size[s]
  BY <1>1, <1>2, OverwriteIs, OverwriteStarts
<1>4. src' = [src EXCEPT ![f] = new] /\ req' = [req EXCEPT ![s] = "setSum"]
      /\ UNCHANGED <<run, finished>> /\ req[s] = "unsent" /\ hasty \subseteq hasty'
  BY <1>2 DEF Receive, poolVars, runnerVars
<1>5. src'[f] = new /\ \A g \in Files \ {f} : src'[g] = src[g]
  BY <1>1, <1>4 DEF TypeInv, SourceInv
<1>6. req'[s] = "setSum" /\ \A u \in Subs \ {s} : req'[u] = req[u]
  BY <1>4 DEF TypeInv, ControlInv, ControlTypes
<1>7. \A u \in Subs \ {s} : /\ HasSource(u)' <=> HasSource(u)
                            /\ MayLeave(u)' <=> MayLeave(u)
                            /\ Judged(u)' <=> Judged(u)
  <2>1. \A u \in Subs \ {s} : Judged(u)' <=> Judged(u)
    BY ReceiveFrame
  <2> QED
    BY <1>4, <1>6, <2>1 DEF HasSource, MayLeave
<1>8. ASSUME NEW g \in Files \ {f}, Calm(g)
      PROVE  SourceOf(g)'
  <2>1. \A u \in SubsOf(g) : u \in Subs \ {s}
    BY DEF SubsOf
  <2> QED
    BY <1>4, <1>5, <1>7, <1>8, <2>1, TextQuiet
<1>9. ASSUME Calm(f)
      PROVE  SourceOf(f)'
  <2>1. \A u \in SubsOf(f) \ {s} : Judged(u)'
    <3>1. \A u \in SubsOf(f) \ {s} : u \in Subs \ {s} /\ Judged(u)
      BY <1>9, ReceiveAlone DEF SubsOf
    <3> QED
      BY <1>7, <3>1
  <2>2. \A u \in SubsOf(f) : HasSource(u)' /\ ~Judged(u)' => Found(u, src[f])'
    BY <1>3, <1>5, <2>1 DEF Found
  <2>3. CASE Len(src[f]) > Size[s]
    <3>1. src[f] # <<>>
      BY <1>1, <2>3
    <3>2. PICK u \in SubsOf(f) : Len(src[f]) = Size[u] /\ MayLeave(u)
      BY <1>1, <1>9, <3>1 DEF TextInv, MayLeave
    <3>3. u \in Subs \ {s}
      BY <1>1, <2>3, <3>2 DEF SubsOf
    <3> QED
      BY <1>3, <1>5, <1>7, <2>2, <2>3, <3>2, <3>3 DEF SourceOf, SubsOf
  <2>4. CASE ~(Len(src[f]) > Size[s])
    <3>1. s \in SubsOf(f) /\ MayLeave(s)'
      BY <1>6 DEF SubsOf, MayLeave, HasSource
    <3> QED
      BY <1>3, <1>5, <2>2, <2>4, <3>1 DEF SourceOf, SubsOf
  <2> QED
    BY <2>3, <2>4
<1> HIDE DEF f
<1> QED
  BY <1>8, <1>9 DEF TextInv, SourceOf, MayLeave, Calm, SubsOf

\* A runner removes the source it was given, or the one of a hasty submission.
LEMMA RemoveText ==
    ASSUME TypeInv, HastyInv, TextInv, NEW s \in Subs, RemoveSource(s)
    PROVE  TextInv'
<1> DEFINE f == FileOf[s]
<1>1. f \in Files
  BY JudgeAssumption
<1>2. s \in running /\ ~Ended(s) /\ req[s] = "accepted"
  <2>1. s \in running
    BY DEF RemoveSource, At
  <2> QED
    BY <2>1, RunnerFacts DEF Ended
<1>3. src' = [src EXCEPT ![f] = <<>>] /\ UNCHANGED <<req, finished, cur, total, hasty>>
      /\ run'[s] \in {"rmExe", "brokenRmExe"} /\ \A u \in Subs \ {s} : run'[u] = run[u]
  BY DEF RemoveSource, Removed, Goto, poolVars, TypeInv, ControlInv, ControlTypes
<1>4. src'[f] = <<>> /\ \A g \in Files \ {f} : src'[g] = src[g]
  BY <1>1, <1>3 DEF TypeInv, SourceInv
<1>5. \A u \in Subs \ {s} : /\ HasSource(u)' <=> HasSource(u)
                            /\ MayLeave(u)' <=> MayLeave(u)
                            /\ Judged(u)' <=> Judged(u)
  BY <1>3 DEF HasSource, MayLeave, Judged, Ended, LastCase
<1>6. ~HasSource(s)'
  BY <1>2, <1>3 DEF HasSource
<1>7. ASSUME NEW g \in Files \ {f}, Calm(g)
      PROVE  SourceOf(g)'
  <2>1. \A u \in SubsOf(g) : u \in Subs \ {s}
    BY DEF SubsOf
  <2> QED
    BY <1>3, <1>4, <1>5, <1>7, <2>1, TextQuiet
<1>8. ASSUME Calm(f), NEW u \in SubsOf(f), HasSource(u)', ~Judged(u)'
      PROVE  u \in hasty'
  <2>1. u \in Subs \ {s} /\ FileOf[u] = f
    BY <1>6, <1>8 DEF SubsOf
  <2>2. ~Judged(u)
    BY <1>5, <1>8, <2>1
  <2> QED
    BY <1>2, <1>3, <1>8, <2>1, <2>2 DEF HastyInv
<1>9. ASSUME NEW g \in Files, Calm(g)
      PROVE  SourceOf(g)'
  <2>1. CASE g = f
    BY <1>4, <1>8, <1>9, <2>1 DEF SourceOf, Found, SubsOf
  <2>2. CASE g \in Files \ {f}
    BY <1>7, <1>9, <2>2
  <2> QED
    BY <2>1, <2>2
<1> HIDE DEF f
<1> QED
  BY <1>9 DEF TextInv, SourceOf, MayLeave, Calm, SubsOf

\* Every step keeps what is known of the source files.
LEMMA TextStep ==
    ASSUME TypeInv, HastyInv, TextInv, [Next]_vars
    PROVE  TextInv'
<1>1. CASE \A s \in Subs : ~Receive(s) /\ ~RemoveSource(s)
  <2>1. /\ UNCHANGED src
        /\ \A u \in Subs : /\ HasSource(u)' => HasSource(u)
                           /\ MayLeave(u) => MayLeave(u)'
    BY <1>1, SourcesStay
  <2>2. ASSUME NEW f \in Files, Calm(f)
        PROVE  SourceOf(f)'
    <3>1. \A u \in SubsOf(f) : u \in Subs /\ (Judged(u) => Judged(u)')
      BY <1>1, JudgedStays DEF SubsOf
    <3> QED
      BY <2>1, <2>2, <3>1, TextQuiet, HastyGrows
  <2> QED
    BY <2>2 DEF TextInv, SourceOf, MayLeave, Calm, SubsOf
<1> QED
  BY <1>1, ReceiveText, RemoveText

-----------------------------------------------------------------------------
(* The runners.                                                              *)

BrokenSteps == {"brokenRmSrc", "brokenRmExe", "brokenSet", "brokenExpire"}
Judging == {"lock", "copyIn", "run", "copyOut"}
Comparing == {"compare", "count", "expire"}
CrashSteps == {"crashSet", "crashExpire"}

\* No command has failed and no test case was run yet when the compiler is at work.
StatusInv == \A s \in Subs : run[s] \in {"compile", "link"} => ~failed[s] /\ cur[s] = 0

\* Why g++ may fail on s, and why a command in the sandbox may.
Excused(s) == ~Program[s].compiles \/ LeftBehind(s) \/ s \in hasty
Troubled(s) == Crashes(s) \/ s \in Failing \cup hasty

\* The first n outputs are those of s.
OwnOutputs(s, n) ==
    \A i \in Indices : i < n => out[FileOf[s]][i] = OutputOf(s, tests[s][i + 1])

\* What a runner has made so far, it has made of its own submission.
Own(s) ==
    /\ run[s] = "link" => IF built[s] = None THEN Excused(s)
                          ELSE built[s] = s /\ Program[s].compiles
    /\ run[s] \in BrokenSteps => Excused(s)
    /\ run[s] \in Judging \cup Comparing \cup CrashSteps => Program[s].compiles
    /\ run[s] \in Judging =>
          /\ exe[FileOf[s]] = s \/ (exe[FileOf[s]] = None /\ s \in hasty)
          /\ IF failed[s] THEN Troubled(s) ELSE OwnOutputs(s, cur[s])
    /\ run[s] = "run" /\ ~failed[s] => box.exe = s /\ box.case = TestOf(s)
    /\ run[s] = "copyOut" /\ ~failed[s] => box.output = OutputOf(s, TestOf(s))
    /\ run[s] \in Comparing /\ ~InTail(s) => OwnOutputs(s, total[s])
    /\ run[s] \in CrashSteps => Troubled(s)

VerdictInv == \A s \in running : Calm(FileOf[s]) => Own(s)

\* A request that was refused or lost stays so, and with it what it left behind.
LEMMA LeftBehindStays ==
    ASSUME TypeInv, [Next]_vars, NEW s \in Subs, LeftBehind(s)
    PROVE  LeftBehind(s)'
<1>1. PICK u \in SubsOf(FileOf[s]) \ {s} : Size[u] > Size[s] /\ req[u] \in {"refused", "lost"}
  BY DEF LeftBehind
<1>2. u \in Subs /\ DOMAIN req = Subs
  BY DEF SubsOf, TypeInv, ControlInv, ControlTypes
<1>3. \A x \in Subs : Request(x) => x # u
  BY <1>1 DEF Request, Receive, SetSum, ExpireSum, TaskPush
<1>4. Ended(u)
  BY <1>1 DEF Ended
<1>5. req'[u] = req[u]
  BY <1>2, <1>3, <1>4, ReqSteps
<1> QED
  BY <1>1, <1>5 DEF LeftBehind, SubsOf

\* The status of a runner is set by the commands in the sandbox alone.
LEMMA StatusStep ==
    ASSUME TypeInv, StatusInv, [Next]_vars
    PROVE  StatusInv'
<1>1. DOMAIN run = Subs /\ DOMAIN failed = Subs /\ DOMAIN cur = Subs
  BY DEF TypeInv, ControlInv, ControlTypes, FileTypes
<1>2. ASSUME NEW s \in Subs, cpp_runner(s) PROVE StatusInv'
  <2>1. \A u \in Subs \ {s} : run'[u] = run[u] /\ cur'[u] = cur[u] /\ failed'[u] = failed[u]
    <3>1. \A u \in Subs \ {s} : failed'[u] = failed[u]
      BY <1>1, <1>2
         DEF cpp_runner, Compile, Link, BoxInit, CopyIn, BoxRun, CopyOut, Compare, Count,
             ExpireCase, SetCode, ExpireCode, RemoveSource, RemoveExecutable, CommandFails
    <3> QED
      BY <1>2, <3>1, RunnerFrame
  <2>2. CASE Compile(s)
    BY <1>1, <2>1, <2>2 DEF Compile, At, Goto, StatusInv
  <2>3. CASE ~Compile(s)
    <3>1. run'[s] \notin {"compile", "link"}
      BY <1>1, <1>2, <2>3
         DEF cpp_runner, Link, BoxInit, CopyIn, BoxRun, CopyOut, Compare, Count, ExpireCase,
             SetCode, ExpireCode, RemoveSource, RemoveExecutable, Goto
    <3> QED
      BY <2>1, <3>1 DEF StatusInv
  <2> QED
    BY <2>2, <2>3
<1>3. ASSUME UNCHANGED <<run, failed, cur>> PROVE StatusInv'
  BY <1>3 DEF StatusInv
<1>4. ASSUME NEW s \in Subs, Request(s) PROVE StatusInv'
  BY <1>3, <1>4 DEF Request, Receive, SetSum, ExpireSum, TaskPush, runnerVars
<1>5. ASSUME NEW p \in Polls, runState(p) PROVE StatusInv'
  BY <1>3, <1>5 DEF runState, PollSum, PollCase, PollInsert, PollDel, runnerVars
<1>6. CASE Start \/ UNCHANGED vars
           \/ \E f \in Files : ChangeCases(f) \/ \E k \in Keys : KeyExpires(f, k)
  BY <1>3, <1>6 DEF Start, vars, ChangeCases, KeyExpires, runnerVars
<1>7. CASE Restart
  BY <1>7 DEF Restart, StatusInv
<1> QED
  BY <1>2, <1>4, <1>5, <1>6, <1>7 DEF Next

\* A step that does not touch the runner, nor the sandbox while the runner is in it, nor
\* its files while there is no verdict, but for the executable of a hasty submission.
LEMMA OwnStays ==
    ASSUME NEW s \in Subs, Own(s),
           run'[s] = run[s], cur'[s] = cur[s], total'[s] = total[s], tests'[s] = tests[s],
           built'[s] = built[s], failed'[s] = failed[s],
           \/ InTail(s)
           \/ /\ out'[FileOf[s]] = out[FileOf[s]]
              /\ exe'[FileOf[s]] = exe[FileOf[s]] \/ (exe'[FileOf[s]] = None /\ s \in hasty),
           InBox(s) => box' = box,
           hasty \subseteq hasty',
           LeftBehind(s) => LeftBehind(s)'
    PROVE  Own(s)'
<1> USE DEF BrokenSteps, Judging, Comparing, CrashSteps
<1>1. run[s] \in {"run", "copyOut"} => InBox(s)
  BY DEF InBox
<1>2. /\ (Excused(s) => Excused(s)') /\ (Troubled(s) => Troubled(s)')
      /\ TestOf(s)' = TestOf(s) /\ (InTail(s)' <=> InTail(s))
  BY DEF Excused, Troubled, Crashes, TestOf, InTail, TailSteps, LastCase
<1>3. InTail(s) => run[s] \notin Judging
  BY DEF InTail, TailSteps
<1>4. ASSUME ~InTail(s), NEW n, OwnOutputs(s, n) PROVE OwnOutputs(s, n)'
  BY <1>4 DEF OwnOutputs, OutputOf
<1>5. CASE InTail(s)
  BY <1>2, <1>3, <1>5 DEF Own, InTail, TailSteps
<1>6. CASE ~InTail(s)
  <2>1. /\ run'[s] = "link" => IF built'[s] = None THEN Excused(s)'
                               ELSE built'[s] = s /\ Program[s].compiles
        /\ run'[s] \in BrokenSteps => Excused(s)'
        /\ run'[s] \in Judging \cup Comparing \cup CrashSteps => Program[s].compiles
        /\ run'[s] \in CrashSteps => Troubled(s)'
    BY <1>2 DEF Own
  <2>2. run'[s] \in Judging =>
          /\ exe'[FileOf[s]] = s \/ (exe'[FileOf[s]] = None /\ s \in hasty')
          /\ IF failed'[s] THEN Troubled(s)' ELSE OwnOutputs(s, cur[s])'
    BY <1>2, <1>4, <1>6 DEF Own
  <2>3. /\ run'[s] = "run" /\ ~failed'[s] => box'.exe = s /\ box'.case = TestOf(s)'
        /\ run'[s] = "copyOut" /\ ~failed'[s] => box'.output = OutputOf(s, TestOf(s)')
    BY <1>1, <1>2 DEF Own
  <2>4. run'[s] \in Comparing /\ ~InTail(s)' => OwnOutputs(s, total[s])'
    BY <1>2, <1>4, <1>6 DEF Own
  <2> HIDE DEF BrokenSteps, Judging, Comparing, CrashSteps
  <2> QED
    BY <2>1, <2>2, <2>3, <2>4 DEF Own, OwnOutputs, OutputOf
<1> QED
  BY <1>5, <1>6

\* What the compiler finds under a calm file name is the submission's own text.
LEMMA CompileOwn ==
    ASSUME TypeInv, HastyInv, TextInv, NEW s \in running, Calm(FileOf[s]), Compile(s),
           LeftBehind(s) => LeftBehind(s)'
    PROVE  Own(s)'
<1> DEFINE f == FileOf[s]
           t == src[f]
<1>1. s \in Subs /\ f \in Files /\ req[s] = "accepted" /\ s \notin finished
  BY RunnerFacts
<1>2. s \in SubsOf(f) /\ HasSource(s) /\ ~Judged(s)
  BY <1>1 DEF SubsOf, HasSource, Compile, At, Judged, Ended
<1>0. PICK b \in Builds(t) : built' = [built EXCEPT ![s] = b]
  BY DEF Compile
<1>11. run'[s] = "link" /\ built'[s] = b /\ UNCHANGED hasty
  BY <1>1, <1>0 DEF Compile, Goto, TypeInv, ControlInv, ControlTypes, FileTypes, fileVars
<1>12. Found(s, t) /\ t \in Seq(Subs) /\ StartsWithText(t)
  BY <1>1, <1>2 DEF TextInv, TypeInv, SourceInv
<1>13. ASSUME IF b = None THEN Excused(s) ELSE b = s /\ Program[s].compiles
       PROVE  Own(s)'
  <2>1. Excused(s) => Excused(s)'
    BY <1>11 DEF Excused
  <2> QED
    BY <1>11, <1>13, <2>1 DEF Own, BrokenSteps, Judging, Comparing, CrashSteps
<1>14. CASE t = <<>>
  BY <1>0, <1>12, <1>13, <1>14 DEF Found, Builds, Excused
<1> SUFFICES ASSUME t # <<>> PROVE Own(s)'
  BY <1>14
<1>3. t \in Seq(Subs) /\ t # <<>> /\ t[1] = s /\ StartsWithText(t)
  BY <1>12 DEF Found
<1>4. Size[s] \in Nat \ {0} /\ \A u \in Subs : Size[u] \in Nat
  BY <1>1, JudgeAssumption
<1>5. Len(t) > Size[s] => LeftBehind(s) \/ s \in hasty
  <2> SUFFICES ASSUME Len(t) > Size[s] PROVE LeftBehind(s) \/ s \in hasty
    OBVIOUS
  <2>1. PICK u \in SubsOf(f) : Len(t) = Size[u] /\ (req[u] \in {"refused", "lost"} \/ HasSource(u))
    BY <1>1, <1>3 DEF TextInv
  <2>2. u # s
    BY <1>4, <2>1
  <2>3. HasSource(u) => s \in hasty
    BY <1>1, <1>2, <2>1, <2>2, SourceUnderWay DEF HastyInv, SubsOf
  <2> QED
    BY <2>1, <2>2, <2>3 DEF LeftBehind
<1>6. Len(t) = Size[s] => t = Text(s)
  <2> SUFFICES ASSUME Len(t) = Size[s] PROVE t = Text(s)
    OBVIOUS
  <2> HIDE DEF t
  <2>1. \A n \in 1..Len(t) : t[n] = s
    BY <1>3 DEF StartsWithText
  <2>2. t = [n \in 1..Len(t) |-> t[n]]
    BY <1>3
  <2> QED
    BY <2>1, <2>2 DEF Text
<1>7. Len(t) >= Size[s] /\ Len(t) \in Nat
  BY <1>3 DEF StartsWithText
<1>8. t # Text(s) => LeftBehind(s) \/ s \in hasty
  BY <1>4, <1>5, <1>6, <1>7
<1>10. IF b = None THEN Excused(s) ELSE b = s /\ Program[s].compiles
  <2>1. Builds(t) = (IF Program[s].compiles THEN {s} ELSE {None})
                    \cup (IF t = Text(s) THEN {} ELSE {None})
    BY <1>3 DEF Builds
  <2>2. s # None
    BY <1>1, JudgeAssumption
  <2> QED
    BY <1>8, <1>0, <2>1, <2>2 DEF Excused
<1> QED
  BY <1>10, <1>13

\* Each later step of a runner works on what the steps before it have made.
LEMMA RunnerOwn ==
    ASSUME TypeInv, StatusInv, NEW s \in running, Own(s), cpp_runner(s), ~Compile(s),
           LeftBehind(s) => LeftBehind(s)'
    PROVE  Own(s)'
<1> USE DEF BrokenSteps, Judging, Comparing, CrashSteps
<1>1. /\ s \in Subs /\ s # None /\ FileOf[s] \in Files
      /\ cur[s] \in Indices /\ total[s] \in 1..MaxRows /\ cur[s] < total[s]
      /\ tests[s] \in Seq(Tests) /\ total[s] = Len(tests[s]) /\ TestOf(s) \in Tests
  BY RunnerFacts, JudgeAssumption
<1>2. /\ DOMAIN run = Subs /\ DOMAIN cur = Subs /\ failed \in [Subs -> BOOLEAN]
      /\ DOMAIN exe = Files /\ out \in [Files -> [Indices -> Outputs]]
      /\ \A i \in Indices : i \in Nat
  BY JudgeAssumption DEF TypeInv, ControlInv, ControlTypes, FileTypes, Indices
<1>0. UNCHANGED <<total, tests, hasty>>
  BY DEF cpp_runner, Compile, Link, BoxInit, CopyIn, BoxRun, CopyOut, Compare, Count,
         ExpireCase, SetCode, ExpireCode, RemoveSource, RemoveExecutable, fileVars
<1>a. (Excused(s) => Excused(s)') /\ (Troubled(s) => Troubled(s)')
  BY <1>0 DEF Excused, Troubled, Crashes
<1>b. ASSUME CommandFails(s) PROVE failed'[s] /\ Troubled(s)'
  BY <1>1, <1>2, <1>b DEF CommandFails, Troubled
<1>c. ASSUME NEW n, OwnOutputs(s, n), UNCHANGED out PROVE OwnOutputs(s, n)'
  BY <1>0, <1>c DEF OwnOutputs, OutputOf
<1>3. CASE Link(s)
  <2>1. CASE built[s] = None
    <3>1. run[s] = "link" /\ run'[s] = "brokenRmSrc"
      BY <1>1, <1>2, <1>3, <2>1 DEF Link, At, Goto
    <3> QED
      BY <1>a, <2>1, <3>1 DEF Own
  <2>2. CASE built[s] # None
    <3>1. /\ run[s] = "link" /\ run'[s] = "lock" /\ exe'[FileOf[s]] = built[s]
          /\ UNCHANGED <<cur, failed, out>>
      BY <1>1, <1>2, <1>3, <2>2 DEF Link, At, Goto
    <3>2. ~failed[s] /\ cur[s] = 0 /\ built[s] = s /\ Program[s].compiles
      BY <1>1, <2>2, <3>1 DEF Own, StatusInv
    <3>3. OwnOutputs(s, cur[s])'
      BY <1>2, <3>1, <3>2 DEF OwnOutputs
    <3> QED
      BY <3>1, <3>2, <3>3 DEF Own
  <2> QED
    BY <2>1, <2>2
<1>4. CASE BoxInit(s)
  <2>1. run[s] = "lock" /\ run'[s] = "copyIn" /\ UNCHANGED <<exe, out, cur>>
        /\ (CommandFails(s) \/ UNCHANGED failed)
    BY <1>1, <1>2, <1>4 DEF BoxInit, At, Goto, fileVars
  <2>2. /\ Program[s].compiles
        /\ exe[FileOf[s]] = s \/ (exe[FileOf[s]] = None /\ s \in hasty)
        /\ IF failed[s] THEN Troubled(s) ELSE OwnOutputs(s, cur[s])
    BY <2>1 DEF Own
  <2>3. IF failed'[s] THEN Troubled(s)' ELSE OwnOutputs(s, cur[s])'
    BY <1>a, <1>b, <1>c, <2>1, <2>2
  <2> QED
    BY <1>0, <2>1, <2>2, <2>3 DEF Own
<1>5. CASE CopyIn(s)
  <2>1. run[s] = "copyIn" /\ run'[s] = "run" /\ UNCHANGED <<exe, out, cur>>
    BY <1>1, <1>2, <1>5 DEF CopyIn, At, Goto, fileVars
  <2>2. /\ Program[s].compiles
        /\ exe[FileOf[s]] = s \/ (exe[FileOf[s]] = None /\ s \in hasty)
        /\ IF failed[s] THEN Troubled(s) ELSE OwnOutputs(s, cur[s])
    BY <2>1 DEF Own
  <2>3. CASE CommandFails(s)
    BY <1>0, <1>b, <2>1, <2>2, <2>3 DEF Own
  <2>4. CASE /\ box' = [exe |-> exe[FileOf[s]], case |-> TestOf(s), output |-> box.output]
             /\ failed' = [failed EXCEPT ![s] = failed[s] \/ exe[FileOf[s]] = None]
    <3>1. /\ box'.exe = exe[FileOf[s]] /\ box'.case = TestOf(s)
          /\ failed'[s] <=> failed[s] \/ exe[FileOf[s]] = None
      BY <1>1, <1>2, <2>4
    <3>2. TestOf(s)' = TestOf(s)
      BY <1>0, <2>1 DEF TestOf
    <3>3. failed'[s] => Troubled(s)'
      BY <1>1, <1>a, <2>2, <3>1 DEF Troubled
    <3>4. ~failed'[s] => OwnOutputs(s, cur[s])' /\ box'.exe = s /\ box'.case = TestOf(s)'
      BY <1>c, <2>1, <2>2, <3>1, <3>2
    <3> QED
      BY <1>0, <2>1, <2>2, <3>3, <3>4 DEF Own
  <2> QED
    BY <1>5, <2>3, <2>4 DEF CopyIn
<1>6. CASE BoxRun(s)
  <2>1. run[s] = "run" /\ run'[s] = "copyOut" /\ UNCHANGED <<exe, out, cur>>
    BY <1>1, <1>2, <1>6 DEF BoxRun, At, Goto, fileVars
  <2>2. /\ Program[s].compiles
        /\ exe[FileOf[s]] = s \/ (exe[FileOf[s]] = None /\ s \in hasty)
        /\ IF failed[s] THEN Troubled(s) ELSE OwnOutputs(s, cur[s])
        /\ ~failed[s] => box.exe = s /\ box.case = TestOf(s)
    BY <2>1 DEF Own
  <2>3. CASE CommandFails(s)
    BY <1>0, <1>b, <2>1, <2>2, <2>3 DEF Own
  <2>4. CASE /\ box' = [box EXCEPT !.output = <<box.case, Outcome>>]
             /\ failed' = [failed EXCEPT ![s] = failed[s] \/ Outcome = "crash"]
    <3>1. box'.output = <<box.case, Outcome>>
      <4>1. box \in Boxes
        BY DEF TypeInv, FileTypes
      <4> HIDE DEF Outcome
      <4> QED
        BY <2>4, <4>1 DEF Boxes
    <3>2. failed'[s] <=> failed[s] \/ Outcome = "crash"
      BY <1>1, <1>2, <2>4
    <3>3. ~failed[s] => Outcome = Program[s].case[TestOf(s)]
      <4>1. TestOf(s) # None
        BY <1>1, JudgeAssumption
      <4> QED
        BY <1>1, <2>2, <4>1 DEF Outcome
    <3>4. TestOf(s)' = TestOf(s)
      BY <1>0, <2>1 DEF TestOf
    <3>5. ~failed'[s] => OwnOutputs(s, cur[s])' /\ box'.output = OutputOf(s, TestOf(s)')
      <4>1. ~failed'[s] => OwnOutputs(s, cur[s])'
        BY <1>c, <2>1, <2>2, <3>2
      <4>2. ~failed'[s] => box'.output = OutputOf(s, TestOf(s)')
        BY <2>2, <3>1, <3>2, <3>3, <3>4 DEF OutputOf
      <4> QED
        BY <4>1, <4>2
    <3>6. failed'[s] => Troubled(s)'
      <4>1. CASE failed[s]
        BY <1>a, <2>2, <4>1
      <4>2. CASE ~failed[s] /\ Outcome = "crash"
        <5>1. Program[s].case[tests[s][cur[s] + 1]] = "crash"
          BY <3>3, <4>2 DEF TestOf
        <5>2. cur[s] + 1 \in 1..Len(tests[s])
          BY <1>1, <1>2
        <5>3. Crashes(s)
          BY <5>1, <5>2 DEF Crashes
        <5> QED
          BY <1>a, <5>3 DEF Troubled
      <4> QED
        BY <3>2, <4>1, <4>2
    <3> QED
      BY <1>0, <2>1, <2>2, <3>5, <3>6 DEF Own
  <2> QED
    BY <1>6, <2>3, <2>4 DEF BoxRun
<1>7. CASE CopyOut(s)
  <2> DEFINE NewOutputs(n) == \A i \in Indices : i < n =>
                                 out'[FileOf[s]][i] = OutputOf(s, tests[s][i + 1])
  <2>1. run[s] = "copyOut" /\ UNCHANGED exe
    BY <1>7 DEF CopyOut, At
  <2>2. /\ Program[s].compiles
        /\ exe[FileOf[s]] = s \/ (exe[FileOf[s]] = None /\ s \in hasty)
        /\ IF failed[s] THEN Troubled(s)
           ELSE OwnOutputs(s, cur[s]) /\ box.output = OutputOf(s, TestOf(s))
    BY <2>1 DEF Own
  <2>3. IF failed'[s] THEN Troubled(s)' ELSE NewOutputs(cur[s] + 1)
    <3>1. CASE CommandFails(s)
      BY <1>b, <3>1
    <3>2. CASE out' = [out EXCEPT ![FileOf[s]][cur[s]] = box.output] /\ UNCHANGED failed
      <4>1. CASE failed[s]
        BY <1>a, <2>2, <3>2, <4>1
      <4>2. CASE ~failed[s]
        <5>1. \A i \in Indices : i # cur[s] => out'[FileOf[s]][i] = out[FileOf[s]][i]
          BY <1>1, <1>2, <3>2
        <5>2. out'[FileOf[s]][cur[s]] = OutputOf(s, tests[s][cur[s] + 1])
          <6>1. out'[FileOf[s]][cur[s]] = box.output
            BY <1>1, <1>2, <3>2
          <6> QED
            BY <2>2, <4>2, <6>1 DEF TestOf
        <5>3. \A i \in Indices : i < cur[s] + 1 => i = cur[s] \/ (i < cur[s] /\ i # cur[s])
          BY <1>1, <1>2
        <5>4. \A i \in Indices : i < cur[s] + 1 =>
                 out'[FileOf[s]][i] = OutputOf(s, tests[s][i + 1])
          BY <2>2, <4>2, <5>1, <5>2, <5>3 DEF OwnOutputs
        <5> QED
          BY <3>2, <4>2, <5>4
      <4> QED
        BY <4>1, <4>2
    <3> QED
      BY <1>7, <3>1, <3>2 DEF CopyOut
  <2>5. CASE ~LastCase(s)
    <3>1. cur'[s] = cur[s] + 1 /\ run'[s] = "lock"
      BY <1>1, <1>2, <1>7, <2>5 DEF CopyOut, Goto
    <3>2. ~failed'[s] => OwnOutputs(s, cur[s])'
      BY <1>0, <2>3, <3>1 DEF OwnOutputs, OutputOf
    <3> QED
      BY <1>0, <2>1, <2>2, <2>3, <3>1, <3>2 DEF Own
  <2>6. CASE LastCase(s)
    <3>1. /\ cur[s] + 1 = total[s]
          /\ run'[s] = IF failed'[s] THEN "crashSet" ELSE "compare"
      BY <1>1, <1>2, <1>7, <2>6 DEF CopyOut, Goto, LastCase
    <3>2. ~failed'[s] => OwnOutputs(s, total[s])'
      BY <1>0, <2>3, <3>1 DEF OwnOutputs, OutputOf
    <3> QED
      BY <1>0, <2>2, <2>3, <3>1, <3>2 DEF Own
  <2> QED
    BY <2>5, <2>6
<1>8. CASE Compare(s) \/ Count(s) \/ ExpireCase(s)
  <2>1. /\ run[s] \in Comparing /\ run'[s] \in Comparing \cup {"rmSrc"}
        /\ UNCHANGED out
    BY <1>1, <1>2, <1>8 DEF Compare, Count, ExpireCase, At, Goto, fileVars
  <2>2. InTail(s) => run'[s] = "rmSrc"
    BY <1>1, <1>2, <1>8
       DEF Compare, Count, ExpireCase, At, Goto, InTail, TailSteps, LastCase
  <2>3. ~InTail(s) => OwnOutputs(s, total[s])'
    BY <1>0, <1>c, <2>1 DEF Own
  <2> QED
    BY <1>0, <2>1, <2>2, <2>3 DEF Own
<1>9. CASE SetCode(s) \/ ExpireCode(s) \/ RemoveSource(s) \/ RemoveExecutable(s)
  <2>1. \/ run[s] \in BrokenSteps /\ run'[s] \in BrokenSteps
        \/ run[s] \in CrashSteps /\ run'[s] \in CrashSteps
        \/ run'[s] \in {"rmSrc", "rmExe", "done"}
    BY <1>1, <1>2, <1>9 DEF SetCode, ExpireCode, RemoveSource, RemoveExecutable, At, Goto
  <2> QED
    BY <1>a, <2>1 DEF Own
<1> QED
  BY <1>3, <1>4, <1>5, <1>6, <1>7, <1>8, <1>9 DEF cpp_runner

\* A runner's step does not touch what another submission's verdict rests on, but for the
\* executable of a hasty one: the files of a calm file name are its own while it has no
\* verdict, and so is the sandbox while it is in it.
LEMMA RunnerLeavesOthers ==
    ASSUME TypeInv, AloneInv, HastyInv, LockInv, NEW s \in Subs, cpp_runner(s),
           NEW u \in running \ {s}, Calm(FileOf[u])
    PROVE  /\ run'[u] = run[u] /\ cur'[u] = cur[u] /\ total'[u] = total[u]
           /\ tests'[u] = tests[u] /\ built'[u] = built[u] /\ failed'[u] = failed[u]
           /\ \/ InTail(u)
              \/ /\ out'[FileOf[u]] = out[FileOf[u]]
                 /\ \/ exe'[FileOf[u]] = exe[FileOf[u]]
                    \/ exe'[FileOf[u]] = None /\ u \in hasty
           /\ InBox(u) => box' = box
<1>1. s \in running /\ u \in Subs /\ FileOf[u] \in Files /\ FileOf[s] \in Files
  BY RunnerFrame, RunnerFacts
<1>2. ~Ended(s) /\ ~Ended(u) /\ (InTail(s) <=> Judged(s)) /\ (InTail(u) <=> Judged(u))
  BY <1>1, RunnerFacts DEF Ended, Judged, InTail, TailSteps
<1>4. run'[u] = run[u] /\ cur'[u] = cur[u] /\ total'[u] = total[u] /\ tests'[u] = tests[u]
  BY <1>1, RunnerFrame
<1>5. DOMAIN built = Subs /\ DOMAIN failed = Subs /\ DOMAIN exe = Files /\ DOMAIN out = Files
  BY DEF TypeInv, FileTypes
<1>6. built'[u] = built[u] /\ failed'[u] = failed[u]
  BY <1>1, <1>5
     DEF cpp_runner, Compile, Link, BoxInit, CopyIn, BoxRun, CopyOut, Compare, Count,
         ExpireCase, SetCode, ExpireCode, RemoveSource, RemoveExecutable, CommandFails
<1>7. \/ InTail(u)
      \/ /\ out'[FileOf[u]] = out[FileOf[u]]
         /\ \/ exe'[FileOf[u]] = exe[FileOf[u]]
            \/ exe'[FileOf[u]] = None /\ u \in hasty
  <2>1. CASE FileOf[s] # FileOf[u]
    BY <1>1, <1>5, <2>1
       DEF cpp_runner, Compile, Link, BoxInit, CopyIn, BoxRun, CopyOut, Compare, Count,
           ExpireCase, SetCode, ExpireCode, RemoveSource, RemoveExecutable, fileVars
  <2>2. CASE FileOf[s] = FileOf[u] /\ ~InTail(u)
    <3>1. u \in hasty /\ InTail(s)
      BY <1>1, <1>2, <2>2 DEF AloneInv, HastyInv
    <3>2. UNCHANGED out /\ (UNCHANGED exe \/ exe' = [exe EXCEPT ![FileOf[s]] = None])
      BY <3>1
         DEF cpp_runner, Compile, Link, BoxInit, CopyIn, BoxRun, CopyOut, Compare, Count,
             ExpireCase, SetCode, ExpireCode, RemoveSource, RemoveExecutable, fileVars, At,
             InTail, TailSteps
    <3> QED
      BY <1>1, <1>5, <2>2, <3>1, <3>2
  <2> QED
    BY <2>1, <2>2
<1>8. ASSUME InBox(u) PROVE box' = box
  <2>1. lock = u /\ u # None
    BY <1>1, <1>8, JudgeAssumption DEF LockInv
  <2>2. ~InBox(s) /\ ~BoxInit(s)
    BY <1>1, <2>1 DEF LockInv, BoxInit, Unlocked
  <2> QED
    BY <2>2
       DEF cpp_runner, Compile, Link, CopyIn, BoxRun, CopyOut, Compare, Count, ExpireCase,
           SetCode, ExpireCode, RemoveSource, RemoveExecutable, InBox, At, sandboxVars
<1> QED
  BY <1>4, <1>6, <1>7, <1>8

\* Every step keeps what a runner has made of its own submission.
LEMMA VerdictStep ==
    ASSUME TypeInv, AloneInv, HastyInv, TextInv, StatusInv, LockInv, VerdictInv, [Next]_vars
    PROVE  VerdictInv'
<1> SUFFICES ASSUME NEW u \in running', Calm(FileOf[u]) PROVE Own(u)'
  BY DEF VerdictInv, Calm, SubsOf
<1>1. ASSUME u \in running, UNCHANGED <<fileVars, runnerVars, sandboxVars>> \/
               UNCHANGED <<exe, out, run, built, total, tests, cur, failed, lock, box>>
      PROVE  Own(u)'
  <2>1. u \in Subs /\ Own(u) /\ (LeftBehind(u) => LeftBehind(u)')
    BY <1>1, RunnerFacts, LeftBehindStays DEF VerdictInv
  <2> QED
    BY <1>1, <2>1, OwnStays, HastyGrows DEF fileVars, runnerVars, sandboxVars
<1>2. ASSUME NEW s \in Subs, cpp_runner(s) PROVE Own(u)'
  <2>1. u \in running /\ u \in Subs /\ (LeftBehind(u) => LeftBehind(u)')
    BY <1>2, RunnerFrame, RunnerFacts, LeftBehindStays
  <2>2. Own(u)
    BY <2>1 DEF VerdictInv
  <2>3. CASE u = s /\ Compile(s)
    BY <2>1, <2>3, CompileOwn
  <2>4. CASE u = s /\ ~Compile(s)
    BY <1>2, <2>1, <2>2, <2>4, RunnerOwn
  <2>5. CASE u # s
    BY <1>2, <2>1, <2>2, <2>5, RunnerLeavesOthers, OwnStays, HastyGrows
  <2> QED
    BY <2>3, <2>4, <2>5
<1>3. ASSUME NEW s \in Subs, Request(s) PROVE Own(u)'
  <2>1. running' = running /\ UNCHANGED <<exe, out, run, built, cur, failed, lock, box>>
    BY <1>3 DEF Request, Receive, SetSum, ExpireSum, TaskPush, TQ!Submit, poolVars, fileVars,
                runnerVars, sandboxVars
  <2>2. u \in Subs /\ req[u] = "accepted" /\ Own(u) /\ (LeftBehind(u) => LeftBehind(u)')
    BY <2>1, RunnerFacts, LeftBehindStays DEF VerdictInv
  <2>3. total'[u] = total[u] /\ tests'[u] = tests[u]
    BY <1>3, <2>2 DEF Request, Receive, SetSum, ExpireSum, TaskPush, runnerVars, TypeInv,
                      ControlInv, ControlTypes
  <2> QED
    BY <2>1, <2>2, <2>3, OwnStays, HastyGrows
<1>4. ASSUME NEW p \in Polls, runState(p) PROVE Own(u)'
  BY <1>1, <1>4 DEF runState, PollSum, PollCase, PollInsert, PollDel, poolVars
<1>5. CASE UNCHANGED vars \/ \E f \in Files : ChangeCases(f) \/ \E k \in Keys : KeyExpires(f, k)
  BY <1>1, <1>5 DEF vars, ChangeCases, KeyExpires, poolVars
<1>6. CASE Start
  <2>1. /\ Len(pending) > 0 /\ running' = running \cup {pending[1]}
        /\ UNCHANGED <<fileVars, runnerVars, sandboxVars>>
    BY <1>6 DEF Start, TQ!Start, TypeInv, ControlInv, ControlTypes
  <2>2. run'[pending[1]] = "compile"
    <3>1. run[pending[1]] = "compile"
      BY <2>1 DEF TypeInv, ControlInv, ControlTypes, QueueInv
    <3> QED
      BY <2>1, <3>1 DEF runnerVars
  <2>3. CASE u \in running
    BY <1>1, <2>1, <2>3
  <2>4. CASE u = pending[1]
    BY <2>2, <2>4 DEF Own, BrokenSteps, Judging, Comparing, CrashSteps
  <2> QED
    BY <2>1, <2>3, <2>4
<1>7. CASE Restart
  BY <1>7 DEF Restart
<1> QED
  BY <1>2, <1>3, <1>4, <1>5, <1>6, <1>7 DEF Next

\* The invariant of the verdicts holds in every state.
LEMMA VerdictInvHolds == Spec => [](TypeInv /\ AloneInv /\ HastyInv /\ VerdictInv)
<1> DEFINE Inv == AloneInv /\ HastyInv /\ TextInv /\ StatusInv /\ VerdictInv
<1>1. Init => Inv
  <2> SUFFICES ASSUME Init PROVE Inv
    OBVIOUS
  <2>1. AloneInv /\ HastyInv
    BY DEF Init, AloneInv, HastyInv, Judged, Ended
  <2>2. TextInv
    BY JudgeAssumption DEF Init, TextInv, HasSource, SubsOf
  <2>3. StatusInv /\ VerdictInv
    BY DEF Init, TQ!Init, StatusInv, VerdictInv
  <2> QED
    BY <2>1, <2>2, <2>3
<1>2. TypeInv /\ LockInv /\ Inv /\ [Next]_vars => Inv'
  BY AloneStep, TextStep, StatusStep, VerdictStep
<1> HIDE DEF Inv
<1>3. Inv => AloneInv /\ HastyInv /\ VerdictInv
  BY DEF Inv
<1> QED
  BY <1>1, <1>2, <1>3, TypeInvHolds, LockInvHolds, PTL DEF Spec

\* The invariant says that the verdict is fair.
LEMMA OwnIsFair ==
    ASSUME TypeInv, VerdictInv, NEW s \in running, Calm(FileOf[s])
    PROVE  JudgedFairly(s)
<1>1. Own(s) /\ total[s] \in 1..MaxRows
  BY RunnerFacts DEF VerdictInv
<1>2. ASSUME run[s] \in {"compare", "count"}, NEW n \in 1..total[s]
      PROVE  out[FileOf[s]][n - 1] = OutputOf(s, tests[s][n])
  <2>1. n - 1 \in Indices /\ n - 1 < total[s] /\ (n - 1) + 1 = n
    BY <1>1, JudgeAssumption DEF Indices
  <2>2. OwnOutputs(s, total[s])
    BY <1>1, <1>2 DEF Own, Comparing, InTail, TailSteps
  <2>3. out[FileOf[s]][n - 1] = OutputOf(s, tests[s][(n - 1) + 1])
    BY <2>1, <2>2 DEF OwnOutputs
  <2> QED
    BY <2>1, <2>3
<1>3. run[s] \in BrokenSteps => ~Program[s].compiles \/ LeftBehind(s) \/ s \in hasty
  BY <1>1 DEF Own, Excused
<1>4. run[s] \in CrashSteps =>
         Program[s].compiles /\ (Crashes(s) \/ s \in Failing \cup hasty)
  BY <1>1 DEF Own, Troubled
<1> QED
  BY <1>2, <1>3, <1>4 DEF JudgedFairly, BrokenSteps, CrashSteps

\* Every submission is judged by what it does itself, when nobody submits to a problem
\* again before the verdict is there, though perhaps before the files are removed:
\* whatever other users do, whatever restarts leave behind, whichever queries and
\* commands fail and however the rows of the test cases change.
THEOREM VerdictsAreOwnHolds ==
    ASSUME ~Overlap
    PROVE  Spec => []VerdictsAreOwn
<1>1. TypeInv /\ VerdictInv => VerdictsAreOwn
  BY OwnIsFair DEF VerdictsAreOwn, Calm
<1> QED
  BY <1>1, VerdictInvHolds, PTL

\* A user who submits once to a problem is judged by what the submission does, however
\* other submissions overlap.
THEOREM OthersDoNoHarmHolds == Spec => []OthersDoNoHarm
<1>1. TypeInv /\ VerdictInv => OthersDoNoHarm
  <2> SUFFICES ASSUME TypeInv, VerdictInv, NEW s \in running, SubsOf(FileOf[s]) = {s}
               PROVE  JudgedFairly(s)
    BY DEF OthersDoNoHarm
  <2>1. Calm(FileOf[s])
    BY RunnerFacts DEF Calm
  <2> QED
    BY <2>1, OwnIsFair
<1> QED
  BY <1>1, VerdictInvHolds, PTL
=============================================================================
