------------------------------ MODULE RuntimeProofs ------------------------------
(***************************************************************************)
(* Proof that the workers end up with the mapfile on disk (QuietIsServed   *)
(* of Runtime), for any number of overlapping requests and any settings,   *)
(* when a stop does not fail; a failed write, start or update is what the  *)
(* history cut is for.                                                     *)
(***************************************************************************)
EXTENDS Runtime, TLAPS, SequenceTheorems

\* A mapfile that is truncated is written next, then the workers are stopped
\* and then they are started.
Restarting == {"clear map", "write map", "stop"}
Then(step) == CASE step = "clear map" -> "write map"
                [] step = "write map" -> "stop"
                [] OTHER -> "start"

Shape(s) == \A i \in 1 .. Len(s) : s[i] \in Restarting => i < Len(s) /\ s[i + 1] = Then(s[i])

TodoInv == todo \in [Thread -> Seq(Step)] /\ \A t \in Thread : Shape(todo[t])

\* The mapfile is served, or a thread is about to write it or to stop the
\* workers, or they are down and a thread or supervisord is about to start them.
OwedInv ==
    \/ cut
    \/ up /\ serving = mapfile
    \/ \E t \in Thread : At(t, "write map") \/ At(t, "stop")
    \/ ~up /\ (boot \/ \E t \in Thread : At(t, "start"))

IInv == TodoInv /\ OwedInv

-----------------------------------------------------------------------------
(* Scripts *)

\* A step taken leaves a script of the same shape, whose head is the step that
\* the shape demands.
LEMMA ShapeTail ==
    ASSUME NEW s \in Seq(Step), s # << >>, Shape(s)
    PROVE  /\ Tail(s) \in Seq(Step) /\ Shape(Tail(s))
           /\ Head(s) \in Restarting => Tail(s) # << >> /\ Head(Tail(s)) = Then(Head(s))
  <1>1. Len(s) \in Nat /\ Len(s) > 0 /\ Head(s) = s[1] /\ Tail(s) \in Seq(Step)
    OBVIOUS
  <1>2. Len(Tail(s)) = Len(s) - 1 /\ \A i \in 1 .. Len(s) - 1 : Tail(s)[i] = s[i + 1]
    BY <1>1
  <1> DEFINE tail == Tail(s)
  <1>3. Shape(tail)
    <2> SUFFICES ASSUME NEW i \in 1 .. Len(tail), tail[i] \in Restarting
                 PROVE  i < Len(tail) /\ tail[i + 1] = Then(tail[i])
      BY DEF Shape
    <2>1. i \in 1 .. Len(s) - 1 /\ i + 1 \in 1 .. Len(s) /\ tail[i] = s[i + 1]
      BY <1>1, <1>2
    <2>2. i + 1 < Len(s) /\ s[(i + 1) + 1] = Then(s[i + 1])
      BY <2>1 DEF Shape
    <2>3. i < Len(tail) /\ tail[i + 1] = s[(i + 1) + 1]
      <3>1. i + 1 \in 1 .. Len(s) - 1 /\ i < Len(tail)
        BY <1>1, <1>2, <2>1, <2>2
      <3> QED
        BY <1>2, <3>1
    <2> HIDE DEF tail
    <2> QED
      BY <2>1, <2>2, <2>3
  <1>4. Len(s) > 1 => Tail(s) # << >> /\ Head(Tail(s)) = s[2]
    <2> SUFFICES ASSUME Len(s) > 1
                 PROVE  Tail(s) # << >> /\ Head(Tail(s)) = s[2]
      OBVIOUS
    <2>1. 1 \in 1 .. Len(s) - 1
      BY <1>1
    <2>2. Tail(s)[1] = s[2] /\ Len(Tail(s)) # 0
      BY <1>1, <1>2, <2>1
    <2>3. Tail(s) # << >>
      <3>1. Len(<< >>) = 0
        OBVIOUS
      <3> QED
        BY <2>2, <3>1
    <2>4. \A seq \in Seq(Step) : seq # << >> => Head(seq) = seq[1]
      OBVIOUS
    <2> QED
      BY <1>1, <2>2, <2>3, <2>4
  <1>5. s[1] \in Restarting => 1 < Len(s) /\ s[2] = Then(s[1])
    <2>1. 1 \in 1 .. Len(s) /\ 1 + 1 = 2
      BY <1>1
    <2> QED
      BY <2>1 DEF Shape
  <1> QED
    BY <1>1, <1>3, <1>4, <1>5

\* Scripts of that shape make one when they are joined.
LEMMA ShapeJoin ==
    ASSUME NEW a \in Seq(Step), NEW b \in Seq(Step), Shape(a), Shape(b)
    PROVE  a \o b \in Seq(Step) /\ Shape(a \o b)
  <1> DEFINE ab == a \o b
  <1>1. /\ ab \in Seq(Step) /\ Len(a) \in Nat /\ Len(b) \in Nat /\ Len(ab) = Len(a) + Len(b)
        /\ \A i \in 1 .. Len(a) : ab[i] = a[i]
        /\ \A i \in 1 .. Len(b) : ab[Len(a) + i] = b[i]
    OBVIOUS
  <1> HIDE DEF ab
  <1> SUFFICES ASSUME NEW i \in 1 .. Len(ab), ab[i] \in Restarting
               PROVE  i < Len(ab) /\ ab[i + 1] = Then(ab[i])
    BY <1>1 DEF Shape, ab
  <1>2. CASE i \in 1 .. Len(a)
    <2>1. i < Len(a) /\ a[i + 1] = Then(a[i])
      BY <1>1, <1>2 DEF Shape
    <2>2. i + 1 \in 1 .. Len(a) /\ i < Len(ab)
      BY <1>1, <1>2, <2>1
    <2> QED
      BY <1>1, <1>2, <2>1, <2>2
  <1>3. CASE i \notin 1 .. Len(a)
    <2>1. PICK j \in 1 .. Len(b) : i = Len(a) + j
      <3>1. i - Len(a) \in 1 .. Len(b) /\ i = Len(a) + (i - Len(a))
        BY <1>1, <1>3
      <3> QED
        BY <3>1
    <2>2. ab[i] = b[j]
      BY <1>1, <2>1
    <2>3. j < Len(b) /\ b[j + 1] = Then(b[j])
      BY <2>2 DEF Shape
    <2>4. i < Len(ab) /\ ab[i + 1] = b[j + 1]
      <3>1. j + 1 \in 1 .. Len(b) /\ i + 1 = Len(a) + (j + 1) /\ i < Len(ab)
        BY <1>1, <2>1, <2>3
      <3> QED
        BY <1>1, <3>1
    <2> QED
      BY <2>2, <2>3, <2>4
  <1> QED
    BY <1>2, <1>3

LEMMA UpToFive == \A i \in 1 .. 5 : i = 1 \/ i = 2 \/ i = 3 \/ i = 4 \/ i = 5
  OBVIOUS

LEMMA UpToSix == \A i \in 1 .. 6 : i = 1 \/ i = 2 \/ i = 3 \/ i = 4 \/ i = 5 \/ i = 6
  OBVIOUS

LEMMA OneToFour == 1 \in Nat /\ 2 \in Nat /\ 3 \in Nat /\ 4 \in Nat
  OBVIOUS

LEMMA Successors == /\ 1 + 1 = 2 /\ 2 + 1 = 3 /\ 3 + 1 = 4 /\ 4 + 1 = 5 /\ 5 + 1 = 6
                    /\ 1 < 5 /\ 2 < 5 /\ 3 < 5 /\ 4 < 5
                    /\ 1 < 6 /\ 2 < 6 /\ 3 < 6 /\ 4 < 6 /\ 5 < 6
  OBVIOUS

LEMMA ShortIndex ==
    ASSUME NEW n \in Nat, NEW i \in 1 .. n
    PROVE  /\ n = 1 => i = 1
           /\ n = 2 => i = 1 \/ i = 2
           /\ n = 3 => i = 1 \/ i = 2 \/ i = 3
           /\ n = 4 => i = 1 \/ i = 2 \/ i = 3 \/ i = 4
  OBVIOUS

\* A script that writes no mapfile and stops no worker has the shape.
LEMMA PlainShape ==
    ASSUME NEW s, NEW n \in Nat, Len(s) = n,
           \/ n = 1 /\ s[1] = "reply"
           \/ n = 2 /\ s[1] = "write nginx" /\ s[2] = "reload nginx"
           \/ n = 3 /\ s[1] = "write numprocs" /\ s[2] = "update" /\ s[3] = "reply"
           \/ n = 4 /\ s[1] = "read" /\ s[2] = "truncate" /\ s[3] = "save" /\ s[4] = "reply"
    PROVE  Shape(s)
  <1> SUFFICES ASSUME NEW i \in 1 .. n
               PROVE  s[i] \notin Restarting
    BY DEF Shape
  <1> QED
    BY ShortIndex DEF Restarting

\* One that writes, stops and starts has it, too.
LEMMA RestartShape ==
    ASSUME NEW s,
           s[2] = "clear map" /\ s[3] = "write map" /\ s[4] = "stop" /\ s[5] = "start",
           \/ Len(s) = 5 /\ s[1] = "read map"
           \/ Len(s) = 6 /\ s[1] = "generate" /\ s[6] = "reply"
    PROVE  Shape(s)
  <1>1. CASE Len(s) = 5
    <2> SUFFICES ASSUME NEW i \in 1 .. 5, s[i] \in Restarting
                 PROVE  i < 5 /\ s[i + 1] = Then(s[i])
      BY <1>1 DEF Shape
    <2> QED
      BY <1>1, UpToFive, Successors DEF Restarting, Then
  <1>2. CASE Len(s) = 6
    <2> SUFFICES ASSUME NEW i \in 1 .. 6, s[i] \in Restarting
                 PROVE  i < 6 /\ s[i + 1] = Then(s[i])
      BY <1>2 DEF Shape
    <2> QED
      BY <1>2, UpToSix, Successors DEF Restarting, Then
  <1> QED
    BY <1>1, <1>2

\* The scripts of the requests have the shape.
LEMMA ScriptShape ==
    ASSUME NEW r \in Request
    PROVE  Script[r.kind] \in Seq(Step) /\ Shape(Script[r.kind])
  <1>1. r.kind \in {"settings", "rebuild", "numprocs"}
    BY DEF Request
  <1> DEFINE a == <<"read", "truncate", "save", "reply">>
             b == <<"generate", "clear map", "write map", "stop", "start", "reply">>
             c == <<"write numprocs", "update", "reply">>
  <1>2. Script["settings"] = a /\ Script["rebuild"] = b /\ Script["numprocs"] = c
    BY DEF Script
  <1>3. a \in Seq(Step) /\ b \in Seq(Step) /\ c \in Seq(Step)
    BY DEF Step
  <1>4. Shape(a)
    <2>1. Len(a) = 4 /\ a[1] = "read" /\ a[2] = "truncate" /\ a[3] = "save" /\ a[4] = "reply"
      OBVIOUS
    <2> QED
      BY <2>1, PlainShape, OneToFour
  <1>5. Shape(b)
    <2>1. /\ Len(b) = 6 /\ b[1] = "generate" /\ b[2] = "clear map" /\ b[3] = "write map"
          /\ b[4] = "stop" /\ b[5] = "start" /\ b[6] = "reply"
      OBVIOUS
    <2> QED
      BY <2>1, RestartShape
  <1>6. Shape(c)
    <2>1. Len(c) = 3 /\ c[1] = "write numprocs" /\ c[2] = "update" /\ c[3] = "reply"
      OBVIOUS
    <2> QED
      BY <2>1, PlainShape, OneToFour
  <1> HIDE DEF a, b, c
  <1> QED
    BY <1>1, <1>2, <1>3, <1>4, <1>5, <1>6

\* And so has what is left of a settings request once the file is saved.
LEMMA ChangesShape ==
    ASSUME NEW old, NEW new
    PROVE  /\ Changes(old, new) \o <<"reply">> \in Seq(Step)
           /\ Shape(Changes(old, new) \o <<"reply">>)
  <1>1. TuneScript \in Seq(Step) /\ Shape(TuneScript)
    <2>1. /\ Len(TuneScript) = 5 /\ TuneScript[1] = "read map" /\ TuneScript[2] = "clear map"
          /\ TuneScript[3] = "write map" /\ TuneScript[4] = "stop" /\ TuneScript[5] = "start"
      BY DEF TuneScript
    <2>2. TuneScript \in Seq(Step)
      BY DEF TuneScript, Step
    <2> QED
      BY <2>1, <2>2, RestartShape
  <1>2. NginxScript \in Seq(Step) /\ Shape(NginxScript)
    <2>1. Len(NginxScript) = 2 /\ NginxScript[1] = "write nginx" /\ NginxScript[2] = "reload nginx"
      BY DEF NginxScript
    <2>2. NginxScript \in Seq(Step)
      BY DEF NginxScript, Step
    <2> QED
      BY <2>1, <2>2, PlainShape, OneToFour
  <1>3. << >> \in Seq(Step) /\ Shape(<< >>)
    BY DEF Shape
  <1>4. <<"reply">> \in Seq(Step) /\ Shape(<<"reply">>)
    <2> DEFINE last == <<"reply">>
    <2>1. Len(last) = 1 /\ last[1] = "reply"
      OBVIOUS
    <2>2. last \in Seq(Step)
      BY DEF Step
    <2> HIDE DEF last
    <2>3. Shape(last)
      BY <2>1, PlainShape, OneToFour
    <2> QED
      BY <2>2, <2>3 DEF last
  <1> DEFINE tune == IF old.tune # new.tune THEN TuneScript ELSE << >>
             cache == IF old.cache # new.cache THEN NginxScript ELSE << >>
  <1>5. tune \in Seq(Step) /\ Shape(tune)
    BY <1>1, <1>3
  <1>6. cache \in Seq(Step) /\ Shape(cache)
    BY <1>2, <1>3
  <1> HIDE DEF tune, cache
  <1>7. tune \o cache \in Seq(Step) /\ Shape(tune \o cache)
    BY <1>5, <1>6, ShapeJoin
  <1>8. Changes(old, new) = tune \o cache
    BY DEF Changes, tune, cache
  <1> QED
    BY <1>4, <1>7, <1>8, ShapeJoin

-----------------------------------------------------------------------------
(* The steps that are left *)

Others(t) == \A u \in Thread \ {t} : todo'[u] = todo[u]

\* A thread that goes on has taken the head of its script, and the shape says
\* what comes next.
LEMMA GoesOn ==
    ASSUME TodoInv, NEW t \in Thread, Busy(t), Goes(t)
    PROVE  /\ TodoInv' /\ Others(t)
           /\ At(t, "clear map") => At(t, "write map")'
           /\ At(t, "write map") => At(t, "stop")'
           /\ At(t, "stop") => At(t, "start")'
  <1>1. /\ todo' = [todo EXCEPT ![t] = Tail(todo[t])]
        /\ todo \in [Thread -> Seq(Step)] /\ todo[t] # << >> /\ todo[t] \in Seq(Step) /\ Shape(todo[t])
    BY DEF TodoInv, Goes, Busy
  <1>2. todo'[t] = Tail(todo[t]) /\ Others(t)
    BY <1>1 DEF Others
  <1>3. /\ Tail(todo[t]) \in Seq(Step) /\ Shape(Tail(todo[t]))
        /\ Head(todo[t]) \in Restarting =>
              Tail(todo[t]) # << >> /\ Head(Tail(todo[t])) = Then(Head(todo[t]))
    BY <1>1, ShapeTail
  <1>4. TodoInv'
    BY <1>1, <1>2, <1>3 DEF TodoInv, Others
  <1>5. ASSUME Head(todo[t]) \in Restarting
        PROVE  todo'[t] # << >> /\ Head(todo'[t]) = Then(Head(todo[t]))
    BY <1>2, <1>3, <1>5
  <1>6. ASSUME NEW step \in Restarting, At(t, step)
        PROVE  todo'[t] # << >> /\ Head(todo'[t]) = Then(step)
    BY <1>5, <1>6 DEF At
  <1>7. /\ At(t, "clear map") => todo'[t] # << >> /\ Head(todo'[t]) = "write map"
        /\ At(t, "write map") => todo'[t] # << >> /\ Head(todo'[t]) = "stop"
        /\ At(t, "stop") => todo'[t] # << >> /\ Head(todo'[t]) = "start"
    BY <1>6 DEF Restarting, Then
  <1> QED
    BY <1>2, <1>4, <1>7 DEF At, Busy

\* A thread that ends has nothing left to do.
LEMMA EndsThere ==
    ASSUME TodoInv, NEW t \in Thread, Ends(t)
    PROVE  TodoInv' /\ Others(t)
  <1>1. << >> \in Seq(Step) /\ Shape(<< >>)
    BY DEF Shape
  <1>2. todo' = [todo EXCEPT ![t] = << >>] /\ todo \in [Thread -> Seq(Step)]
    BY DEF TodoInv, Ends
  <1> QED
    BY <1>1, <1>2 DEF TodoInv, Others

\* When all threads end, too.
LEMMA AllEnd ==
    ASSUME ThreadsEnd
    PROVE  TodoInv'
  <1>1. << >> \in Seq(Step) /\ Shape(<< >>)
    BY DEF Shape
  <1> QED
    BY <1>1 DEF TodoInv, ThreadsEnd

\* A thread that neither stops nor starts the workers, and changes neither
\* them nor the mapfile, leaves the debt to whoever has it.
LEMMA Bystander ==
    ASSUME OwedInv, NEW t \in Thread, Others(t),
           ~At(t, "write map"), ~At(t, "stop"), ~At(t, "start"),
           UNCHANGED <<up, serving, mapfile, boot>>, cut => cut'
    PROVE  OwedInv'
  BY DEF OwedInv, Others, At, Busy

-----------------------------------------------------------------------------
(* The invariant *)

LEMMA InitOwed == Init => IInv
  <1>1. << >> \in Seq(Step) /\ Shape(<< >>)
    BY DEF Shape
  <1> QED
    BY <1>1 DEF Init, IInv, TodoInv, OwedInv

LEMMA StepOwed ==
    ASSUME "stop" \notin FaultSteps, IInv, [Next]_vars
    PROVE  IInv'
  <1> USE DEF files, running, local
  <1>0. TodoInv /\ OwedInv
    BY DEF IInv
  <1>1. ASSUME NEW t \in Thread, Arrive(t)
        PROVE  IInv'
    <2>1. PICK r \in Request : todo' = [todo EXCEPT ![t] = Script[r.kind]]
      BY <1>1 DEF Arrive
    <2>2. TodoInv' /\ Others(t)
      BY <1>0, <2>1, ScriptShape DEF TodoInv, Others
    <2>3. OwedInv'
      BY <1>0, <1>1, <2>2, Bystander DEF Arrive, At
    <2> QED
      BY <2>2, <2>3 DEF IInv
  <1>2. ASSUME NEW t \in Thread, SaveConfig(t)
        PROVE  IInv'
    <2>1. /\ Changes(previous[t], Saved(t)) \o <<"reply">> \in Seq(Step)
          /\ Shape(Changes(previous[t], Saved(t)) \o <<"reply">>)
      BY ChangesShape
    <2>2. TodoInv' /\ Others(t)
      BY <1>0, <1>2, <2>1 DEF SaveConfig, TodoInv, Others
    <2>3. OwedInv'
      BY <1>0, <1>2, <2>2, Bystander DEF SaveConfig, At
    <2> QED
      BY <2>2, <2>3 DEF IInv
  <1>3. ASSUME NEW t \in Thread,
               \/ ReadConfig(t) \/ TruncateConfig(t) \/ ReadMapfile(t) \/ Generate(t)
               \/ WriteNginx(t) \/ ReloadNginx(t) \/ WriteNumprocs(t)
        PROVE  IInv'
    <2>1. /\ Busy(t) /\ Goes(t) /\ ~At(t, "write map") /\ ~At(t, "stop") /\ ~At(t, "start")
          /\ UNCHANGED <<up, serving, mapfile, boot, cut>>
      BY <1>3 DEF ReadConfig, TruncateConfig, ReadMapfile, Generate, WriteNginx, ReloadNginx,
                  WriteNumprocs, At
    <2>2. TodoInv' /\ Others(t)
      BY <1>0, <2>1, GoesOn
    <2>3. OwedInv'
      BY <1>0, <2>1, <2>2, Bystander
    <2> QED
      BY <2>2, <2>3 DEF IInv
  <1>4. ASSUME NEW t \in Thread, Reply(t)
        PROVE  IInv'
    <2>1. /\ Ends(t) /\ ~At(t, "write map") /\ ~At(t, "stop") /\ ~At(t, "start")
          /\ UNCHANGED <<up, serving, mapfile, boot, cut>>
      BY <1>4 DEF Reply, At
    <2> QED
      BY <1>0, <2>1, EndsThere, Bystander DEF IInv
  <1>5. ASSUME NEW t \in Thread, ClearMapfile(t) \/ WriteMapfile(t)
        PROVE  IInv'
    <2>1. Busy(t) /\ Goes(t) /\ (At(t, "clear map") \/ At(t, "write map"))
      BY <1>5 DEF ClearMapfile, WriteMapfile, At
    <2>2. TodoInv' /\ (At(t, "write map")' \/ At(t, "stop")')
      BY <1>0, <2>1, GoesOn
    <2> QED
      BY <2>2 DEF IInv, OwedInv
  <1>6. ASSUME NEW t \in Thread, Stop(t)
        PROVE  IInv'
    <2>1. Busy(t) /\ Goes(t) /\ At(t, "stop") /\ ~up'
      BY <1>6 DEF Stop, At
    <2>2. TodoInv' /\ At(t, "start")'
      BY <1>0, <2>1, GoesOn
    <2> QED
      BY <2>1, <2>2 DEF IInv, OwedInv
  <1>7. ASSUME NEW t \in Thread, Start(t)
        PROVE  IInv'
    <2>1. Busy(t) /\ Goes(t) /\ At(t, "start") /\ ~At(t, "write map") /\ ~At(t, "stop")
      BY <1>7 DEF Start, At
    <2>2. TodoInv' /\ Others(t)
      BY <1>0, <2>1, GoesOn
    <2>3. /\ up' /\ mapfile' = mapfile
          /\ ~up => serving' = mapfile
          /\ up => serving' = serving /\ (cut => cut')
      BY <1>7 DEF Start
    <2>4. OwedInv'
      BY <1>0, <2>1, <2>2, <2>3 DEF OwedInv, Others, At, Busy
    <2> QED
      BY <2>2, <2>4 DEF IInv
  <1>8. ASSUME NEW t \in Thread, Fail(t)
        PROVE  IInv'
    <2>1. /\ Ends(t) /\ ~At(t, "stop") /\ UNCHANGED <<serving, mapfile, boot>>
          /\ up' = up \/ At(t, "update")
          /\ cut' = (cut \/ At(t, "write map") \/ At(t, "start") \/ At(t, "update"))
      BY <1>8 DEF Fail, Fails, At
    <2>2. TodoInv' /\ Others(t)
      BY <1>0, <2>1, EndsThere
    <2>3. CASE At(t, "write map") \/ At(t, "start") \/ At(t, "update")
      BY <2>1, <2>2, <2>3 DEF IInv, OwedInv
    <2>4. CASE ~(At(t, "write map") \/ At(t, "start") \/ At(t, "update"))
      <3>1. UNCHANGED <<up, serving, mapfile, boot>> /\ (cut => cut')
        BY <2>1, <2>4
      <3>2. ~At(t, "write map") /\ ~At(t, "stop") /\ ~At(t, "start") /\ Others(t)
        BY <2>1, <2>2, <2>4
      <3>3. OwedInv'
        BY <1>0, <3>1, <3>2, Bystander
      <3> QED
        BY <2>2, <3>3 DEF IInv
    <2> QED
      BY <2>3, <2>4
  <1>9. ASSUME NEW t \in Thread, UpdateGroup(t)
        PROVE  IInv'
    <2>1. /\ Busy(t) /\ (Goes(t) \/ Ends(t))
          /\ ~At(t, "write map") /\ ~At(t, "stop") /\ ~At(t, "start")
      BY <1>9 DEF UpdateGroup, At
    <2>2. TodoInv' /\ Others(t)
      BY <1>0, <2>1, GoesOn, EndsThere
    <2>3. CASE workers = numprocs
      <3>1. UNCHANGED <<up, serving, mapfile, boot>> /\ (cut => cut')
        BY <1>9, <2>3 DEF UpdateGroup
      <3>2. OwedInv'
        BY <1>0, <2>1, <2>2, <3>1, Bystander
      <3> QED
        BY <2>2, <3>2 DEF IInv
    <2>4. CASE workers # numprocs
      BY <1>9, <2>2, <2>4 DEF UpdateGroup, IInv, OwedInv
    <2> QED
      BY <2>3, <2>4
  <1>10. ASSUME Autostart
         PROVE  IInv'
    BY <1>0, <1>10 DEF Autostart, IInv, TodoInv, OwedInv, At, Busy
  <1>11. ASSUME AdminEnds
         PROVE  IInv'
    <2>1. TodoInv'
      BY <1>11, AllEnd DEF AdminEnds
    <2>2. OwedInv'
      BY <1>0, <1>11 DEF AdminEnds, OwedInv, Quiet, At
    <2> QED
      BY <2>1, <2>2 DEF IInv
  <1>12. ASSUME AdminStart
         PROVE  IInv'
    BY <1>0, <1>12 DEF AdminStart, IInv, TodoInv, OwedInv, At, Busy
  <1>13. ASSUME ContainerRestart
         PROVE  IInv'
    BY <1>13, AllEnd DEF ContainerRestart, IInv, OwedInv
  <1>15. ASSUME AdminStartEnds
         PROVE  IInv'
    <2>1. /\ UNCHANGED <<todo, up, serving, boot>>
          /\ cut' \/ UNCHANGED <<mapfile, cut>>
      BY <1>15 DEF AdminStartEnds
    <2>2. TodoInv'
      BY <1>0, <2>1 DEF TodoInv
    <2>3. OwedInv'
      BY <1>0, <2>1 DEF OwedInv, At, Busy
    <2> QED
      BY <2>2, <2>3 DEF IInv
  <1>14. ASSUME UNCHANGED vars
         PROVE  IInv'
    BY <1>0, <1>14 DEF vars, IInv, TodoInv, OwedInv, At, Busy
  <1> QED
    BY <1>1, <1>2, <1>3, <1>4, <1>5, <1>6, <1>7, <1>8, <1>9, <1>10, <1>11, <1>12, <1>13, <1>14,
       <1>15
    DEF Next, RequestStep

\* In every behaviour whoever owes the workers the mapfile on disk is on the
\* way, whatever requests overlap and whichever commands but the stop fail.
THEOREM Invariant ==
    ASSUME "stop" \notin FaultSteps
    PROVE  Spec => []IInv
  BY InitOwed, StepOwed, PTL DEF Spec

\* restart_mapserver_group leaves, however its two commands interleave with
\* those of other requests, the workers running with the mapfile on disk.
THEOREM EventuallyServed ==
    ASSUME "stop" \notin FaultSteps
    PROVE  Spec => []QuietIsServed
  <1>1. IInv => QuietIsServed
    BY DEF IInv, OwedInv, QuietIsServed, Quiet, At
  <1> QED
    BY <1>1, Invariant, PTL
=============================================================================
