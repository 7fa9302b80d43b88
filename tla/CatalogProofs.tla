------------------------------ MODULE CatalogProofs ------------------------------
(***************************************************************************)
(* Proofs about Catalog: types for any tasks and threads, and what holds   *)
(* when requests do not overlap.                                           *)
(***************************************************************************)
EXTENDS Catalog, TLAPS, SequenceTheorems

-----------------------------------------------------------------------------
(* The order of the steps *)

StepsOf(k) ==
    CASE k = "toggle" -> {"truncate", "write", "sync", "runtime", "layers", "clear", "render",
                          "stop", "start", "reply"}
      [] k = "delete" -> {"rows", "truncate", "write", "sync", "runtime", "layers", "clear",
                          "render", "stop", "start", "reply"}
      [] k = "scan" -> {"index", "read", "truncate", "write", "layers", "clear", "render", "sync",
                        "stop", "start", "reply"}
      [] OTHER -> {"runtime", "reply"}

Following(k, s) ==
    CASE s = "index" -> "read"
      [] s \in {"read", "rows"} -> "truncate"
      [] s = "truncate" -> "write"
      [] s = "write" -> IF k = "scan" THEN "layers" ELSE "sync"
      [] s = "sync" -> IF k = "scan" THEN "stop" ELSE "runtime"
      [] s = "runtime" -> IF k = "activate" THEN "reply" ELSE "layers"
      [] s = "layers" -> "clear"
      [] s = "clear" -> "render"
      [] s = "render" -> IF k = "scan" THEN "sync" ELSE "stop"
      [] s = "stop" -> "start"
      [] OTHER -> "reply"

\* What is left of the script of a request.
Shape(k, s) ==
    /\ s # << >>
    /\ \A i \in 1 .. Len(s) :
          /\ s[i] \in StepsOf(k)
          /\ IF i = Len(s) THEN s[i] = "reply"
             ELSE s[i] # "reply" /\ s[i + 1] = Following(k, s[i])

AllSteps == {"rows", "index", "read", "truncate", "write", "sync", "runtime", "layers", "clear",
             "render", "stop", "start", "reply"}

LEMMA KindIs == Kind = {"toggle", "delete", "scan", "activate"}
  BY DEF Kind, Script

\* A step taken leaves the rest of the script, and the order says what its
\* first step is.
LEMMA ShapeTail ==
    ASSUME NEW k, NEW s \in Seq(AllSteps), Shape(k, s)
    PROVE  /\ Head(s) \in StepsOf(k) /\ Tail(s) \in Seq(AllSteps)
           /\ Head(s) = "reply" => Tail(s) = << >>
           /\ Head(s) # "reply" => Shape(k, Tail(s)) /\ Head(Tail(s)) = Following(k, Head(s))
<1>1. Len(s) \in Nat /\ Len(s) > 0 /\ Head(s) = s[1] /\ Tail(s) \in Seq(AllSteps)
  BY DEF Shape
<1>2. Len(Tail(s)) = Len(s) - 1 /\ \A i \in 1 .. Len(s) - 1 : Tail(s)[i] = s[i + 1]
  BY <1>1
<1>3. s[1] \in StepsOf(k) /\ IF 1 = Len(s) THEN s[1] = "reply"
                             ELSE s[1] # "reply" /\ s[1 + 1] = Following(k, s[1])
  <2>1. 1 \in 1 .. Len(s)
    BY <1>1
  <2> QED
    BY <2>1 DEF Shape
<1>4. CASE Len(s) = 1
  <2>1. Tail(s) = << >>
    <3>1. Len(Tail(s)) = 0
      BY <1>2, <1>4
    <3> QED
      BY <1>1, <3>1, EmptySeq
  <2> QED
    BY <1>1, <1>3, <1>4, <2>1
<1>5. CASE Len(s) # 1
  <2> DEFINE tail == Tail(s)
  <2>1. Len(tail) \in Nat /\ Len(tail) > 0 /\ tail \in Seq(AllSteps)
    BY <1>1, <1>2, <1>5
  <2>2. tail[1] = s[2] /\ 1 + 1 = 2
    BY <1>1, <1>2, <1>5
  <2>0. Len(<< >>) = 0
    OBVIOUS
  <2>3. tail # << >> /\ Len(tail) = Len(s) - 1
    <3> HIDE DEF tail
    <3>1. tail # << >>
      BY <2>0, <2>1
    <3> QED
      BY <1>2, <3>1 DEF tail
  <2>4. Head(tail) = tail[1]
    BY <2>1, <2>3
  <2>5. ASSUME NEW i \in 1 .. Len(tail)
        PROVE  /\ tail[i] \in StepsOf(k)
               /\ IF i = Len(tail) THEN tail[i] = "reply"
                  ELSE tail[i] # "reply" /\ tail[i + 1] = Following(k, tail[i])
    <3>1. i + 1 \in 1 .. Len(s) /\ tail[i] = s[i + 1] /\ (i = Len(tail) <=> i + 1 = Len(s))
      BY <1>1, <1>2, <2>3
    <3>2. i # Len(tail) => tail[i + 1] = s[(i + 1) + 1]
      <4> SUFFICES ASSUME i # Len(tail) PROVE tail[i + 1] = s[(i + 1) + 1]
        OBVIOUS
      <4>1. i + 1 \in 1 .. Len(s) - 1
        <5>1. Len(tail) = Len(s) - 1 /\ Len(s) \in Nat
          BY <1>1, <2>3
        <5> HIDE DEF tail
        <5> QED
          BY <5>1
      <4> QED
        BY <1>2, <4>1
    <3>3. /\ s[i + 1] \in StepsOf(k)
          /\ IF i + 1 = Len(s) THEN s[i + 1] = "reply"
             ELSE s[i + 1] # "reply" /\ s[(i + 1) + 1] = Following(k, s[i + 1])
      BY <3>1 DEF Shape
    <3> HIDE DEF tail
    <3> QED
      BY <3>1, <3>2, <3>3
  <2> HIDE DEF tail
  <2>6. Shape(k, tail)
    BY <2>3, <2>5 DEF Shape
  <2>7. s[1] # "reply" /\ s[2] = Following(k, s[1])
    BY <1>3, <1>5, <2>2
  <2> QED
    BY <1>1, <1>3, <2>1, <2>2, <2>4, <2>6, <2>7 DEF tail
<1> QED
  BY <1>4, <1>5

LEMMA UpToEleven ==
    \A i \in 1 .. 11 : i = 1 \/ i = 2 \/ i = 3 \/ i = 4 \/ i = 5 \/ i = 6 \/ i = 7 \/ i = 8 \/ i = 9
                       \/ i = 10 \/ i = 11
  OBVIOUS

LEMMA UpToTen ==
    \A i \in 1 .. 10 : i = 1 \/ i = 2 \/ i = 3 \/ i = 4 \/ i = 5 \/ i = 6 \/ i = 7 \/ i = 8 \/ i = 9
                       \/ i = 10
  OBVIOUS

LEMMA Successors == /\ 1 + 1 = 2 /\ 2 + 1 = 3 /\ 3 + 1 = 4 /\ 4 + 1 = 5 /\ 5 + 1 = 6 /\ 6 + 1 = 7
                    /\ 7 + 1 = 8 /\ 8 + 1 = 9 /\ 9 + 1 = 10 /\ 10 + 1 = 11
  OBVIOUS

LEMMA RebuildIs ==
    /\ Rebuild \in Seq(AllSteps) /\ Len(Rebuild) = 6 /\ Rebuild[1] = "layers" /\ Rebuild[2] = "clear"
    /\ Rebuild[3] = "render" /\ Rebuild[4] = "stop" /\ Rebuild[5] = "start" /\ Rebuild[6] = "reply"
  BY DEF Rebuild, AllSteps

LEMMA JoinIs ==
    ASSUME NEW a \in Seq(AllSteps), NEW b \in Seq(AllSteps)
    PROVE  /\ a \o b \in Seq(AllSteps) /\ Len(a \o b) = Len(a) + Len(b)
           /\ \A i \in 1 .. Len(a) : (a \o b)[i] = a[i]
           /\ \A i \in 1 .. Len(b) : (a \o b)[Len(a) + i] = b[i]
  OBVIOUS

LEMMA EmptyLen == Len(<< >>) = 0
  OBVIOUS

LEMMA ToggleShape ==
    /\ ToggleScript \in Seq(AllSteps) /\ Shape("toggle", ToggleScript)
    /\ \A x \in StepsOf("toggle") : \E i \in 1 .. 10 : ToggleScript[i] = x
    /\ Len(ToggleScript) = 10
<1> DEFINE a == <<"truncate", "write", "sync", "runtime">>
           s == ToggleScript
<1>1. a \in Seq(AllSteps) /\ Len(a) = 4 /\ a[1] = "truncate" /\ a[2] = "write" /\ a[3] = "sync"
      /\ a[4] = "runtime"
  BY DEF AllSteps
<1>2. s = a \o Rebuild
  BY DEF ToggleScript
<1> HIDE DEF a, s
<1>3. /\ s \in Seq(AllSteps) /\ Len(s) = 10
      /\ \A i \in 1 .. 4 : s[i] = a[i]
      /\ \A i \in 1 .. 6 : s[4 + i] = Rebuild[i]
  <2> DEFINE b == Rebuild
  <2>1. b \in Seq(AllSteps) /\ Len(b) = 6
    BY RebuildIs
  <2> HIDE DEF b
  <2>2. /\ a \o b \in Seq(AllSteps) /\ Len(a \o b) = Len(a) + Len(b)
        /\ \A i \in 1 .. Len(a) : (a \o b)[i] = a[i]
        /\ \A i \in 1 .. Len(b) : (a \o b)[Len(a) + i] = b[i]
    BY <1>1, <2>1, JoinIs
  <2>3. s = a \o b
    BY <1>2 DEF b
  <2>4. 4 + 6 = 10 /\ Len(a) = 4
    BY <1>1
  <2>5. /\ s \in Seq(AllSteps) /\ Len(s) = 10
        /\ \A i \in 1 .. 4 : s[i] = a[i]
        /\ \A i \in 1 .. 6 : s[4 + i] = b[i]
    BY <2>1, <2>2, <2>3, <2>4
  <2> QED
    BY <2>5 DEF b
<1>4. /\ s[1] = "truncate" /\ s[2] = "write" /\ s[3] = "sync" /\ s[4] = "runtime"
      /\ s[5] = "layers" /\ s[6] = "clear" /\ s[7] = "render" /\ s[8] = "stop" /\ s[9] = "start"
      /\ s[10] = "reply"
  <2>1. s[1] = a[1] /\ s[2] = a[2] /\ s[3] = a[3] /\ s[4] = a[4]
    BY <1>3
  <2>2. s[4 + 1] = Rebuild[1] /\ s[4 + 2] = Rebuild[2] /\ s[4 + 3] = Rebuild[3] /\ s[4 + 4] = Rebuild[4]
        /\ s[4 + 5] = Rebuild[5] /\ s[4 + 6] = Rebuild[6]
    BY <1>3
  <2>3. 4 + 1 = 5 /\ 4 + 2 = 6 /\ 4 + 3 = 7 /\ 4 + 4 = 8 /\ 4 + 5 = 9 /\ 4 + 6 = 10
    OBVIOUS
  <2> QED
    BY <1>1, <2>1, <2>2, <2>3, RebuildIs
<1>5. ASSUME NEW i \in 1 .. 10
      PROVE  /\ s[i] \in StepsOf("toggle")
             /\ IF i = 10 THEN s[i] = "reply"
                ELSE s[i] # "reply" /\ s[i + 1] = Following("toggle", s[i])
  BY <1>4, UpToTen, Successors DEF StepsOf, Following
<1>6. s # << >>
  <2>1. Len(s) = 10
    BY <1>3
  <2> QED
    BY <2>1, EmptyLen
<1>7. \A x \in StepsOf("toggle") : \E i \in 1 .. 10 : s[i] = x
  <2>1. 1 \in 1 .. 10 /\ 2 \in 1 .. 10 /\ 3 \in 1 .. 10 /\ 4 \in 1 .. 10 /\ 5 \in 1 .. 10 /\ 6 \in 1 .. 10
        /\ 7 \in 1 .. 10 /\ 8 \in 1 .. 10 /\ 9 \in 1 .. 10 /\ 10 \in 1 .. 10
    OBVIOUS
  <2> QED
    BY <1>4, <2>1 DEF StepsOf
<1> QED
  BY <1>3, <1>5, <1>6, <1>7 DEF Shape, s

LEMMA DeleteShape ==
    /\ DeleteScript \in Seq(AllSteps) /\ Shape("delete", DeleteScript)
    /\ \A x \in StepsOf("delete") : \E i \in 1 .. 11 : DeleteScript[i] = x
    /\ Len(DeleteScript) = 11
<1> DEFINE a == <<"rows", "truncate", "write", "sync", "runtime">>
           s == DeleteScript
<1>1. a \in Seq(AllSteps) /\ Len(a) = 5 /\ a[1] = "rows" /\ a[2] = "truncate" /\ a[3] = "write"
      /\ a[4] = "sync" /\ a[5] = "runtime"
  BY DEF AllSteps
<1>2. s = a \o Rebuild
  BY DEF DeleteScript
<1> HIDE DEF a, s
<1>3. /\ s \in Seq(AllSteps) /\ Len(s) = 11
      /\ \A i \in 1 .. 5 : s[i] = a[i]
      /\ \A i \in 1 .. 6 : s[5 + i] = Rebuild[i]
  <2> DEFINE b == Rebuild
  <2>1. b \in Seq(AllSteps) /\ Len(b) = 6
    BY RebuildIs
  <2> HIDE DEF b
  <2>2. /\ a \o b \in Seq(AllSteps) /\ Len(a \o b) = Len(a) + Len(b)
        /\ \A i \in 1 .. Len(a) : (a \o b)[i] = a[i]
        /\ \A i \in 1 .. Len(b) : (a \o b)[Len(a) + i] = b[i]
    BY <1>1, <2>1, JoinIs
  <2>3. s = a \o b
    BY <1>2 DEF b
  <2>4. 5 + 6 = 11 /\ Len(a) = 5
    BY <1>1
  <2>5. /\ s \in Seq(AllSteps) /\ Len(s) = 11
        /\ \A i \in 1 .. 5 : s[i] = a[i]
        /\ \A i \in 1 .. 6 : s[5 + i] = b[i]
    BY <2>1, <2>2, <2>3, <2>4
  <2> QED
    BY <2>5 DEF b
<1>4. /\ s[1] = "rows" /\ s[2] = "truncate" /\ s[3] = "write" /\ s[4] = "sync" /\ s[5] = "runtime"
      /\ s[6] = "layers" /\ s[7] = "clear" /\ s[8] = "render" /\ s[9] = "stop" /\ s[10] = "start"
      /\ s[11] = "reply"
  <2>1. s[1] = a[1] /\ s[2] = a[2] /\ s[3] = a[3] /\ s[4] = a[4] /\ s[5] = a[5]
    BY <1>3
  <2>2. s[5 + 1] = Rebuild[1] /\ s[5 + 2] = Rebuild[2] /\ s[5 + 3] = Rebuild[3] /\ s[5 + 4] = Rebuild[4]
        /\ s[5 + 5] = Rebuild[5] /\ s[5 + 6] = Rebuild[6]
    BY <1>3
  <2>3. 5 + 1 = 6 /\ 5 + 2 = 7 /\ 5 + 3 = 8 /\ 5 + 4 = 9 /\ 5 + 5 = 10 /\ 5 + 6 = 11
    OBVIOUS
  <2> QED
    BY <1>1, <2>1, <2>2, <2>3, RebuildIs
<1>5. ASSUME NEW i \in 1 .. 11
      PROVE  /\ s[i] \in StepsOf("delete")
             /\ IF i = 11 THEN s[i] = "reply"
                ELSE s[i] # "reply" /\ s[i + 1] = Following("delete", s[i])
  BY <1>4, UpToEleven, Successors DEF StepsOf, Following
<1>6. s # << >>
  <2>1. Len(s) = 11
    BY <1>3
  <2> QED
    BY <2>1, EmptyLen
<1>7. \A x \in StepsOf("delete") : \E i \in 1 .. 11 : s[i] = x
  <2>1. 1 \in 1 .. 11 /\ 2 \in 1 .. 11 /\ 3 \in 1 .. 11 /\ 4 \in 1 .. 11 /\ 5 \in 1 .. 11 /\ 6 \in 1 .. 11
        /\ 7 \in 1 .. 11 /\ 8 \in 1 .. 11 /\ 9 \in 1 .. 11 /\ 10 \in 1 .. 11 /\ 11 \in 1 .. 11
    OBVIOUS
  <2> QED
    BY <1>4, <2>1 DEF StepsOf
<1> QED
  BY <1>3, <1>5, <1>6, <1>7 DEF Shape, s

LEMMA ScanShape ==
    /\ ScanScript \in Seq(AllSteps) /\ Shape("scan", ScanScript)
    /\ \A x \in StepsOf("scan") : \E i \in 1 .. 11 : ScanScript[i] = x
    /\ Len(ScanScript) = 11
<1> DEFINE s == ScanScript
<1>1. s \in Seq(AllSteps) /\ Len(s) = 11
  BY DEF ScanScript, AllSteps
<1>4. /\ s[1] = "index" /\ s[2] = "read" /\ s[3] = "truncate" /\ s[4] = "write" /\ s[5] = "layers"
      /\ s[6] = "clear" /\ s[7] = "render" /\ s[8] = "sync" /\ s[9] = "stop" /\ s[10] = "start"
      /\ s[11] = "reply"
  BY DEF ScanScript
<1> HIDE DEF s
<1>5. ASSUME NEW i \in 1 .. 11
      PROVE  /\ s[i] \in StepsOf("scan")
             /\ IF i = 11 THEN s[i] = "reply"
                ELSE s[i] # "reply" /\ s[i + 1] = Following("scan", s[i])
  BY <1>4, UpToEleven, Successors DEF StepsOf, Following
<1>6. s # << >>
  BY <1>1, EmptyLen
<1>7. \A x \in StepsOf("scan") : \E i \in 1 .. 11 : s[i] = x
  <2>1. 1 \in 1 .. 11 /\ 2 \in 1 .. 11 /\ 3 \in 1 .. 11 /\ 4 \in 1 .. 11 /\ 5 \in 1 .. 11 /\ 6 \in 1 .. 11
        /\ 7 \in 1 .. 11 /\ 8 \in 1 .. 11 /\ 9 \in 1 .. 11 /\ 10 \in 1 .. 11 /\ 11 \in 1 .. 11
    OBVIOUS
  <2> QED
    BY <1>4, <2>1 DEF StepsOf
<1> QED
  BY <1>1, <1>5, <1>6, <1>7 DEF Shape, s

LEMMA ActivateShape ==
    /\ ActivateScript \in Seq(AllSteps) /\ Shape("activate", ActivateScript)
    /\ \A x \in StepsOf("activate") : \E i \in 1 .. 2 : ActivateScript[i] = x
    /\ Len(ActivateScript) = 2
<1> DEFINE s == ActivateScript
<1>1. s \in Seq(AllSteps) /\ Len(s) = 2 /\ s[1] = "runtime" /\ s[2] = "reply"
  BY DEF ActivateScript, AllSteps
<1> HIDE DEF s
<1>5. ASSUME NEW i \in 1 .. 2
      PROVE  /\ s[i] \in StepsOf("activate")
             /\ IF i = 2 THEN s[i] = "reply"
                ELSE s[i] # "reply" /\ s[i + 1] = Following("activate", s[i])
  <2>1. i = 1 \/ i = 2
    OBVIOUS
  <2> QED
    BY <1>1, <2>1, Successors DEF StepsOf, Following
<1>6. s # << >>
  BY <1>1, EmptyLen
<1>7. \A x \in StepsOf("activate") : \E i \in 1 .. 2 : s[i] = x
  <2>1. 1 \in 1 .. 2 /\ 2 \in 1 .. 2
    OBVIOUS
  <2> QED
    BY <1>1, <2>1 DEF StepsOf
<1> QED
  BY <1>1, <1>5, <1>6, <1>7 DEF Shape, s

\* Every request begins with the whole of its script.
LEMMA ScriptShape ==
    ASSUME NEW k \in Kind
    PROVE  Script[k] \in Seq(AllSteps) /\ Shape(k, Script[k])
<1>1. /\ Script["toggle"] = ToggleScript /\ Script["delete"] = DeleteScript
      /\ Script["scan"] = ScanScript /\ Script["activate"] = ActivateScript
  BY DEF Script
<1> QED
  BY <1>1, KindIs, ToggleShape, DeleteShape, ScanShape, ActivateShape

LEMMA ScriptHeads ==
    /\ Head(ToggleScript) = "truncate" /\ Head(DeleteScript) = "rows"
    /\ Head(ScanScript) = "index" /\ Head(ActivateScript) = "runtime"
<1>1. Head(ToggleScript) = "truncate"
  BY DEF ToggleScript, Rebuild
<1>2. Head(DeleteScript) = "rows"
  BY DEF DeleteScript, Rebuild
<1>3. Head(ScanScript) = "index"
  BY DEF ScanScript
<1>4. Head(ActivateScript) = "runtime"
  BY DEF ActivateScript
<1> QED
  BY <1>1, <1>2, <1>3, <1>4

LEMMA StepNames ==
    ASSUME NEW k \in Kind, NEW x \in StepsOf(k)
    PROVE  x \in StepName
<1>1. PICK i \in 1 .. Len(Script[k]) : Script[k][i] = x
  <2>1. /\ Script["toggle"] = ToggleScript /\ Script["delete"] = DeleteScript
        /\ Script["scan"] = ScanScript /\ Script["activate"] = ActivateScript
    BY DEF Script
  <2>2. CASE k = "toggle"
    BY <2>1, <2>2, ToggleShape
  <2>3. CASE k = "delete"
    BY <2>1, <2>3, DeleteShape
  <2>4. CASE k = "scan"
    BY <2>1, <2>4, ScanShape
  <2>5. CASE k = "activate"
    BY <2>1, <2>5, ActivateShape
  <2> QED
    BY <2>2, <2>3, <2>4, <2>5, KindIs
<1>2. DOMAIN Script[k] = 1 .. Len(Script[k])
  BY ScriptShape
<1> QED
  BY <1>1, <1>2 DEF StepName

-----------------------------------------------------------------------------
(* Threads *)

\* A thread that is busy has a request, runs in a running task and has the
\* rest of its script before it.
ThreadInv ==
    /\ todo \in [Thread -> Seq(AllSteps)]
    /\ req \in [Thread -> Request \union {None}]
    /\ \A t \in Thread : Busy(t) => /\ req[t] \in Request /\ Home[t] \in running
                                    /\ Shape(req[t].kind, todo[t])

TypeInv == TypeOK /\ ThreadInv

\* Thread t is before step s, as the next one of its script.
Before(t, s) == Busy(t) /\ Head(todo[t]) = s

\* A step that is not the last leaves the next one of the order to be done.
LEMMA Advance ==
    ASSUME TypeInv, NEW t \in Thread, NEW s, s # "reply", At(t, s)
    PROVE  /\ ThreadInv'
           /\ req[t] \in Request /\ Home[t] \in running /\ s \in StepsOf(req[t].kind)
           /\ Before(t, Following(req[t].kind, s))'
           /\ \A u \in Thread \ {t} : todo'[u] = todo[u]
<1>1. todo[t] \in Seq(AllSteps) /\ Busy(t) /\ req[t] \in Request /\ Shape(req[t].kind, todo[t])
      /\ Head(todo[t]) = s /\ Home[t] \in running
  BY DEF TypeInv, ThreadInv, At
<1>2. /\ s \in StepsOf(req[t].kind) /\ Tail(todo[t]) \in Seq(AllSteps)
      /\ Shape(req[t].kind, Tail(todo[t])) /\ Head(Tail(todo[t])) = Following(req[t].kind, s)
  BY <1>1, ShapeTail
<1>3. todo' = [todo EXCEPT ![t] = Tail(todo[t])] /\ UNCHANGED <<running, req>>
  BY DEF At
<1>4. todo'[t] = Tail(todo[t]) /\ \A u \in Thread \ {t} : todo'[u] = todo[u]
  BY <1>3 DEF TypeInv, ThreadInv
<1>5. todo'[t] # << >>
  BY <1>2, <1>4 DEF Shape
<1>6. todo' \in [Thread -> Seq(AllSteps)]
  BY <1>2, <1>3 DEF TypeInv, ThreadInv
<1>7. Shape(req'[t].kind, todo'[t])
  BY <1>2, <1>3, <1>4
<1>8. ThreadInv'
  <2>1. \A u \in Thread : Busy(u)' => /\ req'[u] \in Request /\ Home[u] \in running'
                                      /\ Shape(req'[u].kind, todo'[u])
    BY <1>1, <1>3, <1>4, <1>7 DEF TypeInv, ThreadInv, Busy
  <2> QED
    BY <1>3, <1>6, <2>1 DEF TypeInv, ThreadInv, Shape
<1>9. Before(t, Following(req[t].kind, s))'
  BY <1>2, <1>3, <1>4, <1>5 DEF Before, Busy
<1> QED
  BY <1>1, <1>2, <1>4, <1>8, <1>9

\* Threads that end have nothing left to do; the others are as they were.
LEMMA Ending ==
    ASSUME TypeInv, NEW ts \in SUBSET Thread, NEW how, End(ts, how),
           \A t \in Thread \ ts : Home[t] \in running => Home[t] \in running'
    PROVE  /\ ThreadInv'
           /\ \A t \in ts : /\ ~Busy(t)' /\ req'[t] = IF how = "ok" THEN req[t] ELSE None
                            /\ doc'[t] = Seed /\ layers'[t] = {} /\ reply'[t] = how
           /\ \A t \in Thread \ ts : /\ todo'[t] = todo[t] /\ req'[t] = req[t] /\ doc'[t] = doc[t]
                                     /\ layers'[t] = layers[t] /\ reply'[t] = reply[t]
<1>1. << >> \in Seq(AllSteps)
  OBVIOUS
<1>2. \A t \in ts : /\ todo'[t] = << >> /\ req'[t] = IF how = "ok" THEN req[t] ELSE None
                    /\ doc'[t] = Seed /\ layers'[t] = {} /\ reply'[t] = how
  BY DEF End
<1>3. \A t \in Thread \ ts : /\ todo'[t] = todo[t] /\ req'[t] = req[t] /\ doc'[t] = doc[t]
                             /\ layers'[t] = layers[t] /\ reply'[t] = reply[t]
  BY DEF End
<1>4. todo' \in [Thread -> Seq(AllSteps)] /\ req' \in [Thread -> Request \union {None}]
  BY <1>1 DEF End, TypeInv, ThreadInv
<1>5. ASSUME NEW t \in Thread, Busy(t)'
      PROVE  req'[t] \in Request /\ Home[t] \in running' /\ Shape(req'[t].kind, todo'[t])
  <2>1. t \in Thread \ ts /\ Busy(t)
    BY <1>2, <1>3, <1>5 DEF Busy
  <2> QED
    BY <1>3, <2>1 DEF TypeInv, ThreadInv
<1> QED
  BY <1>2, <1>3, <1>4, <1>5 DEF ThreadInv, Busy, Shape

\* A thread that accepts a request has the whole of its script before it.
LEMMA Accepting ==
    ASSUME TypeInv, NEW t \in Thread, NEW k \in Kind, NEW c \in Collection, NEW v \in Entry,
           Accept(t, k, c, v)
    PROVE  /\ ThreadInv'
           /\ Busy(t)' /\ req'[t] = [kind |-> k, target |-> c, value |-> v] /\ todo'[t] = Script[k]
           /\ reply'[t] = "none"
           /\ \A u \in Thread \ {t} : todo'[u] = todo[u] /\ req'[u] = req[u] /\ reply'[u] = reply[u]
<1>1. Script[k] \in Seq(AllSteps) /\ Shape(k, Script[k]) /\ Script[k] # << >>
  BY ScriptShape DEF Shape
<1>2. [kind |-> k, target |-> c, value |-> v] \in Request
      /\ [kind |-> k, target |-> c, value |-> v].kind = k
  BY DEF Request
<1>3. todo'[t] = Script[k] /\ req'[t] = [kind |-> k, target |-> c, value |-> v] /\ reply'[t] = "none"
  BY DEF Accept, TypeInv, ThreadInv, TypeOK
<1>4. \A u \in Thread \ {t} : todo'[u] = todo[u] /\ req'[u] = req[u] /\ reply'[u] = reply[u]
  BY DEF Accept, TypeInv, ThreadInv, TypeOK
<1>5. todo' \in [Thread -> Seq(AllSteps)] /\ req' \in [Thread -> Request \union {None}]
  BY <1>1, <1>2 DEF Accept, TypeInv, ThreadInv
<1>6. ASSUME NEW u \in Thread, Busy(u)'
      PROVE  req'[u] \in Request /\ Home[u] \in running' /\ Shape(req'[u].kind, todo'[u])
  <2>1. CASE u = t
    <3>1. req'[u].kind = k /\ todo'[u] = Script[k] /\ req'[u] \in Request
      BY <1>2, <1>3, <2>1
    <3> QED
      BY <1>1, <2>1, <3>1 DEF Accept
  <2>2. CASE u # t
    BY <1>4, <1>6, <2>2 DEF Accept, TypeInv, ThreadInv, Busy
  <2> QED
    BY <2>1, <2>2
<1> QED
  BY <1>1, <1>3, <1>4, <1>5, <1>6 DEF ThreadInv, Busy, Shape

-----------------------------------------------------------------------------
(* Types *)

LEMMA SeedType == Seed \in Catalogs
  BY DEF Seed, Catalogs, Entry

LEMMA EnabledType == \A cat : Enabled(cat) \in SUBSET Collection
  BY DEF Enabled

\* The conjuncts of TypeOK that are not about threads.
DataOK ==
    /\ running \subseteq Task
    /\ catalog \in [Task -> Catalogs \union {Torn}]
    /\ mapfile \in [Task -> SUBSET Collection]
    /\ served \in [Task -> SUBSET Collection] /\ up \subseteq running
    /\ active \in [Task -> Collection \union {None}]
    /\ s3 \in Catalogs \union {Torn, None}
    /\ rows \subseteq Collection
    /\ doc \in [Thread -> Catalogs]
    /\ layers \in [Thread -> SUBSET Collection]
    /\ reply \in [Thread -> {"none", "ok", "noop", "error"}]
    /\ possible \in [Collection -> SUBSET Entry]
    /\ cut \subseteq running

LEMMA TypeIs == TypeInv <=> DataOK /\ ThreadInv
<1>1. ASSUME ThreadInv, NEW t \in Thread
      PROVE  todo[t] = << >> \/ Head(todo[t]) \in StepName
  <2> SUFFICES ASSUME Busy(t) PROVE Head(todo[t]) \in StepName
    BY DEF Busy
  <2>1. req[t].kind \in Kind /\ todo[t] \in Seq(AllSteps) /\ Shape(req[t].kind, todo[t])
    BY <1>1 DEF ThreadInv, Request
  <2> QED
    BY <2>1, ShapeTail, StepNames
<1>2. ASSUME ThreadInv, NEW t \in Thread
      PROVE  IF req[t] = None THEN todo[t] = << >> ELSE req[t] \in Request
  BY <1>2, CatalogAssumption DEF ThreadInv, Busy
<1> QED
  BY <1>1, <1>2 DEF TypeInv, TypeOK, DataOK

LEMMA InitTypes == Init => TypeInv
<1>1. << >> \in Seq(AllSteps)
  OBVIOUS
<1>2. Init => ThreadInv
  BY <1>1 DEF Init, ThreadInv, Busy
<1>3. \A c \in Collection : Seed[c] \in Entry
  BY SeedType DEF Catalogs
<1>4. Init => DataOK
  BY SeedType, <1>3 DEF Init, DataOK
<1> QED
  BY <1>2, <1>4, TypeIs

LEMMA NextTypes == TypeInv /\ [Next]_vars => TypeInv'
<1> SUFFICES ASSUME TypeInv, [Next]_vars PROVE TypeInv'
  OBVIOUS
<1>d. DataOK /\ ThreadInv
  BY TypeIs
<1>h. \A t \in Thread : Home[t] \in Task
  BY CatalogAssumption
<1> SUFFICES DataOK' /\ ThreadInv'
  <2>1. (TypeInv <=> DataOK /\ ThreadInv)'
    BY TypeIs, PTL
  <2> QED
    BY <2>1
<1> USE DEF files
<1>1. ASSUME NEW k \in Task, Start(k) PROVE DataOK' /\ ThreadInv'
  <2>1. PICK cat \in {Durable} \union (IF "download" \in FaultSteps THEN {Seed} ELSE {}) :
          /\ cat # Torn
          /\ catalog' = [catalog EXCEPT ![k] = cat]
          /\ mapfile' = [mapfile EXCEPT ![k] = Enabled(cat)]
          /\ served' = [served EXCEPT ![k] = Enabled(cat)]
    BY <1>1 DEF Start
  <2>2. cat \in Catalogs
    BY <1>d, <2>1, SeedType DEF DataOK, Durable
  <2>3. ThreadInv'
    BY <1>d, <1>1 DEF Start, ThreadInv, Busy, Shape
  <2> QED
    BY <1>d, <1>1, <2>1, <2>2, <2>3, EnabledType DEF Start, DataOK
<1>2. ASSUME NEW k \in Task, Replace(k) PROVE DataOK' /\ ThreadInv'
  <2>1. End(ThreadsOf(k), "none") /\ ThreadsOf(k) \in SUBSET Thread
        /\ \A t \in Thread \ ThreadsOf(k) : Home[t] \in running => Home[t] \in running'
    BY <1>2 DEF Replace, ThreadsOf
  <2>2. ThreadInv'
    BY <2>1, Ending
  <2>3. /\ doc' \in [Thread -> Catalogs] /\ layers' \in [Thread -> SUBSET Collection]
        /\ reply' \in [Thread -> {"none", "ok", "noop", "error"}]
    BY <1>d, <2>1, SeedType DEF End, DataOK
  <2> QED
    BY <1>d, <1>2, <2>2, <2>3, SeedType DEF Replace, DataOK
<1>3. ASSUME NEW k \in Task, AdminRestart(k) PROVE DataOK' /\ ThreadInv'
  <2>1. End(ThreadsOf(k), "none") /\ ThreadsOf(k) \in SUBSET Thread /\ running' = running
    BY <1>3 DEF AdminRestart, ThreadsOf
  <2>2. ThreadInv'
    BY <2>1, Ending
  <2>3. /\ doc' \in [Thread -> Catalogs] /\ layers' \in [Thread -> SUBSET Collection]
        /\ reply' \in [Thread -> {"none", "ok", "noop", "error"}]
    BY <1>d, <2>1, SeedType DEF End, DataOK
  <2> QED
    <3>1. active' \in [Task -> Collection \union {None}]
      BY <1>d, <1>3 DEF AdminRestart, MayForget, DataOK
    <3>2. cut' \subseteq running
      BY <1>d, <1>3 DEF AdminRestart, DataOK
    <3> QED
      BY <1>d, <1>3, <2>2, <2>3, <3>1, <3>2 DEF AdminRestart, DataOK
<1>4. ASSUME NEW t \in Thread, NEW c \in Collection, NEW v \in Entry, Known(t, c)
      PROVE  catalog[Home[t]] \in Catalogs /\ catalog[Home[t]][c] \in Entry
  BY <1>d, <1>h, <1>4 DEF Known, DataOK, Catalogs
<1>5. ASSUME NEW t \in Thread, NEW c \in Collection, NEW v \in Entry, NEW k \in Kind, Accept(t, k, c, v),
             UNCHANGED doc \/ (doc' = [doc EXCEPT ![t] = catalog[Home[t]]] /\ Known(t, c)),
             UNCHANGED possible \/ possible' = [possible EXCEPT ![c] = @ \union {v}]
      PROVE  DataOK' /\ ThreadInv'
  <2>1. ThreadInv'
    BY <1>5, Accepting
  <2>2. doc' \in [Thread -> Catalogs] /\ possible' \in [Collection -> SUBSET Entry]
    BY <1>d, <1>4, <1>5 DEF DataOK
  <2> QED
    BY <1>d, <1>5, <2>1, <2>2 DEF Accept, DataOK
<1>6. ASSUME NEW t \in Thread, Arrive(t) PROVE DataOK' /\ ThreadInv'
  <2>1. PICK c \in Collection : \/ Delete(t, c) \/ Activate(t, c)
                                \/ \E v \in Entry : Toggle(t, c, v) \/ NoOp(t, c, v) \/ StartScan(t, c, v)
    BY <1>6 DEF Arrive
  <2>2. CASE Delete(t, c)
    BY <2>2, <1>5, KindIs DEF Delete, ReadDoc, Ask, Entry
  <2>3. CASE Activate(t, c)
    BY <2>3, <1>4, <1>5, KindIs DEF Activate, Entry
  <2>4. ASSUME NEW v \in Entry, Toggle(t, c, v) PROVE DataOK' /\ ThreadInv'
    BY <2>4, <1>5, KindIs DEF Toggle, ReadDoc, Ask
  <2>5. ASSUME NEW v \in Entry, StartScan(t, c, v) PROVE DataOK' /\ ThreadInv'
    BY <2>5, <1>5, KindIs DEF StartScan, Ask
  <2>6. ASSUME NEW v \in Entry, NoOp(t, c, v) PROVE DataOK' /\ ThreadInv'
    <3>1. [kind |-> "toggle", target |-> c, value |-> v] \in Request
      BY KindIs DEF Request
    <3>2. ThreadInv'
      BY <1>d, <2>6, <3>1 DEF NoOp, ThreadInv, Busy, Shape
    <3> QED
      BY <1>d, <2>6, <3>2 DEF NoOp, DataOK
  <2> QED
    BY <2>1, <2>2, <2>3, <2>4, <2>5, <2>6
<1>7. ASSUME NEW t \in Thread, DeleteRows(t) \/ Index(t) PROVE DataOK' /\ ThreadInv'
  <2>1. ThreadInv' /\ req[t].target \in Collection /\ UNCHANGED running
    <3>1. ThreadInv' /\ req[t] \in Request
      BY <1>7, Advance DEF DeleteRows, Index
    <3> QED
      BY <1>7, <3>1 DEF DeleteRows, Index, At, Request
  <2> QED
    BY <1>d, <1>7, <2>1 DEF DeleteRows, Index, DataOK
<1>8. ASSUME NEW t \in Thread, ReadForUpsert(t) PROVE DataOK' /\ ThreadInv'
  <2>1. ThreadInv' /\ UNCHANGED running
    BY <1>8, Advance DEF ReadForUpsert, At
  <2>2. catalog[Home[t]] \in Catalogs
    BY <1>d, <1>h, <1>8 DEF ReadForUpsert, DataOK
  <2> QED
    BY <1>d, <1>8, <2>1, <2>2 DEF ReadForUpsert, ReadDoc, DataOK
<1>9. ASSUME NEW t \in Thread, Truncate(t) \/ Clear(t) \/ Render(t) PROVE DataOK' /\ ThreadInv'
  <2>1. ThreadInv' /\ UNCHANGED running
    BY <1>9, Advance DEF Truncate, Clear, Render, At
  <2> QED
    BY <1>d, <1>h, <1>9, <2>1 DEF Truncate, Clear, Render, DataOK
<1>10. ASSUME NEW t \in Thread, WriteCatalog(t) PROVE DataOK' /\ ThreadInv'
  <2>1. ThreadInv' /\ UNCHANGED running /\ req[t] \in Request
    BY <1>10, Advance DEF WriteCatalog, At
  <2>2. NewDoc(t) \in Catalogs
    BY <1>d, <2>1 DEF NewDoc, DataOK, Catalogs, Request
  <2> QED
    BY <1>d, <1>h, <1>10, <2>1, <2>2 DEF WriteCatalog, DataOK
<1>11. ASSUME NEW t \in Thread, Sync(t) PROVE DataOK' /\ ThreadInv'
  <2>1. ThreadInv' /\ UNCHANGED running
    BY <1>11, Advance DEF Sync, At
  <2> QED
    BY <1>d, <1>h, <1>11, <2>1 DEF Sync, DataOK
<1>12. ASSUME NEW t \in Thread, SaveRuntime(t) PROVE DataOK' /\ ThreadInv'
  <2>1. ThreadInv' /\ UNCHANGED running /\ req[t] \in Request
    BY <1>12, Advance DEF SaveRuntime, At
  <2>2. NewActive(t) \in Collection \union {None}
    BY <1>d, <1>h, <2>1 DEF NewActive, DataOK, Request
  <2> QED
    BY <1>d, <1>12, <2>1, <2>2 DEF SaveRuntime, DataOK
<1>13. ASSUME NEW t \in Thread, ReadLayers(t) PROVE DataOK' /\ ThreadInv'
  <2>1. ThreadInv' /\ UNCHANGED running
    BY <1>13, Advance DEF ReadLayers, At
  <2> QED
    BY <1>d, <1>13, <2>1, EnabledType DEF ReadLayers, DataOK
<1>14. ASSUME NEW t \in Thread, StopGroup(t) \/ StartGroup(t) PROVE DataOK' /\ ThreadInv'
  <2>1. ThreadInv' /\ UNCHANGED running /\ Home[t] \in running
    BY <1>14, Advance DEF StopGroup, StartGroup, At
  <2> QED
    BY <1>d, <1>h, <1>14, <2>1 DEF StopGroup, StartGroup, Started, DataOK
<1>15. ASSUME NEW t \in Thread, Reply(t) PROVE DataOK' /\ ThreadInv'
  <2>1. End({t}, "ok") /\ UNCHANGED running
    BY <1>15 DEF Reply
  <2>2. ThreadInv'
    BY <2>1, Ending
  <2>3. /\ doc' \in [Thread -> Catalogs] /\ layers' \in [Thread -> SUBSET Collection]
        /\ reply' \in [Thread -> {"none", "ok", "noop", "error"}]
    BY <1>d, <2>1, SeedType DEF End, DataOK
  <2>4. req[t] \in Request
    BY <1>15 DEF Reply, TypeInv, ThreadInv
  <2>5. possible' \in [Collection -> SUBSET Entry]
    BY <1>d, <1>15, <2>4 DEF Reply, DataOK, Request
  <2> QED
    BY <1>d, <1>15, <2>2, <2>3, <2>5 DEF Reply, DataOK
<1>16. ASSUME NEW t \in Thread, Fail(t) PROVE DataOK' /\ ThreadInv'
  <2>1. End({t}, "error") /\ UNCHANGED <<running, catalog, mapfile, possible>>
    BY <1>16 DEF Fail
  <2>2. ThreadInv'
    BY <2>1, Ending
  <2>3. /\ doc' \in [Thread -> Catalogs] /\ layers' \in [Thread -> SUBSET Collection]
        /\ reply' \in [Thread -> {"none", "ok", "noop", "error"}]
    BY <1>d, <2>1, SeedType DEF End, DataOK
  <2>4. PICK s \in StepName : Failing(t, s) /\ Leaves(t, s)
    BY <1>16 DEF Fail
  <2>5. req[t] \in Request /\ Home[t] \in running
    BY <2>4 DEF Failing, TypeInv, ThreadInv
  <2>6. rows' \subseteq Collection /\ s3' \in Catalogs \union {Torn, None}
    BY <1>d, <1>h, <2>4, <2>5 DEF Leaves, DataOK, Request
  <2>7. active' \in [Task -> Collection \union {None}] /\ cut' \subseteq running
    BY <1>d, <2>4, <2>5 DEF Leaves, MayForget, DataOK
  <2>8. served' \in [Task -> SUBSET Collection] /\ up' \subseteq running
    BY <1>d, <1>h, <2>4, <2>5 DEF Leaves, Started, DataOK
  <2> QED
    BY <1>d, <2>1, <2>2, <2>3, <2>6, <2>7, <2>8 DEF DataOK
<1>17. CASE UNCHANGED vars
  BY <1>d, <1>17 DEF vars, DataOK, ThreadInv, Busy, Shape
<1> QED
  BY <1>1, <1>2, <1>3, <1>6, <1>7, <1>8, <1>9, <1>10, <1>11, <1>12, <1>13, <1>14, <1>15, <1>16, <1>17
     DEF Next, Step

LEMMA TypesHold == Spec => []TypeInv
  BY InitTypes, NextTypes, PTL DEF Spec

\* The variables of the catalog have their types in every reachable state, for
\* any number of tasks, threads and collections and any failing step.
THEOREM TypeCorrect == Spec => []TypeOK
<1>1. TypeInv => TypeOK
  BY DEF TypeInv
<1> QED
  BY <1>1, TypesHold, PTL

-----------------------------------------------------------------------------
(* Served: one request at a time in each task *)

OneEach == \A t, u \in Thread : Home[t] = Home[u] => t = u

Rendered(t) ==
    Busy(t) /\ req[t].kind # "activate"
    /\ (Head(todo[t]) \in {"stop", "start", "reply"} \/ (req[t].kind = "scan" /\ Head(todo[t]) = "sync"))

\* How far thread t has carried the catalog of its task to the workers.
ServedBy(t) ==
    /\ Before(t, "clear") \/ Before(t, "render") => layers[t] = Enabled(catalog[Home[t]])
    /\ Before(t, "start") => Home[t] \notin up
    /\ Rendered(t) => mapfile[Home[t]] = Enabled(catalog[Home[t]])
    /\ \/ Before(t, "reply") /\ req[t].kind # "activate"
       \/ ~Busy(t) /\ reply[t] = "ok" /\ req[t].kind # "activate"
       => Home[t] \in up /\ served[Home[t]] = Enabled(catalog[Home[t]])

ServedInv == \A t \in Thread : ServedBy(t)

LEMMA ServedFrame ==
    ASSUME NEW t \in Thread, ServedBy(t),
           UNCHANGED <<todo[t], req[t], reply[t], layers[t], catalog[Home[t]], mapfile[Home[t]],
                       served[Home[t]]>>,
           Home[t] \in up <=> Home[t] \in up'
    PROVE  ServedBy(t)'
  BY DEF ServedBy, Rendered, Before, Busy, Enabled

LEMMA ServedIdle ==
    ASSUME NEW t \in Thread, ~Busy(t)', reply'[t] # "ok"
    PROVE  ServedBy(t)'
  BY DEF ServedBy, Rendered, Before

LEMMA InitServed == Init => ServedInv
  BY DEF Init, ServedInv, ServedBy, Rendered, Before, Busy

LEMMA NextServed ==
    ASSUME OneEach, "stop" \notin FaultSteps, TypeInv, ServedInv, [Next]_vars
    PROVE  ServedInv'
<1>d. DataOK /\ ThreadInv
  BY TypeIs
<1>h. \A t \in Thread : Home[t] \in Task
  BY CatalogAssumption
<1> USE DEF files
<1>1. ASSUME NEW k \in Task, Start(k) PROVE ServedInv'
  <2> SUFFICES ASSUME NEW t \in Thread PROVE ServedBy(t)'
    BY DEF ServedInv
  <2>1. ServedBy(t) /\ UNCHANGED <<todo, req, reply, layers>>
    BY <1>1 DEF ServedInv, Start
  <2>2. CASE Home[t] = k
    <3>1. ~Busy(t) /\ Home[t] \notin up
      BY <1>d, <1>1, <2>2 DEF Start, ThreadInv, DataOK
    <3> QED
      BY <2>1, <3>1 DEF ServedBy, Rendered, Before, Busy
  <2>3. CASE Home[t] # k
    <3>1. UNCHANGED <<catalog[Home[t]], mapfile[Home[t]], served[Home[t]]>>
          /\ (Home[t] \in up <=> Home[t] \in up')
      BY <1>d, <1>h, <1>1, <2>3 DEF Start, DataOK
    <3> QED
      BY <2>1, <3>1, ServedFrame
  <2> QED
    BY <2>2, <2>3
<1>2. ASSUME NEW k \in Task, Replace(k) \/ AdminRestart(k) PROVE ServedInv'
  <2> SUFFICES ASSUME NEW t \in Thread PROVE ServedBy(t)'
    BY DEF ServedInv
  <2>1. End(ThreadsOf(k), "none") /\ ThreadsOf(k) \in SUBSET Thread
        /\ \A u \in Thread \ ThreadsOf(k) : Home[u] \in running => Home[u] \in running'
    BY <1>2 DEF Replace, AdminRestart, ThreadsOf
  <2>2. CASE Home[t] = k
    <3>0. t \in ThreadsOf(k)
      BY <2>2 DEF ThreadsOf
    <3>1. ~Busy(t)' /\ reply'[t] = "none"
      BY <2>1, <3>0, Ending
    <3> QED
      BY <3>1, ServedIdle
  <2>3. CASE Home[t] # k
    <3>1. UNCHANGED <<todo[t], req[t], reply[t], layers[t]>>
      BY <2>1, <2>3, Ending DEF ThreadsOf
    <3>2. UNCHANGED <<catalog[Home[t]], mapfile[Home[t]], served[Home[t]]>>
          /\ (Home[t] \in up <=> Home[t] \in up')
      BY <1>d, <1>h, <1>2, <2>3 DEF Replace, AdminRestart, DataOK
    <3> QED
      BY <3>1, <3>2, ServedFrame DEF ServedInv
  <2> QED
    BY <2>2, <2>3
<1>3. ASSUME NEW t \in Thread, NEW k \in Kind, NEW c \in Collection, NEW v \in Entry, Accept(t, k, c, v)
      PROVE  ServedInv'
  <2> SUFFICES ASSUME NEW u \in Thread PROVE ServedBy(u)'
    BY DEF ServedInv
  <2>1. /\ Busy(t)' /\ todo'[t] = Script[k] /\ req'[t].kind = k
        /\ u # t => UNCHANGED <<todo[u], req[u], reply[u]>>
    <3>1. /\ Busy(t)' /\ todo'[t] = Script[k] /\ req'[t] = [kind |-> k, target |-> c, value |-> v]
          /\ \A x \in Thread \ {t} : todo'[x] = todo[x] /\ req'[x] = req[x] /\ reply'[x] = reply[x]
      BY <1>3, Accepting
    <3>2. req'[t].kind = k
      BY <3>1
    <3> QED
      BY <3>1, <3>2
  <2>2. UNCHANGED <<catalog, mapfile, served, up, layers>>
    BY <1>3 DEF Accept
  <2>3. CASE u # t
    BY <2>1, <2>2, <2>3, ServedFrame DEF ServedInv
  <2>4. CASE u = t
    <3>1. Head(todo'[t]) \in {"truncate", "rows", "index", "runtime"}
      <4>1. /\ Script["toggle"] = ToggleScript /\ Script["delete"] = DeleteScript
            /\ Script["scan"] = ScanScript /\ Script["activate"] = ActivateScript
        BY DEF Script
      <4> QED
        BY <2>1, <4>1, KindIs, ScriptHeads
    <3> QED
      BY <2>1, <2>4, <3>1 DEF ServedBy, Rendered, Before
  <2> QED
    BY <2>3, <2>4
<1>4. ASSUME NEW t \in Thread, Arrive(t) PROVE ServedInv'
  <2>1. PICK c \in Collection : \/ Delete(t, c) \/ Activate(t, c)
                                \/ \E v \in Entry : Toggle(t, c, v) \/ NoOp(t, c, v) \/ StartScan(t, c, v)
    BY <1>4 DEF Arrive
  <2>2. CASE Delete(t, c) \/ Activate(t, c)
    <3>1. catalog[Home[t]][c] \in Entry
      BY <1>d, <1>h, <2>2 DEF Delete, Activate, Known, DataOK, Catalogs
    <3> QED
      BY <2>2, <3>1, <1>3, KindIs DEF Delete, Activate, Entry
  <2>3. ASSUME NEW v \in Entry, Toggle(t, c, v) \/ StartScan(t, c, v) PROVE ServedInv'
    BY <2>3, <1>3, KindIs DEF Toggle, StartScan
  <2>4. ASSUME NEW v \in Entry, NoOp(t, c, v) PROVE ServedInv'
    <3> SUFFICES ASSUME NEW u \in Thread PROVE ServedBy(u)'
      BY DEF ServedInv
    <3>1. /\ u # t => UNCHANGED <<req[u], reply[u]>>
          /\ reply'[t] = "noop" /\ ~Busy(t)'
          /\ UNCHANGED <<todo, catalog, mapfile, served, up, layers>>
      BY <1>d, <2>4 DEF NoOp, DataOK, ThreadInv, Busy
    <3> QED
      BY <3>1, ServedFrame, ServedIdle DEF ServedInv
  <2> QED
    BY <2>1, <2>2, <2>3, <2>4
\* A step of one thread leaves the files of the other tasks alone.
<1>5. ASSUME NEW t \in Thread, Step(t) \/ Fail(t), NEW u \in Thread, u # t
      PROVE  ServedBy(u)'
  <2>1. Home[u] # Home[t]
    BY <1>5 DEF OneEach
  <2>2. UNCHANGED <<todo[u], req[u]>> /\ UNCHANGED <<reply[u], layers[u]>>
    <3>1. CASE Reply(t) \/ Fail(t)
      <4>1. (End({t}, "ok") \/ End({t}, "error")) /\ UNCHANGED running
        BY <3>1 DEF Reply, Fail
      <4> QED
        BY <1>5, <4>1, Ending
    <3>2. CASE ~Reply(t) /\ ~Fail(t)
      BY <1>d, <1>5, <3>2 DEF Step, DeleteRows, Index, ReadForUpsert, Truncate, WriteCatalog, Sync,
             SaveRuntime, ReadLayers, Clear, Render, StopGroup, StartGroup, Started, At, ThreadInv, DataOK
    <3> QED
      BY <3>1, <3>2
  <2>3. /\ UNCHANGED <<catalog[Home[u]], mapfile[Home[u]], served[Home[u]]>>
        /\ Home[u] \in up <=> Home[u] \in up'
    <3>1. CASE Fail(t)
      BY <1>d, <1>h, <2>1, <3>1 DEF Fail, Leaves, Started, DataOK
    <3>2. CASE Step(t)
      BY <1>d, <1>h, <2>1, <3>2 DEF Step, DeleteRows, Index, ReadForUpsert, Truncate, WriteCatalog, Sync,
             SaveRuntime, ReadLayers, Clear, Render, StopGroup, StartGroup, Started, Reply, DataOK
    <3> QED
      BY <1>5, <3>1, <3>2
  <2> QED
    BY <2>2, <2>3, ServedFrame DEF ServedInv
<1>6. ASSUME NEW t \in Thread, Step(t) PROVE ServedBy(t)'
  <2>k. ASSUME NEW s, s # "reply", At(t, s)
        PROVE  /\ Before(t, s) /\ req[t].kind \in {"toggle", "delete", "scan", "activate"}
               /\ s \in StepsOf(req[t].kind)
               /\ req'[t] = req[t] /\ Before(t, Following(req[t].kind, s))'
    <3>1. req[t] \in Request /\ s \in StepsOf(req[t].kind) /\ Before(t, Following(req[t].kind, s))'
      BY <2>k, Advance
    <3> QED
      BY <2>k, <3>1, KindIs DEF At, Before, Request
  <2>1. CASE DeleteRows(t) \/ Index(t) \/ ReadForUpsert(t) \/ Truncate(t)
    <3>1. Before(t, "truncate")' \/ Before(t, "read")' \/ Before(t, "write")'
      BY <2>1, <2>k DEF DeleteRows, Index, ReadForUpsert, Truncate, Following
    <3> QED
      BY <3>1 DEF ServedBy, Rendered, Before
  <2>2. CASE WriteCatalog(t)
    <3>1. Before(t, "layers")' \/ (Before(t, "sync")' /\ req'[t].kind # "scan")
      BY <2>2, <2>k DEF WriteCatalog, Following
    <3> QED
      BY <3>1 DEF ServedBy, Rendered, Before
  <2>3. CASE Sync(t)
    <3>1. \/ Before(t, "runtime")'
          \/ Before(t, "stop")' /\ req[t].kind = "scan" /\ Before(t, "sync")
      BY <2>3, <2>k DEF Sync, Following
    <3>2. UNCHANGED <<catalog, mapfile>>
      BY <2>3 DEF Sync
    <3> QED
      BY <3>1, <3>2 DEF ServedInv, ServedBy, Rendered, Before, Enabled
  <2>4. CASE SaveRuntime(t)
    <3>1. Before(t, "layers")' \/ (Before(t, "reply")' /\ req'[t].kind = "activate")
      BY <2>4, <2>k DEF SaveRuntime, Following
    <3> QED
      BY <3>1 DEF ServedBy, Rendered, Before
  <2>5. CASE ReadLayers(t)
    <3>1. Before(t, "clear")'
      BY <2>5, <2>k DEF ReadLayers, Following
    <3>2. layers'[t] = Enabled(catalog'[Home[t]])
      BY <1>d, <2>5 DEF ReadLayers, DataOK
    <3> QED
      BY <3>1, <3>2 DEF ServedBy, Rendered, Before
  <2>c. CASE Clear(t)
    <3>1. Before(t, "clear") /\ Before(t, "render")' /\ UNCHANGED <<layers, catalog>>
      BY <2>c, <2>k DEF Clear, Following
    <3> QED
      BY <3>1 DEF ServedInv, ServedBy, Rendered, Before, Enabled
  <2>6. CASE Render(t)
    <3>1. Before(t, "render") /\ ((Before(t, "sync")' /\ req'[t].kind = "scan") \/ Before(t, "stop")')
      BY <2>6, <2>k DEF Render, Following
    <3>2. mapfile'[Home[t]] = layers[t] /\ catalog' = catalog
      BY <1>d, <1>h, <2>6 DEF Render, DataOK
    <3>3. mapfile'[Home[t]] = Enabled(catalog'[Home[t]])
      BY <3>1, <3>2 DEF ServedInv, ServedBy
    <3> QED
      BY <3>1, <3>3 DEF ServedBy, Rendered, Before
  <2>s. CASE StopGroup(t)
    <3>1. Before(t, "stop") /\ Before(t, "start")' /\ req[t].kind # "activate"
      BY <2>s, <2>k DEF StopGroup, Following, StepsOf
    <3>2. mapfile[Home[t]] = Enabled(catalog[Home[t]])
      BY <3>1 DEF ServedInv, ServedBy, Rendered, Before
    <3>3. Home[t] \notin up' /\ UNCHANGED <<catalog, mapfile>>
      BY <2>s DEF StopGroup
    <3> QED
      BY <3>1, <3>2, <3>3 DEF ServedBy, Rendered, Before, Enabled
  <2>7. CASE StartGroup(t)
    <3>1. Before(t, "start") /\ Before(t, "reply")' /\ req[t].kind # "activate"
      BY <2>7, <2>k DEF StartGroup, Following, StepsOf
    <3>2. mapfile[Home[t]] = Enabled(catalog[Home[t]]) /\ Home[t] \notin up
      BY <3>1 DEF ServedInv, ServedBy, Rendered, Before
    <3>3. served'[Home[t]] = mapfile[Home[t]] /\ Home[t] \in up' /\ UNCHANGED <<catalog, mapfile>>
      BY <1>d, <1>h, <2>7, <3>2 DEF StartGroup, Started, DataOK
    <3> QED
      BY <3>1, <3>2, <3>3 DEF ServedBy, Rendered, Before
  <2>8. CASE Reply(t)
    <3>1. End({t}, "ok") /\ UNCHANGED running /\ UNCHANGED <<catalog, mapfile, served, up>>
          /\ Before(t, "reply")
      BY <2>8 DEF Reply, Before
    <3>2. ~Busy(t)' /\ req'[t] = req[t]
      BY <3>1, Ending
    <3> QED
      BY <3>1, <3>2 DEF ServedInv, ServedBy, Rendered, Before
  <2> QED
    BY <1>6, <2>1, <2>2, <2>3, <2>4, <2>5, <2>c, <2>6, <2>s, <2>7, <2>8 DEF Step
<1>7. ASSUME NEW t \in Thread, Fail(t) PROVE ServedBy(t)'
  <2>1. End({t}, "error") /\ UNCHANGED running
    BY <1>7 DEF Fail
  <2>0. {t} \in SUBSET Thread /\ t \in {t}
        /\ \A u \in Thread \ {t} : Home[u] \in running => Home[u] \in running'
    BY <2>1
  <2>2. ~Busy(t)' /\ reply'[t] = "error"
    BY <2>0, <2>1, Ending
  <2> QED
    BY <2>2, ServedIdle
<1>8. CASE UNCHANGED vars
  BY <1>8 DEF vars, ServedInv, ServedBy, Rendered, Before, Busy
<1> QED
  BY <1>1, <1>2, <1>4, <1>5, <1>6, <1>7, <1>8 DEF Next, ServedInv

\* When requests to one task do not overlap and "supervisorctl stop" works, an
\* acknowledged one leaves the workers running with the catalog of their task:
\* whatever other steps fail, tasks are replaced or downloads fail, and
\* whatever the other tasks do (restart_mapserver_group, which ignores a
\* failed stop, after regenerate_mapfile).
THEOREM ServedAfterReply ==
    ASSUME OneEach, "stop" \notin FaultSteps
    PROVE  Spec => []AcknowledgedIsServed
<1>1. ServedInv => AcknowledgedIsServed
  BY DEF ServedInv, ServedBy, AcknowledgedIsServed
<1>2. TypeInv /\ ServedInv /\ [Next]_vars => ServedInv'
  BY NextServed
<1> QED
  BY <1>1, <1>2, InitServed, TypesHold, PTL DEF Spec

-----------------------------------------------------------------------------
(* Durable: one request at a time *)

OneThread == \E t \in Thread : Thread = {t}
OneTask   == \E k \in Task : Task = {k}

\* A catalog whose entries the requests so far allow.
Allowed(cat) == cat \in Catalogs /\ \A c \in Collection : cat[c] \in possible[c]

Changing(t) == Busy(t) /\ req[t].kind # "activate"
Holding(t)  == Busy(t) /\ Head(todo[t]) \in {"rows", "truncate", "write"}
Written(t)  ==
    Changing(t) /\ Head(todo[t]) \in {"sync", "runtime", "layers", "clear", "render", "stop", "start",
                                      "reply"}
Synced(t)   ==
    Changing(t) /\ (Head(todo[t]) \in {"stop", "start", "reply"}
                    \/ (req[t].kind # "scan"
                           /\ Head(todo[t]) \in {"runtime", "layers", "clear", "render"}))

\* How far the request has carried the catalog, from the thread's document
\* over the task's file to S3.
CarriedBy(t) ==
    /\ Home[t] \in running => catalog[Home[t]] = Torn \/ Allowed(catalog[Home[t]])
    /\ Changing(t) => req[t].value \in possible[req[t].target]
    /\ Holding(t) => Allowed(doc[t])
    /\ Written(t) => catalog[Home[t]] \in Catalogs /\ catalog[Home[t]][req[t].target] = req[t].value
    /\ Synced(t) => s3 = catalog[Home[t]]

DurableInv == Allowed(Durable) /\ \A t \in Thread : CarriedBy(t)

LEMMA InitDurable == Init => DurableInv
<1> SUFFICES ASSUME Init PROVE DurableInv
  OBVIOUS
<1>1. Allowed(Durable)
  BY SeedType DEF Init, Allowed, Durable
<1>2. \A t \in Thread : CarriedBy(t)
  BY DEF Init, CarriedBy, Changing, Holding, Written, Synced, Busy
<1> QED
  BY <1>1, <1>2 DEF DurableInv

\* A thread that has nothing to do carries nothing.
LEMMA CarriedIdle ==
    ASSUME NEW t \in Thread, ~Busy(t)',
           Home[t] \in running' => catalog'[Home[t]] = Torn \/ Allowed(catalog[Home[t]])'
    PROVE  CarriedBy(t)'
  BY DEF CarriedBy, Changing, Holding, Written, Synced

\* The catalog of the only thread's task while a request that changes it is
\* on its way.
LEMMA NextDurable ==
    ASSUME OneThread, "download" \notin FaultSteps, TypeInv, DurableInv, [Next]_vars
    PROVE  DurableInv'
<1>d. DataOK /\ ThreadInv
  BY TypeIs
<1>h. \A t \in Thread : Home[t] \in Task
  BY CatalogAssumption
<1>n. Torn \notin Catalogs /\ None \notin Catalogs /\ Torn # None
  BY CatalogAssumption
<1>o. PICK one \in Thread : Thread = {one}
  BY DEF OneThread
<1>a. Allowed(Durable) /\ \A t \in Thread : CarriedBy(t)
  BY DEF DurableInv
<1> USE DEF files
<1>1. ASSUME NEW k \in Task, Start(k) PROVE DurableInv'
  <2>1. /\ catalog' = [catalog EXCEPT ![k] = Durable] /\ running' = running \union {k}
        /\ UNCHANGED <<s3, possible, todo, req, doc>>
    BY <1>1 DEF Start
  <2>2. Allowed(Durable)'
    BY <1>a, <2>1 DEF Allowed, Durable
  <2> SUFFICES ASSUME NEW t \in Thread PROVE CarriedBy(t)'
    BY <2>2 DEF DurableInv
  <2>3. CASE Home[t] = k
    <3>1. ~Busy(t)'
      BY <1>d, <1>1, <2>1, <2>3 DEF Start, ThreadInv, Busy
    <3>2. catalog'[Home[t]] = Durable /\ Allowed(catalog[Home[t]])'
      BY <1>d, <1>a, <2>1, <2>3 DEF DataOK, Allowed
    <3> QED
      BY <3>1, <3>2, CarriedIdle
  <2>4. CASE Home[t] # k
    <3>1. catalog'[Home[t]] = catalog[Home[t]] /\ (Home[t] \in running' => Home[t] \in running)
      BY <1>d, <1>h, <2>1, <2>4 DEF DataOK
    <3> QED
      BY <1>a, <2>1, <3>1 DEF CarriedBy, Changing, Holding, Written, Synced, Busy, Allowed
  <2> QED
    BY <2>3, <2>4
<1>2. ASSUME NEW k \in Task, Replace(k) \/ AdminRestart(k) PROVE DurableInv'
  <2>1. /\ UNCHANGED <<s3, possible>> /\ running' \subseteq running
        /\ End(ThreadsOf(k), "none") /\ ThreadsOf(k) \in SUBSET Thread
        /\ \A u \in Thread \ ThreadsOf(k) : Home[u] \in running => Home[u] \in running'
        /\ \A t \in Thread : Home[t] \in running' => catalog'[Home[t]] = catalog[Home[t]]
    BY <1>d, <1>h, <1>2 DEF Replace, AdminRestart, ThreadsOf, DataOK
  <2>2. Allowed(Durable)'
    BY <1>a, <2>1 DEF Allowed, Durable
  <2> SUFFICES ASSUME NEW t \in Thread PROVE CarriedBy(t)'
    BY <2>2 DEF DurableInv
  <2>3. Home[t] \in running' => catalog'[Home[t]] = Torn \/ Allowed(catalog[Home[t]])'
    BY <1>a, <2>1 DEF CarriedBy, Allowed
  <2>4. CASE Home[t] = k
    BY <2>1, <2>3, <2>4, Ending, CarriedIdle DEF ThreadsOf
  <2>5. CASE Home[t] # k
    <3>t. t \in Thread \ ThreadsOf(k)
      BY <2>5 DEF ThreadsOf
    <3>1. UNCHANGED <<todo[t], req[t], doc[t]>>
      BY <2>1, <3>t, Ending
    <3>2. Busy(t) => Home[t] \in running'
      BY <1>d, <2>1, <2>5 DEF ThreadInv, ThreadsOf
    <3> QED
      BY <1>a, <2>1, <2>3, <3>1, <3>2 DEF CarriedBy, Changing, Holding, Written, Synced, Busy, Allowed
  <2> QED
    BY <2>4, <2>5
\* More is allowed than before.
<1>g. ASSUME \A c \in Collection : possible[c] \subseteq possible'[c], NEW cat, Allowed(cat)
      PROVE  cat \in Catalogs /\ \A c \in Collection : cat[c] \in possible'[c]
  BY <1>g DEF Allowed
<1>3. ASSUME NEW t \in Thread, NEW k \in Kind, NEW c \in Collection, NEW v \in Entry, Accept(t, k, c, v),
             \A x \in Collection : possible[x] \subseteq possible'[x],
             k # "activate" => v \in possible'[c],
             k \in {"toggle", "delete"} => Known(t, c) /\ ReadDoc(t)
      PROVE  DurableInv'
  <2>1. /\ Busy(t)' /\ todo'[t] = Script[k] /\ req'[t] = [kind |-> k, target |-> c, value |-> v]
    BY <1>3, Accepting
  <2>2. UNCHANGED <<running, catalog, s3>> /\ Home[t] \in running
    BY <1>3 DEF Accept
  <2>3. Allowed(Durable)'
    BY <1>a, <1>g, <1>3, <2>2 DEF Allowed, Durable
  <2>4. catalog'[Home[t]] = Torn \/ Allowed(catalog[Home[t]])'
    BY <1>a, <1>g, <1>3, <2>2 DEF CarriedBy, Allowed
  <2>5. /\ Head(todo'[t]) \in {"truncate", "rows", "index", "runtime"}
        /\ Head(todo'[t]) \in {"truncate", "rows"} => k \in {"toggle", "delete"}
        /\ Head(todo'[t]) = "runtime" => k = "activate"
    <3>1. /\ Script["toggle"] = ToggleScript /\ Script["delete"] = DeleteScript
          /\ Script["scan"] = ScanScript /\ Script["activate"] = ActivateScript
      BY DEF Script
    <3> QED
      BY <2>1, <3>1, KindIs, ScriptHeads
  <2>6. req'[t].kind = k /\ req'[t].target = c /\ req'[t].value = v
    BY <2>1
  <2>7. Holding(t)' => Allowed(doc[t])'
    <3> SUFFICES ASSUME Holding(t)' PROVE Allowed(doc[t])'
      OBVIOUS
    <3>1. Known(t, c) /\ ReadDoc(t)
      BY <1>3, <2>5 DEF Holding
    <3>2. doc'[t] = catalog[Home[t]] /\ catalog[Home[t]] # Torn
      BY <1>d, <3>1 DEF ReadDoc, Known, DataOK
    <3> QED
      BY <2>2, <2>4, <3>2 DEF Allowed
  <2>8. CarriedBy(t)'
    BY <1>3, <2>4, <2>5, <2>6, <2>7 DEF CarriedBy, Changing, Written, Synced
  <2> QED
    BY <1>o, <2>3, <2>8 DEF DurableInv
<1>4. ASSUME NEW t \in Thread, Arrive(t) PROVE DurableInv'
  <2>1. PICK c \in Collection : \/ Delete(t, c) \/ Activate(t, c)
                                \/ \E v \in Entry : Toggle(t, c, v) \/ NoOp(t, c, v) \/ StartScan(t, c, v)
    BY <1>4 DEF Arrive
  <2>2. ASSUME NEW v \in Entry, Ask(c, v)
        PROVE  (\A x \in Collection : possible[x] \subseteq possible'[x]) /\ v \in possible'[c]
    BY <1>d, <2>2 DEF Ask, DataOK
  <2>3. CASE Delete(t, c)
    BY <2>2, <2>3, <1>3, KindIs DEF Delete, Entry
  <2>4. CASE Activate(t, c)
    <3>1. catalog[Home[t]][c] \in Entry
      BY <1>d, <1>h, <2>4 DEF Activate, Known, DataOK, Catalogs
    <3> QED
      BY <2>4, <3>1, <1>3, KindIs DEF Activate
  <2>5. ASSUME NEW v \in Entry, Toggle(t, c, v) \/ StartScan(t, c, v) PROVE DurableInv'
    BY <2>2, <2>5, <1>3, KindIs DEF Toggle, StartScan
  <2>6. ASSUME NEW v \in Entry, NoOp(t, c, v) PROVE DurableInv'
    <3>1. ~Busy(t)' /\ UNCHANGED <<running, catalog, s3, possible>>
      BY <2>6 DEF NoOp, Busy
    <3>2. Allowed(Durable)' /\ CarriedBy(t)'
      BY <1>a, <3>1, CarriedIdle DEF Allowed, Durable, CarriedBy
    <3> QED
      BY <1>o, <3>2 DEF DurableInv
  <2> QED
    BY <2>1, <2>3, <2>4, <2>5, <2>6
<1>5. ASSUME NEW t \in Thread, Step(t) PROVE DurableInv'
  <2>k. ASSUME NEW s, s # "reply", At(t, s)
        PROVE  /\ Before(t, s) /\ req[t].kind \in {"toggle", "delete", "scan", "activate"}
               /\ s \in StepsOf(req[t].kind) /\ req[t] \in Request /\ Home[t] \in running
               /\ UNCHANGED <<req, running>> /\ Before(t, Following(req[t].kind, s))'
    <3>1. req[t] \in Request /\ s \in StepsOf(req[t].kind) /\ Before(t, Following(req[t].kind, s))'
          /\ Home[t] \in running
      BY <2>k, Advance
    <3> QED
      BY <2>k, <3>1, KindIs DEF At, Before, Request
  <2> SUFFICES Allowed(Durable)' /\ CarriedBy(t)'
    BY <1>o DEF DurableInv
  <2>u. ASSUME UNCHANGED <<s3, possible>> PROVE Allowed(Durable)'
    BY <1>a, <2>u DEF Allowed, Durable
  <2>1. CASE DeleteRows(t) \/ Index(t)
    <3>1. /\ (Before(t, "truncate")' /\ Holding(t)) \/ Before(t, "read")'
          /\ UNCHANGED <<req, running>> /\ (Changing(t)' => Changing(t))
      BY <2>1, <2>k DEF DeleteRows, Index, Following, Holding, Before, Changing
    <3>2. UNCHANGED <<catalog, s3, doc, possible>>
      BY <2>1 DEF DeleteRows, Index
    <3> QED
      BY <1>a, <2>u, <3>1, <3>2 DEF CarriedBy, Changing, Holding, Written, Synced, Before, Allowed
  <2>2. CASE ReadForUpsert(t)
    <3>1. Before(t, "truncate")' /\ UNCHANGED <<req, running>> /\ Home[t] \in running
          /\ (Changing(t)' => Changing(t))
      BY <2>2, <2>k DEF ReadForUpsert, Following, Before, Changing
    <3>2. UNCHANGED <<catalog, s3, possible>> /\ doc'[t] = catalog[Home[t]] /\ catalog[Home[t]] # Torn
      BY <1>d, <2>2 DEF ReadForUpsert, ReadDoc, DataOK
    <3> QED
      BY <1>a, <2>u, <3>1, <3>2 DEF CarriedBy, Changing, Holding, Written, Synced, Before, Allowed
  <2>3. CASE Truncate(t)
    <3>1. Before(t, "write")' /\ Holding(t) /\ UNCHANGED <<req, running>> /\ (Changing(t)' => Changing(t))
      BY <2>3, <2>k DEF Truncate, Following, Before, Changing, Holding
    <3>2. UNCHANGED <<s3, doc, possible>> /\ catalog'[Home[t]] = Torn
      BY <1>d, <1>h, <2>3 DEF Truncate, DataOK
    <3> QED
      BY <1>a, <2>u, <3>1, <3>2 DEF CarriedBy, Changing, Holding, Written, Synced, Before, Allowed
  <2>4. CASE WriteCatalog(t)
    <3>1. /\ (Before(t, "layers")' /\ req[t].kind = "scan") \/ Before(t, "sync")'
          /\ Holding(t) /\ Changing(t) /\ UNCHANGED <<req, running>> /\ req[t] \in Request
      BY <2>4, <2>k DEF WriteCatalog, Following, StepsOf, Before, Changing, Holding
    <3>2. UNCHANGED <<s3, possible>> /\ catalog'[Home[t]] = NewDoc(t)
      BY <1>d, <1>h, <2>4 DEF WriteCatalog, DataOK
    <3>3. req[t].target \in Collection /\ req[t].value \in Entry
      BY <3>1 DEF Request
    <3>4. /\ NewDoc(t) \in Catalogs /\ NewDoc(t)[req[t].target] = req[t].value
          /\ \A c \in Collection : NewDoc(t)[c] \in possible[c]
      BY <1>a, <3>1, <3>3 DEF CarriedBy, Allowed, NewDoc, Catalogs
    <3> QED
      BY <1>a, <2>u, <3>1, <3>2, <3>4 DEF CarriedBy, Changing, Holding, Written, Synced, Before, Allowed
  <2>5. CASE Sync(t)
    <3>1. /\ Before(t, "stop")' \/ Before(t, "runtime")'
          /\ Written(t) /\ UNCHANGED <<req, running>> /\ Home[t] \in running
      BY <2>5, <2>k DEF Sync, Following, StepsOf, Before, Changing, Written
    <3>2. UNCHANGED <<catalog, possible>> /\ s3' = catalog[Home[t]]
      BY <2>5 DEF Sync
    <3>3. catalog[Home[t]] \in Catalogs /\ Allowed(catalog[Home[t]])
      BY <1>a, <1>n, <3>1 DEF CarriedBy
    <3>4. Durable' = catalog[Home[t]]
      BY <1>n, <3>2, <3>3 DEF Durable
    <3> QED
      BY <1>a, <3>1, <3>2, <3>3, <3>4 DEF CarriedBy, Changing, Holding, Written, Synced, Before, Allowed
  <2>6. CASE SaveRuntime(t) \/ ReadLayers(t) \/ Clear(t) \/ Render(t) \/ StopGroup(t) \/ StartGroup(t)
    <3>1. /\ \/ Before(t, "layers")' \/ Before(t, "reply")' \/ Before(t, "render")'
             \/ Before(t, "sync")' \/ Before(t, "clear")' \/ Before(t, "stop")' \/ Before(t, "start")'
          /\ Written(t)' => Written(t)
          /\ Synced(t)' => Synced(t)
          /\ UNCHANGED <<req, running>> /\ (Changing(t)' => Changing(t))
      BY <2>6, <2>k DEF SaveRuntime, ReadLayers, Clear, Render, StopGroup, StartGroup, Following, StepsOf, Before,
                        Changing, Written, Synced
    <3>2. UNCHANGED <<catalog, s3, possible>>
      BY <2>6 DEF SaveRuntime, ReadLayers, Clear, Render, StopGroup, StartGroup
    <3>3. ~Holding(t)'
      BY <3>1 DEF Before, Holding
    <3> QED
      BY <1>a, <2>u, <3>1, <3>2, <3>3 DEF CarriedBy, Allowed
  <2>7. CASE Reply(t)
    <3>1. End({t}, "ok") /\ UNCHANGED <<running, catalog, s3>> /\ Before(t, "reply")
      BY <2>7 DEF Reply, Before
    <3>2. ~Busy(t)'
      BY <3>1, Ending
    <3>3. CASE req[t].kind = "activate"
      <4>1. UNCHANGED possible
        BY <2>7, <3>3 DEF Reply, Settles
      <4> QED
        BY <1>a, <2>u, <3>1, <3>2, <4>1, CarriedIdle DEF CarriedBy, Allowed
    <3>4. CASE req[t].kind # "activate"
      <4>1. Settles(t)
        BY <1>o, <3>4 DEF Settles
      <4>2. possible' = [possible EXCEPT ![req[t].target] = {req[t].value}]
        BY <2>7, <4>1 DEF Reply
      <4>3. Written(t) /\ Synced(t) /\ req[t] \in Request /\ Home[t] \in running
        BY <1>d, <3>1, <3>4 DEF Written, Synced, Changing, Before, ThreadInv
      <4>4. /\ s3 = catalog[Home[t]] /\ Allowed(catalog[Home[t]])
            /\ catalog[Home[t]][req[t].target] = req[t].value
        BY <1>a, <1>n, <4>3 DEF CarriedBy
      <4>5. \A c \in Collection : catalog[Home[t]][c] \in possible'[c]
        BY <1>d, <4>2, <4>4 DEF Allowed, DataOK
      <4>6. Allowed(catalog[Home[t]])'
        BY <3>1, <4>4, <4>5 DEF Allowed
      <4>7. Durable' = catalog'[Home[t]]
        BY <1>n, <3>1, <4>4 DEF Durable, Allowed
      <4> QED
        BY <3>2, <4>6, <4>7, CarriedIdle DEF Allowed
    <3> QED
      BY <3>3, <3>4
  <2> QED
    BY <1>5, <2>1, <2>2, <2>3, <2>4, <2>5, <2>6, <2>7 DEF Step
<1>6. ASSUME NEW t \in Thread, Fail(t) PROVE DurableInv'
  <2>1. End({t}, "error") /\ UNCHANGED <<running, catalog, possible>>
    BY <1>6 DEF Fail
  <2>2. ~Busy(t)'
    BY <2>1, Ending
  <2>3. CarriedBy(t)'
    BY <1>a, <2>1, <2>2, CarriedIdle DEF CarriedBy, Allowed
  <2>4. PICK s \in StepName : Failing(t, s) /\ Leaves(t, s)
    BY <1>6 DEF Fail
  <2>5. CASE s3' = s3
    BY <1>o, <1>a, <2>1, <2>3, <2>5 DEF DurableInv, Allowed, Durable
  <2>6. CASE s = "sync" /\ s3' = catalog[Home[t]]
    <3>1. req[t] \in Request /\ Home[t] \in running /\ "sync" \in StepsOf(req[t].kind) /\ Before(t, "sync")
      BY <1>d, <2>4, <2>6, ShapeTail DEF Failing, ThreadInv, Before
    <3>2. Written(t)
      BY <3>1 DEF Written, Changing, Before, StepsOf
    <3>3. Allowed(catalog[Home[t]])
      BY <1>a, <1>n, <3>1, <3>2 DEF CarriedBy
    <3>4. Durable' = catalog[Home[t]]
      BY <1>n, <2>6, <3>3 DEF Durable, Allowed
    <3> QED
      BY <1>o, <2>1, <2>3, <3>3, <3>4 DEF DurableInv, Allowed
  <2> QED
    BY <2>4, <2>5, <2>6 DEF Leaves
<1>7. CASE UNCHANGED vars
  BY <1>a, <1>7 DEF vars, DurableInv, CarriedBy, Changing, Holding, Written, Synced, Busy, Allowed, Durable
<1> QED
  BY <1>1, <1>2, <1>4, <1>5, <1>6, <1>7 DEF Next

LEMMA DurableHolds ==
    ASSUME OneThread, "download" \notin FaultSteps
    PROVE  Spec => []DurableInv
<1>1. TypeInv /\ DurableInv /\ [Next]_vars => DurableInv'
  BY NextDurable
<1> QED
  BY <1>1, InitDurable, TypesHold, PTL DEF Spec

\* When requests do not overlap and downloads do not fail, what is in S3 has
\* every acknowledged change, whichever steps fail and whenever tasks are
\* replaced (sync_collections_catalog).
THEOREM Durability ==
    ASSUME OneThread, "download" \notin FaultSteps
    PROVE  Spec => []AcknowledgedIsDurable
<1>1. DurableInv => AcknowledgedIsDurable
  BY CatalogAssumption DEF DurableInv, AcknowledgedIsDurable, Allowed
<1> QED
  BY <1>1, DurableHolds, PTL

\* A catalog is truncated only by a write that is under way, or that failed
\* or was cut short: for any threads and tasks.
TornInv == \A k \in running : catalog[k] = Torn => k \in cut \/ BeingWritten(k)

LEMMA NextTorn ==
    ASSUME TypeInv, TornInv, [Next]_vars
    PROVE  TornInv'
<1>d. DataOK /\ ThreadInv
  BY TypeIs
<1>h. \A t \in Thread : Home[t] \in Task
  BY CatalogAssumption
<1>n. Torn \notin Catalogs
  BY CatalogAssumption
<1> USE DEF files
<1>b. \A k : BeingWritten(k) <=> \E t \in Thread : Home[t] = k /\ Before(t, "write")
  BY DEF BeingWritten, ThreadsOf, Before
\* Nothing more is torn, and a write ends as a write or is recorded.
<1>f. ASSUME running' \subseteq running, \A k \in running' : catalog'[k] = Torn => catalog[k] = Torn,
             \A k \in running' : k \in cut => k \in cut',
             \A u \in Thread : Home[u] \in running' /\ Before(u, "write") =>
                 Before(u, "write")' \/ Home[u] \in cut'
      PROVE  TornInv'
  <2> SUFFICES ASSUME NEW k \in running', catalog'[k] = Torn PROVE k \in cut' \/ BeingWritten(k)'
    BY DEF TornInv
  <2>1. k \in cut \/ BeingWritten(k)
    BY <1>f DEF TornInv
  <2>2. CASE k \in cut
    BY <1>f, <2>2
  <2>3. CASE BeingWritten(k)
    <3>1. PICK u \in Thread : Home[u] = k /\ Before(u, "write")
      BY <2>3, <1>b
    <3>2. Before(u, "write")' \/ k \in cut'
      BY <1>f, <3>1
    <3> QED
      BY <3>1, <3>2 DEF BeingWritten, ThreadsOf, Before, Busy
  <2> QED
    BY <2>1, <2>2, <2>3
<1>1. ASSUME NEW k \in Task, Start(k) PROVE TornInv'
  <2>1. PICK cat : cat # Torn /\ catalog' = [catalog EXCEPT ![k] = cat]
    BY <1>1 DEF Start
  <2>2. running' = running \union {k} /\ k \notin running /\ UNCHANGED <<todo, cut>>
    BY <1>1 DEF Start
  <2> SUFFICES ASSUME NEW j \in running', catalog'[j] = Torn PROVE j \in cut' \/ BeingWritten(j)'
    BY DEF TornInv
  <2>3. j # k /\ j \in running /\ catalog[j] = Torn
    BY <1>d, <2>1, <2>2 DEF DataOK
  <2> QED
    BY <2>2, <2>3 DEF TornInv, BeingWritten, ThreadsOf, Busy
<1>2. ASSUME NEW k \in Task, Replace(k) \/ AdminRestart(k) PROVE TornInv'
  <2>1. /\ End(ThreadsOf(k), "none") /\ ThreadsOf(k) \in SUBSET Thread
        /\ \A u \in Thread \ ThreadsOf(k) : Home[u] \in running => Home[u] \in running'
    BY <1>2 DEF Replace, AdminRestart, ThreadsOf
  <2>2. /\ running' \subseteq running
        /\ \A j \in running' : catalog'[j] = catalog[j] /\ (j \in cut => j \in cut')
        /\ k \in running' /\ BeingWritten(k) => k \in cut'
    BY <1>d, <1>2 DEF Replace, AdminRestart, DataOK
  <2>3. ASSUME NEW u \in Thread, Home[u] \in running', Before(u, "write")
        PROVE  Before(u, "write")' \/ Home[u] \in cut'
    <3>1. CASE Home[u] = k
      BY <2>2, <2>3, <3>1 DEF BeingWritten, ThreadsOf, Before
    <3>2. CASE Home[u] # k
      <4>1. todo'[u] = todo[u]
        <5>1. u \in Thread \ ThreadsOf(k)
          BY <3>2 DEF ThreadsOf
        <5> QED
          BY <2>1, <5>1, Ending
      <4> QED
        BY <2>3, <4>1 DEF Before, Busy
    <3> QED
      BY <3>1, <3>2
  <2> QED
    BY <1>f, <2>2, <2>3
<1>3. ASSUME NEW t \in Thread, Arrive(t) PROVE TornInv'
  <2>1. /\ UNCHANGED <<running, catalog, cut>>
        /\ UNCHANGED todo \/ (~Busy(t) /\ \E k \in Kind : todo' = [todo EXCEPT ![t] = Script[k]])
    BY <1>3, KindIs DEF Arrive, Delete, Activate, Toggle, NoOp, StartScan, Accept
  <2>2. ASSUME NEW u \in Thread, Before(u, "write") PROVE todo'[u] = todo[u]
    BY <1>d, <2>1, <2>2 DEF Before, Busy, ThreadInv
  <2> QED
    BY <1>f, <2>1, <2>2 DEF Before, Busy
\* A step of a thread leaves what the others are before.
<1>o. ASSUME NEW t \in Thread, Step(t) \/ Fail(t), NEW u \in Thread \ {t}, Before(u, "write")
      PROVE  Before(u, "write")'
  <2>1. CASE Reply(t) \/ Fail(t)
    <3>1. (End({t}, "ok") \/ End({t}, "error")) /\ UNCHANGED running
      BY <2>1 DEF Reply, Fail
    <3>2. todo'[u] = todo[u]
      BY <3>1, Ending
    <3> QED
      BY <1>o, <3>2 DEF Before, Busy
  <2>2. CASE Step(t) /\ ~Reply(t)
    <3>1. PICK s : At(t, s)
      BY <2>2 DEF Step, DeleteRows, Index, ReadForUpsert, Truncate, WriteCatalog, Sync, SaveRuntime,
                  ReadLayers, Clear, Render, StopGroup, StartGroup
    <3>2. todo'[u] = todo[u]
      BY <1>d, <3>1 DEF At, ThreadInv
    <3> QED
      BY <1>o, <3>2 DEF Before, Busy
  <2> QED
    BY <1>o, <2>1, <2>2
<1>4. ASSUME NEW t \in Thread, Truncate(t) PROVE TornInv'
  <2>1. Before(t, "write")' /\ ~Before(t, "write")
    BY <1>4, Advance DEF Truncate, Following, At, Before
  <2>2. catalog' = [catalog EXCEPT ![Home[t]] = Torn] /\ UNCHANGED <<running, cut>>
    BY <1>4 DEF Truncate, At
  <2> SUFFICES ASSUME NEW k \in running', catalog'[k] = Torn PROVE k \in cut' \/ BeingWritten(k)'
    BY DEF TornInv
  <2>3. CASE k = Home[t]
    BY <2>1, <2>3 DEF BeingWritten, ThreadsOf, Before, Busy
  <2>4. CASE k # Home[t]
    <3>1. catalog[k] = Torn /\ k \in running
      BY <1>d, <2>2, <2>4 DEF DataOK
    <3>2. CASE k \in cut
      BY <2>2, <3>2
    <3>3. CASE k \notin cut
      <4>1. PICK u \in Thread : Home[u] = k /\ Before(u, "write")
        BY <1>b, <3>1, <3>3 DEF TornInv
      <4>2. Before(u, "write")'
        BY <1>4, <1>o, <2>4, <4>1 DEF Step
      <4> QED
        BY <4>1, <4>2 DEF BeingWritten, ThreadsOf, Before, Busy
    <3> QED
      BY <3>2, <3>3
  <2> QED
    BY <2>3, <2>4
<1>5. ASSUME NEW t \in Thread, WriteCatalog(t) PROVE TornInv'
  <2>1. req[t] \in Request
    BY <1>5, Advance DEF WriteCatalog
  <2>2. NewDoc(t) # Torn
    BY <1>d, <1>n, <2>1 DEF NewDoc, DataOK, Catalogs, Request
  <2>3. /\ catalog' = [catalog EXCEPT ![Home[t]] = NewDoc(t)] /\ UNCHANGED running
        /\ cut' = cut \ {Home[t]}
    BY <1>5 DEF WriteCatalog, At
  <2> SUFFICES ASSUME NEW k \in running', catalog'[k] = Torn PROVE k \in cut' \/ BeingWritten(k)'
    BY DEF TornInv
  <2>4. k # Home[t] /\ catalog[k] = Torn /\ k \in running
    BY <1>d, <1>h, <2>2, <2>3 DEF DataOK
  <2>5. CASE k \in cut
    BY <2>3, <2>4, <2>5
  <2>6. CASE k \notin cut
    <3>1. PICK u \in Thread : Home[u] = k /\ Before(u, "write")
      BY <1>b, <2>4, <2>6 DEF TornInv
    <3>2. Before(u, "write")'
      BY <1>5, <1>o, <2>4, <3>1 DEF Step
    <3> QED
      BY <3>1, <3>2 DEF BeingWritten, ThreadsOf, Before, Busy
  <2> QED
    BY <2>5, <2>6
<1>6. ASSUME NEW t \in Thread, Step(t), ~Truncate(t), ~WriteCatalog(t) PROVE TornInv'
  <2>1. UNCHANGED <<running, catalog, cut>> /\ ~Before(t, "write")
    BY <1>6 DEF Step, DeleteRows, Index, ReadForUpsert, Sync, SaveRuntime, ReadLayers, Clear, Render,
                StopGroup, StartGroup, Reply, At, Before
  <2> QED
    BY <1>6, <1>f, <1>o, <2>1
<1>7. ASSUME NEW t \in Thread, Fail(t) PROVE TornInv'
  <2>1. PICK s \in StepName : Failing(t, s) /\ Leaves(t, s)
    BY <1>7 DEF Fail
  <2>2. UNCHANGED <<running, catalog>> /\ cut \subseteq cut' /\ (Before(t, "write") => Home[t] \in cut')
    BY <1>7, <2>1 DEF Fail, Failing, Leaves, Before
  <2> QED
    BY <1>7, <1>f, <1>o, <2>2
<1>8. CASE UNCHANGED vars
  BY <1>8 DEF vars, TornInv, BeingWritten, ThreadsOf, Busy
<1> QED
  BY <1>1, <1>2, <1>3, <1>4, <1>5, <1>6, <1>7, <1>8 DEF Next

\* No request of a single task undoes another one, and the catalog is
\* truncated for no longer than a write takes, unless that failed or was cut
\* short.
THEOREM NothingUndone ==
    ASSUME OneThread, OneTask, "download" \notin FaultSteps
    PROVE  Spec => []CatalogKeepsAcknowledged
<1>1. TypeInv /\ DurableInv /\ TornInv => CatalogKeepsAcknowledged
  <2> SUFFICES ASSUME TypeInv, DurableInv, TornInv, NEW k \in running \ cut, ~BeingWritten(k)
               PROVE  catalog[k] # Torn /\ \A c \in Collection : catalog[k][c] \in possible[c]
    BY DEF CatalogKeepsAcknowledged
  <2>1. PICK t \in Thread : Thread = {t}
    BY DEF OneThread
  <2>2. k = Home[t]
    BY CatalogAssumption DEF OneTask, TypeInv, TypeOK
  <2>3. catalog[k] # Torn
    BY DEF TornInv
  <2> QED
    BY <2>2, <2>3 DEF DurableInv, CarriedBy, Allowed
<1>2. Init => TornInv
  BY DEF Init, TornInv
<1>3. TypeInv /\ TornInv /\ [Next]_vars => TornInv'
  BY NextTorn
<1>4. Spec => []TornInv
  BY <1>2, <1>3, TypesHold, PTL DEF Spec
<1> QED
  BY <1>1, <1>4, DurableHolds, TypesHold, PTL

-----------------------------------------------------------------------------
(* Gone: one request at a time in one task *)

Away(c) == c \notin rows /\ \A k \in Task : active[k] # c /\ c \notin served[k]
Gone(c) == possible[c] = {"absent"}

\* How far a delete has removed its collection; no other request is about
\* one that is gone.
RemovedBy(t) ==
    Busy(t) =>
        /\ req[t].kind \in {"toggle", "scan"} => req[t].value # "absent"
        /\ req[t].kind = "delete" => req[t].value = "absent"
        /\ req[t].kind = "activate" => ~Gone(req[t].target)
        /\ req[t].kind = "delete" /\ Head(todo[t]) # "rows" => req[t].target \notin rows
        /\ req[t].kind = "delete" /\ Head(todo[t]) \in {"layers", "clear", "render", "stop", "start", "reply"}
               => active[Home[t]] # req[t].target

GoneInv ==
    /\ \A c \in Collection : Gone(c) => Away(c)
    /\ \A t \in Thread : RemovedBy(t)

LEMMA InitGone == Init => GoneInv
  BY CatalogAssumption DEF Init, GoneInv, Gone, Away, RemovedBy, Busy

LEMMA NextGone ==
    ASSUME OneThread, OneTask, "download" \notin FaultSteps, "stop" \notin FaultSteps, TypeInv, ServedInv, DurableInv, GoneInv, [Next]_vars
    PROVE  GoneInv'
<1>d. DataOK /\ ThreadInv
  BY TypeIs
<1>h. \A t \in Thread : Home[t] \in Task
  BY CatalogAssumption
<1>n. Torn \notin Catalogs /\ None \notin Catalogs /\ Torn # None /\ None \notin Collection
  BY CatalogAssumption
<1>o. PICK one \in Thread : Thread = {one}
  BY DEF OneThread
<1>k. \A t \in Thread : Task = {Home[t]}
  BY <1>h DEF OneTask
<1>a. (\A c \in Collection : Gone(c) => Away(c)) /\ \A t \in Thread : RemovedBy(t) /\ CarriedBy(t)
  BY DEF GoneInv, DurableInv
\* A collection that is gone is enabled in no catalog that is allowed.
<1>e. ASSUME NEW cat, Allowed(cat), NEW c \in Collection, Gone(c) PROVE c \notin Enabled(cat)
  <2>1. cat[c] = "absent"
    BY <1>e DEF Allowed, Gone
  <2> QED
    BY <2>1 DEF Enabled
<1>i. ASSUME NEW t \in Thread, ~Busy(t)' PROVE RemovedBy(t)'
  BY <1>i DEF RemovedBy
<1> USE DEF files
\* The workers that a request starts read a mapfile without it.
<1>s. ASSUME NEW t \in Thread, Before(t, "start"), Started(Home[t]), UNCHANGED <<rows, possible>>,
             \A k \in Task : active'[k] \in {active[k], None}
      PROVE  \A c \in Collection : Gone(c)' => Away(c)'
  <2>1. "start" \in StepsOf(req[t].kind) /\ req[t] \in Request /\ Home[t] \in running
    BY <1>d, <1>s, ShapeTail DEF ThreadInv, Before
  <2>2. req[t].kind # "activate"
    BY <2>1 DEF StepsOf
  <2>3. mapfile[Home[t]] = Enabled(catalog[Home[t]]) /\ Allowed(catalog[Home[t]])
    BY <1>a, <1>n, <1>s, <2>1, <2>2 DEF ServedInv, ServedBy, Rendered, CarriedBy, Written, Changing, Before
  <2>4. served'[Home[t]] \in {served[Home[t]], mapfile[Home[t]]}
    BY <1>d, <1>h, <1>s DEF Started, DataOK
  <2> SUFFICES ASSUME NEW c \in Collection, Gone(c)' PROVE Away(c)'
    OBVIOUS
  <2>5. Gone(c) /\ Away(c)
    BY <1>a, <1>s DEF Gone
  <2>6. c \notin served'[Home[t]]
    BY <1>e, <1>h, <2>3, <2>4, <2>5 DEF Away
  <2> QED
    BY <1>k, <1>n, <1>s, <2>5, <2>6 DEF Away
<1>1. ASSUME NEW k \in Task, Start(k) PROVE GoneInv'
  <2>1. PICK cat \in {Durable} \union (IF "download" \in FaultSteps THEN {Seed} ELSE {}) :
          /\ cat # Torn
          /\ served' = [served EXCEPT ![k] = Enabled(cat)]
    BY <1>1 DEF Start
  <2>2. UNCHANGED <<active, rows, possible, todo, req>>
    BY <1>1 DEF Start
  <2>3. ASSUME NEW t \in Thread PROVE RemovedBy(t)'
    BY <1>a, <2>2 DEF RemovedBy, Busy, Gone
  <2>4. ASSUME NEW c \in Collection, Gone(c)' PROVE Away(c)'
    <3>1. Gone(c) /\ Away(c)
      BY <1>a, <2>2, <2>4 DEF Gone
    <3>2. Allowed(Durable) /\ cat = Durable
      BY <2>1 DEF DurableInv
    <3>3. c \notin Enabled(cat)
      BY <1>e, <3>1, <3>2
    <3> QED
      BY <1>d, <2>1, <2>2, <3>1, <3>3 DEF Away, DataOK
  <2> QED
    BY <2>3, <2>4 DEF GoneInv
<1>2. ASSUME NEW k \in Task, Replace(k) \/ AdminRestart(k) PROVE GoneInv'
  <2>1. /\ UNCHANGED <<rows, possible>>
        /\ End(ThreadsOf(k), "none") /\ ThreadsOf(k) \in SUBSET Thread
        /\ \A u \in Thread \ ThreadsOf(k) : Home[u] \in running => Home[u] \in running'
    BY <1>2 DEF Replace, AdminRestart, ThreadsOf
  <2>2. \A t \in Thread : t \in ThreadsOf(k)
    BY <1>k DEF ThreadsOf
  <2>3. \A t \in Thread : RemovedBy(t)'
    BY <1>i, <2>1, <2>2, Ending
  <2>4. \A j \in Task : active'[j] \in {active[j], None} /\ served'[j] \in {served[j], {}}
    BY <1>d, <1>2 DEF Replace, AdminRestart, MayForget, DataOK
  <2>5. \A c \in Collection : Gone(c)' => Away(c)'
    BY <1>a, <1>n, <2>1, <2>4 DEF Gone, Away
  <2> QED
    BY <2>3, <2>5 DEF GoneInv
<1>3. ASSUME NEW t \in Thread, NEW k \in Kind, NEW c \in Collection, NEW v \in Entry, Accept(t, k, c, v),
             \A x \in Collection : Gone(x)' => Gone(x),
             k \in {"toggle", "scan"} => v # "absent",
             k = "delete" => v = "absent",
             k = "activate" => ~Gone(c)'
      PROVE  GoneInv'
  <2>1. /\ Busy(t)' /\ todo'[t] = Script[k] /\ req'[t] = [kind |-> k, target |-> c, value |-> v]
    BY <1>3, Accepting
  <2>2. UNCHANGED <<active, served, rows>>
    BY <1>3 DEF Accept
  <2>3. k = "delete" => Head(todo'[t]) = "rows"
    <3>1. Script["delete"] = DeleteScript
      BY DEF Script
    <3> QED
      BY <2>1, <3>1, ScriptHeads
  <2>4. req'[t].kind = k /\ req'[t].target = c /\ req'[t].value = v
    BY <2>1
  <2>5. RemovedBy(t)'
    BY <1>3, <2>3, <2>4 DEF RemovedBy
  <2>6. \A x \in Collection : Gone(x)' => Away(x)'
    BY <1>a, <1>3, <2>2 DEF Away
  <2> QED
    BY <1>o, <2>5, <2>6 DEF GoneInv
\* What a task knows is not gone.
<1>4. ASSUME NEW t \in Thread, NEW c \in Collection, Known(t, c), Home[t] \in running
      PROVE  catalog[Home[t]][c] \in possible[c] /\ catalog[Home[t]][c] # "absent"
             /\ catalog[Home[t]][c] \in Entry
  BY <1>a, <1>4 DEF Known, CarriedBy, Allowed, Catalogs
<1>5. ASSUME NEW t \in Thread, Arrive(t) PROVE GoneInv'
  <2>1. PICK c \in Collection : \/ Delete(t, c) \/ Activate(t, c)
                                \/ \E v \in Entry : Toggle(t, c, v) \/ NoOp(t, c, v) \/ StartScan(t, c, v)
    BY <1>5 DEF Arrive
  <2>2. ASSUME NEW v \in Entry, Ask(c, v),
               v # "absent" \/ \E w \in possible[c] : w # "absent"
        PROVE  \A x \in Collection : Gone(x)' => Gone(x)
    BY <1>d, <2>2 DEF Ask, DataOK, Gone
  <2>3. CASE Delete(t, c)
    <3>1. \E w \in possible[c] : w # "absent"
      BY <1>4, <2>3 DEF Delete, Accept
    <3>2. Ask(c, "absent") /\ Accept(t, "delete", c, "absent") /\ "absent" \in Entry /\ "delete" \in Kind
      BY <2>3, KindIs DEF Delete, Entry
    <3>3. \A x \in Collection : Gone(x)' => Gone(x)
      BY <2>2, <3>1, <3>2
    <3> QED
      BY <1>3, <3>2, <3>3
  <2>4. CASE Activate(t, c)
    <3>1. catalog[Home[t]][c] \in Entry /\ ~Gone(c)
      BY <1>4, <2>4 DEF Activate, Accept, Gone
    <3>2. \A x \in Collection : Gone(x)' = Gone(x)
      BY <2>4 DEF Activate, Gone
    <3> QED
      BY <2>4, <3>1, <3>2, <1>3, KindIs DEF Activate
  <2>5. ASSUME NEW v \in Entry, Toggle(t, c, v) \/ StartScan(t, c, v) PROVE GoneInv'
    <3>1. Ask(c, v) /\ v # "absent"
      BY <2>5 DEF Toggle, StartScan
    <3>2. \A x \in Collection : Gone(x)' => Gone(x)
      BY <2>2, <3>1
    <3> QED
      BY <2>5, <3>1, <3>2, <1>3, KindIs DEF Toggle, StartScan
  <2>6. ASSUME NEW v \in Entry, NoOp(t, c, v) PROVE GoneInv'
    <3>1. ~Busy(t)' /\ UNCHANGED <<active, served, rows, possible>>
      BY <2>6 DEF NoOp, Busy
    <3>2. RemovedBy(t)' /\ \A x \in Collection : Gone(x)' => Away(x)'
      BY <1>a, <1>i, <3>1 DEF Gone, Away
    <3> QED
      BY <1>o, <3>2 DEF GoneInv
  <2> QED
    BY <2>1, <2>3, <2>4, <2>5, <2>6
<1>6. ASSUME NEW t \in Thread, Step(t) PROVE GoneInv'
  <2>k. ASSUME NEW s, s # "reply", At(t, s)
        PROVE  /\ Before(t, s) /\ req[t].kind \in {"toggle", "delete", "scan", "activate"}
               /\ s \in StepsOf(req[t].kind) /\ req[t] \in Request
               /\ UNCHANGED req /\ Before(t, Following(req[t].kind, s))'
    <3>1. req[t] \in Request /\ s \in StepsOf(req[t].kind) /\ Before(t, Following(req[t].kind, s))'
      BY <2>k, Advance
    <3> QED
      BY <2>k, <3>1, KindIs DEF At, Before, Request
  <2> SUFFICES (\A c \in Collection : Gone(c)' => Away(c)') /\ RemovedBy(t)'
    BY <1>o DEF GoneInv
  <2>1. CASE DeleteRows(t) \/ Index(t)
    <3>1. /\ Before(t, "rows") \/ Before(t, "index")
          /\ Before(t, "truncate")' \/ Before(t, "read")'
          /\ Before(t, "index") => req[t].kind = "scan"
          /\ Before(t, "rows") => req[t].kind = "delete"
          /\ UNCHANGED req /\ req[t] \in Request
      BY <2>1, <2>k DEF DeleteRows, Index, Following, StepsOf, Before
    <3>2. /\ UNCHANGED <<active, served, possible>>
          /\ Before(t, "rows") => rows' = rows \ {req[t].target}
          /\ Before(t, "index") => rows' = rows \union {req[t].target}
      BY <2>1 DEF DeleteRows, Index, At, Before
    <3>3. Before(t, "index") => ~Gone(req[t].target)
      BY <1>a, <3>1 DEF RemovedBy, CarriedBy, Changing, Before, Gone
    <3>4. RemovedBy(t)'
      BY <1>a, <3>1, <3>2 DEF RemovedBy, Before, Gone
    <3>5. \A c \in Collection : Gone(c)' => Away(c)'
      BY <1>a, <3>1, <3>2, <3>3 DEF Gone, Away
    <3> QED
      BY <3>4, <3>5
  <2>2. CASE \/ ReadForUpsert(t) \/ Truncate(t) \/ WriteCatalog(t) \/ Sync(t) \/ ReadLayers(t)
             \/ Clear(t) \/ Render(t) \/ StopGroup(t)
    <3>1. /\ UNCHANGED <<req, active, served, rows, possible>> /\ Busy(t)
          /\ req[t].kind = "delete" => Head(todo[t]) # "rows"
          /\ req[t].kind = "delete" /\ Head(todo'[t]) \in {"layers", "clear", "render", "stop", "start", "reply"}
                 => Head(todo[t]) \in {"layers", "clear", "render", "stop", "start", "reply"}
      BY <2>2, <2>k DEF ReadForUpsert, Truncate, WriteCatalog, Sync, ReadLayers, Clear, Render,
                        StopGroup, Following, StepsOf, Before
    <3> QED
      BY <1>a, <3>1 DEF RemovedBy, Gone, Away
  <2>3. CASE SaveRuntime(t)
    <3>1. /\ UNCHANGED <<req, served, rows, possible>> /\ Before(t, "runtime") /\ req[t] \in Request
          /\ active'[Home[t]] = NewActive(t)
          /\ req[t].kind \in {"toggle", "delete", "activate"}
      BY <1>d, <1>h, <2>3, <2>k DEF SaveRuntime, DataOK, StepsOf
    <3>2. req[t].kind = "delete" => NewActive(t) # req[t].target
      BY <1>a, <1>n, <3>1 DEF RemovedBy, NewActive, Forget, Before, Request
    <3>3. RemovedBy(t)'
      BY <1>a, <3>1, <3>2 DEF RemovedBy, Before, Gone
    <3>4. NewActive(t) \in {active[Home[t]], None} \/ ~Gone(NewActive(t))
      BY <1>a, <3>1 DEF RemovedBy, NewActive, Before
    <3>5. ASSUME NEW c \in Collection, Gone(c)' PROVE Away(c)'
      <4>1. Gone(c) /\ Away(c)
        BY <1>a, <3>1, <3>5 DEF Gone
      <4>2. NewActive(t) # c
        BY <1>h, <1>n, <3>4, <4>1 DEF Away
      <4> QED
        BY <1>k, <3>1, <4>1, <4>2 DEF Away
    <3> QED
      BY <3>3, <3>5
  <2>4. CASE StartGroup(t)
    <3>1. /\ UNCHANGED <<req, active, rows, possible, catalog>> /\ Before(t, "start")
          /\ Before(t, "reply")' /\ Started(Home[t])
      BY <2>4, <2>k DEF StartGroup, Following
    <3>2. RemovedBy(t)'
      BY <1>a, <3>1 DEF RemovedBy, Before, Gone
    <3> QED
      BY <1>s, <3>1, <3>2
  <2>5. CASE Reply(t)
    <3>1. End({t}, "ok") /\ UNCHANGED <<running, catalog, mapfile, served, up, active, rows>>
          /\ Before(t, "reply") /\ req[t] \in Request
      BY <1>d, <2>5 DEF Reply, Before, ThreadInv
    <3>2. RemovedBy(t)'
      BY <1>i, <3>1, Ending
    <3>3. ASSUME NEW c \in Collection, Gone(c)', ~Gone(c) PROVE Away(c)'
      <4>1. req[t].kind # "activate" /\ possible' = [possible EXCEPT ![req[t].target] = {req[t].value}]
        BY <2>5, <3>3 DEF Reply, Settles, Gone
      <4>2. c = req[t].target /\ req[t].value = "absent"
        BY <1>d, <3>3, <4>1 DEF Gone, DataOK
      <4>3. req[t].kind = "delete"
        BY <1>a, <3>1, <4>1, <4>2, KindIs DEF RemovedBy, Before, Request
      <4>4. c \notin rows /\ active[Home[t]] # c
        BY <1>a, <3>1, <4>2, <4>3 DEF RemovedBy, Before
      <4>5. served[Home[t]] = Enabled(catalog[Home[t]])
        BY <3>1, <4>1 DEF ServedInv, ServedBy
      <4>6. catalog[Home[t]][c] = "absent"
        BY <1>a, <3>1, <4>1, <4>2 DEF CarriedBy, Written, Changing, Before
      <4>7. c \notin served[Home[t]]
        BY <4>5, <4>6 DEF Enabled
      <4> QED
        BY <1>k, <3>1, <4>4, <4>7 DEF Away
    <3>4. \A c \in Collection : Gone(c) => Away(c)'
      BY <1>a, <3>1 DEF Away
    <3> QED
      BY <3>2, <3>3, <3>4
  <2> QED
    BY <1>6, <2>1, <2>2, <2>3, <2>4, <2>5 DEF Step
<1>7. ASSUME NEW t \in Thread, Fail(t) PROVE GoneInv'
  <2>1. End({t}, "error") /\ UNCHANGED <<running, catalog, mapfile, possible>>
    BY <1>7 DEF Fail
  <2>2. RemovedBy(t)'
    BY <1>i, <2>1, Ending
  <2>3. PICK s \in StepName : Failing(t, s) /\ Leaves(t, s)
    BY <1>7 DEF Fail
  <2>4. rows' = rows \/ (Before(t, "index") /\ rows' = rows \union {req[t].target})
    BY <2>3 DEF Failing, Leaves, Before
  <2>5. Before(t, "index") => ~Gone(req[t].target)
    <3> SUFFICES ASSUME Before(t, "index") PROVE ~Gone(req[t].target)
      OBVIOUS
    <3>1. req[t] \in Request /\ "index" \in StepsOf(req[t].kind)
      BY <1>d, ShapeTail DEF ThreadInv, Before
    <3>2. req[t].kind = "scan"
      BY <3>1, KindIs DEF StepsOf, Request
    <3> QED
      BY <1>a, <3>2 DEF RemovedBy, CarriedBy, Changing, Before, Gone
  <2>a. \A k \in Task : active'[k] \in {active[k], None}
    BY <1>d, <2>3 DEF Leaves, MayForget, DataOK
  <2>6. \A c \in Collection : Gone(c)' => Away(c)'
    <3>1. CASE UNCHANGED served
      BY <1>a, <1>n, <2>1, <2>4, <2>5, <2>a, <3>1 DEF Gone, Away
    <3>2. CASE s = "start" /\ Started(Home[t])
      <4>1. Before(t, "start") /\ UNCHANGED rows
        BY <2>3, <3>2 DEF Failing, Leaves, Before
      <4> QED
        BY <1>s, <2>1, <2>a, <3>2, <4>1
    <3> QED
      BY <2>3, <3>1, <3>2 DEF Leaves
  <2> QED
    BY <1>o, <2>2, <2>6 DEF GoneInv
<1>8. CASE UNCHANGED vars
  BY <1>a, <1>8 DEF vars, GoneInv, RemovedBy, Gone, Away, Busy
<1> QED
  BY <1>1, <1>2, <1>5, <1>6, <1>7, <1>8 DEF Next

\* A collection whose delete was acknowledged has left the rows, the running
\* workers and the choice of the active collection, and no later request or
\* failure of the task brings it back (delete_collection).
THEOREM DeleteIsComplete ==
    ASSUME OneThread, OneTask, "download" \notin FaultSteps, "stop" \notin FaultSteps
    PROVE  Spec => []DeletedIsGone
<1>1. TypeInv /\ ServedInv /\ DurableInv /\ GoneInv /\ [Next]_vars => GoneInv'
  BY NextGone
<1>2. OneEach
  BY DEF OneThread, OneEach
<1>3. TypeInv /\ ServedInv /\ [Next]_vars => ServedInv'
  BY <1>2, NextServed
<1>4. Spec => []DurableInv
  BY DurableHolds
<1>5. Spec => [](TypeInv /\ ServedInv)
  BY <1>3, InitServed, TypesHold, PTL DEF Spec
<1>6. Spec => []GoneInv
  BY <1>1, <1>4, <1>5, InitGone, PTL DEF Spec
<1>7. TypeInv /\ GoneInv => DeletedIsGone
  BY DEF TypeInv, TypeOK, GoneInv, DeletedIsGone, Gone, Away
<1> QED
  BY <1>5, <1>6, <1>7, PTL
=============================================================================
