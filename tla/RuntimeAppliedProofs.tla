--------------------------- MODULE RuntimeAppliedProofs ---------------------------
(***************************************************************************)
(* Proofs about Runtime: types for any threads, and that an acknowledged   *)
(* request that no other overlapped is in force.                           *)
(***************************************************************************)
EXTENDS RuntimeProofs

-----------------------------------------------------------------------------
(* The order of the steps *)

\* A settings request has a plan before it saves ("settings") and another
\* after it: "both" when the cache setting has changed, "tune" when not.
StepsOf(p) ==
    CASE p = "settings" -> {"read", "truncate", "save", "reply"}
      [] p = "rebuild" -> {"generate", "clear map", "write map", "stop", "start", "reply"}
      [] p = "numprocs" -> {"write numprocs", "update", "reply"}
      [] p = "tune" -> {"read map", "clear map", "write map", "stop", "start", "reply"}
      [] OTHER -> {"read map", "clear map", "write map", "stop", "start",
                   "write nginx", "reload nginx", "reply"}

Following(p, s) ==
    CASE s = "read" -> "truncate"
      [] s = "truncate" -> "save"
      [] s \in {"read map", "generate"} -> "clear map"
      [] s = "clear map" -> "write map"
      [] s = "write map" -> "stop"
      [] s = "stop" -> "start"
      [] s = "start" -> IF p = "both" THEN "write nginx" ELSE "reply"
      [] s = "write nginx" -> "reload nginx"
      [] s = "write numprocs" -> "update"
      [] OTHER -> "reply"

\* What is left of the steps of a plan.
InOrder(p, s) ==
    /\ s # << >>
    /\ \A i \in 1 .. Len(s) :
          /\ s[i] \in StepsOf(p)
          /\ IF i = Len(s) THEN s[i] = "reply"
             ELSE s[i] # "reply" /\ s[i + 1] = Following(p, s[i])

\* A step taken leaves the rest, and the order says what its first step is.
LEMMA OrderTail ==
    ASSUME NEW p, NEW s \in Seq(Step), InOrder(p, s)
    PROVE  /\ Head(s) \in StepsOf(p) /\ Tail(s) \in Seq(Step)
           /\ Head(s) = "reply" => Tail(s) = << >>
           /\ Head(s) # "reply" => InOrder(p, Tail(s)) /\ Head(Tail(s)) = Following(p, Head(s))
<1>1. Len(s) \in Nat /\ Len(s) > 0 /\ Head(s) = s[1] /\ Tail(s) \in Seq(Step)
  BY DEF InOrder
<1>2. Len(Tail(s)) = Len(s) - 1 /\ \A i \in 1 .. Len(s) - 1 : Tail(s)[i] = s[i + 1]
  BY <1>1
<1>3. s[1] \in StepsOf(p) /\ IF 1 = Len(s) THEN s[1] = "reply"
                             ELSE s[1] # "reply" /\ s[1 + 1] = Following(p, s[1])
  <2>1. 1 \in 1 .. Len(s)
    BY <1>1
  <2> QED
    BY <2>1 DEF InOrder
<1>4. CASE Len(s) = 1
  <2>1. Tail(s) = << >>
    <3>1. Len(Tail(s)) = 0
      BY <1>2, <1>4
    <3> QED
      BY <1>1, <3>1, EmptySeq
  <2> QED
    BY <1>1, <1>3, <1>4, <2>1
<1>5. CASE Len(s) # 1
  <2> DEFINE tail == Tail(s)
  <2>1. Len(tail) \in Nat /\ Len(tail) > 0 /\ tail \in Seq(Step)
    BY <1>1, <1>2, <1>5
  <2>2. tail[1] = s[2] /\ 1 + 1 = 2
    BY <1>1, <1>2, <1>5
  <2>0. Len(<< >>) = 0
    OBVIOUS
  <2>3. tail # << >> /\ Len(tail) = Len(s) - 1
    <3> HIDE DEF tail
    <3>1. tail # << >>
      BY <2>0, <2>1
    <3> QED
      BY <1>2, <3>1 DEF tail
  <2>4. Head(tail) = tail[1]
    BY <2>1, <2>3
  <2>5. ASSUME NEW i \in 1 .. Len(tail)
        PROVE  /\ tail[i] \in StepsOf(p)
               /\ IF i = Len(tail) THEN tail[i] = "reply"
                  ELSE tail[i] # "reply" /\ tail[i + 1] = Following(p, tail[i])
    <3>1. i + 1 \in 1 .. Len(s) /\ tail[i] = s[i + 1] /\ (i = Len(tail) <=> i + 1 = Len(s))
      BY <1>1, <1>2, <2>3
    <3>2. i # Len(tail) => tail[i + 1] = s[(i + 1) + 1]
      <4> SUFFICES ASSUME i # Len(tail) PROVE tail[i + 1] = s[(i + 1) + 1]
        OBVIOUS
      <4>1. i + 1 \in 1 .. Len(s) - 1
        <5>1. Len(tail) = Len(s) - 1 /\ Len(s) \in Nat
          BY <1>1, <2>3
        <5> HIDE DEF tail
        <5> QED
          BY <5>1
      <4> QED
        BY <1>2, <4>1
    <3>3. /\ s[i + 1] \in StepsOf(p)
          /\ IF i + 1 = Len(s) THEN s[i + 1] = "reply"
             ELSE s[i + 1] # "reply" /\ s[(i + 1) + 1] = Following(p, s[i + 1])
      BY <3>1 DEF InOrder
    <3> HIDE DEF tail
    <3> QED
      BY <3>1, <3>2, <3>3
  <2> HIDE DEF tail
  <2>6. InOrder(p, tail)
    BY <2>3, <2>5 DEF InOrder
  <2>7. s[1] # "reply" /\ s[2] = Following(p, s[1])
    BY <1>3, <1>5, <2>2
  <2> QED
    BY <1>1, <1>3, <2>1, <2>2, <2>4, <2>6, <2>7 DEF tail
<1> QED
  BY <1>4, <1>5

LEMMA EmptyLen == Len(<< >>) = 0
  OBVIOUS

LEMMA UpToEight ==
    \A i \in 1 .. 8 : i = 1 \/ i = 2 \/ i = 3 \/ i = 4 \/ i = 5 \/ i = 6 \/ i = 7 \/ i = 8
  OBVIOUS

LEMMA UpToSeven == \A i \in 1 .. 7 : i = 1 \/ i = 2 \/ i = 3 \/ i = 4 \/ i = 5 \/ i = 6 \/ i = 7
  OBVIOUS

LEMMA UpToFour == \A i \in 1 .. 4 : i = 1 \/ i = 2 \/ i = 3 \/ i = 4
  OBVIOUS

LEMMA UpToThree == \A i \in 1 .. 3 : i = 1 \/ i = 2 \/ i = 3
  OBVIOUS

LEMMA Next8 == /\ 1 + 1 = 2 /\ 2 + 1 = 3 /\ 3 + 1 = 4 /\ 4 + 1 = 5
              /\ 5 + 1 = 6 /\ 6 + 1 = 7 /\ 7 + 1 = 8
  OBVIOUS

\* Every request begins with the whole of its script.
LEMMA ScriptOrder ==
    ASSUME NEW r \in Request
    PROVE  /\ Script[r.kind] \in Seq(Step) /\ InOrder(r.kind, Script[r.kind])
           /\ Head(Script[r.kind]) = CASE r.kind = "settings" -> "read"
                                       [] r.kind = "rebuild" -> "generate"
                                       [] r.kind = "numprocs" -> "write numprocs"
<1>1. r.kind \in {"settings", "rebuild", "numprocs"}
  BY DEF Request
<1> DEFINE a == <<"read", "truncate", "save", "reply">>
           b == <<"generate", "clear map", "write map", "stop", "start", "reply">>
           c == <<"write numprocs", "update", "reply">>
<1>2. Script["settings"] = a /\ Script["rebuild"] = b /\ Script["numprocs"] = c
  BY DEF Script
<1>3. a \in Seq(Step) /\ b \in Seq(Step) /\ c \in Seq(Step)
  BY DEF Step
<1>4. /\ Len(a) = 4 /\ a[1] = "read" /\ a[2] = "truncate" /\ a[3] = "save" /\ a[4] = "reply"
      /\ Head(a) = "read"
  OBVIOUS
<1>5. /\ Len(b) = 6 /\ b[1] = "generate" /\ b[2] = "clear map" /\ b[3] = "write map"
      /\ b[4] = "stop" /\ b[5] = "start" /\ b[6] = "reply" /\ Head(b) = "generate"
  OBVIOUS
<1>6. /\ Len(c) = 3 /\ c[1] = "write numprocs" /\ c[2] = "update" /\ c[3] = "reply"
      /\ Head(c) = "write numprocs"
  OBVIOUS
<1>11. Len(a) = 4 /\ Len(b) = 6 /\ Len(c) = 3
  OBVIOUS
<1> HIDE DEF a, b, c
<1>7. a # << >> /\ b # << >> /\ c # << >>
  <2>1. a # << >>
    <3>1. Len(a) # 0
      BY <1>11
    <3> QED
      BY <3>1, EmptyLen
  <2>2. b # << >>
    <3>1. Len(b) # 0
      BY <1>11
    <3> QED
      BY <3>1, EmptyLen
  <2>3. c # << >>
    <3>1. Len(c) # 0
      BY <1>11
    <3> QED
      BY <3>1, EmptyLen
  <2> QED
    BY <2>1, <2>2, <2>3
<1>8. InOrder("settings", a)
  BY <1>4, <1>7, UpToFour, Next8 DEF InOrder, StepsOf, Following
<1>9. InOrder("rebuild", b)
  BY <1>5, <1>7, UpToSix, Next8 DEF InOrder, StepsOf, Following
<1>10. InOrder("numprocs", c)
  BY <1>6, <1>7, UpToThree, Next8 DEF InOrder, StepsOf, Following
<1> QED
  BY <1>1, <1>2, <1>3, <1>4, <1>5, <1>6, <1>8, <1>9, <1>10

\* The steps of one sequence and then those of another.
LEMMA JoinIs ==
    ASSUME NEW x \in Seq(Step), NEW y \in Seq(Step), NEW z \in Seq(Step),
           Len(z) = Len(x) + Len(y),
           \A i \in 1 .. Len(x) : z[i] = x[i],
           \A i \in 1 .. Len(y) : z[Len(x) + i] = y[i]
    PROVE  x \o y = z
<1> DEFINE xy == x \o y
<1>1. /\ xy \in Seq(Step) /\ Len(x) \in Nat /\ Len(y) \in Nat /\ Len(xy) = Len(x) + Len(y)
      /\ \A i \in 1 .. Len(x) : xy[i] = x[i]
      /\ \A i \in 1 .. Len(y) : xy[Len(x) + i] = y[i]
  OBVIOUS
<1> HIDE DEF xy
<1>2. ASSUME NEW i \in 1 .. Len(xy)
      PROVE  xy[i] = z[i]
  <2>1. CASE i \in 1 .. Len(x)
    BY <1>1, <2>1
  <2>2. CASE i \notin 1 .. Len(x)
    <3>1. i - Len(x) \in 1 .. Len(y) /\ i = Len(x) + (i - Len(x))
      BY <1>1, <2>2
    <3> QED
      BY <1>1, <3>1
  <2> QED
    BY <2>1, <2>2
<1>3. xy = z
  BY <1>1, <1>2, SeqEqual
<1> QED
  BY <1>3 DEF xy

\* The three scripts that are joined, and their joins.
LEMMA Joins ==
    /\ TuneScript \o NginxScript =
          <<"read map", "clear map", "write map", "stop", "start", "write nginx", "reload nginx">>
    /\ <<"read map", "clear map", "write map", "stop", "start", "write nginx", "reload nginx">> \o <<"reply">> =
          <<"read map", "clear map", "write map", "stop", "start", "write nginx", "reload nginx", "reply">>
    /\ TuneScript \o <<"reply">> = <<"read map", "clear map", "write map", "stop", "start", "reply">>
    /\ NginxScript \o <<"reply">> = <<"write nginx", "reload nginx", "reply">>
<1> DEFINE a == <<"read map", "clear map", "write map", "stop", "start", "write nginx", "reload nginx", "reply">>
           b == <<"read map", "clear map", "write map", "stop", "start", "reply">>
           c == <<"write nginx", "reload nginx", "reply">>
           d == <<"reply">>
           e == <<"read map", "clear map", "write map", "stop", "start", "write nginx", "reload nginx">>
           m == TuneScript
           n == NginxScript
<1>1. /\ a \in Seq(Step) /\ b \in Seq(Step) /\ c \in Seq(Step) /\ d \in Seq(Step) /\ e \in Seq(Step)
      /\ m \in Seq(Step) /\ n \in Seq(Step)
  BY DEF Step, TuneScript, NginxScript
<1>2. /\ Len(a) = 8 /\ a[1] = "read map" /\ a[2] = "clear map" /\ a[3] = "write map"
      /\ a[4] = "stop" /\ a[5] = "start" /\ a[6] = "write nginx" /\ a[7] = "reload nginx"
      /\ a[8] = "reply"
  OBVIOUS
<1>3. /\ Len(b) = 6 /\ b[1] = "read map" /\ b[2] = "clear map" /\ b[3] = "write map"
      /\ b[4] = "stop" /\ b[5] = "start" /\ b[6] = "reply"
  OBVIOUS
<1>4. Len(c) = 3 /\ c[1] = "write nginx" /\ c[2] = "reload nginx" /\ c[3] = "reply"
  OBVIOUS
<1>5. Len(d) = 1 /\ d[1] = "reply"
  OBVIOUS
<1>6. /\ Len(e) = 7 /\ e[1] = "read map" /\ e[2] = "clear map" /\ e[3] = "write map"
      /\ e[4] = "stop" /\ e[5] = "start" /\ e[6] = "write nginx" /\ e[7] = "reload nginx"
  OBVIOUS
<1>7. /\ Len(m) = 5 /\ m[1] = "read map" /\ m[2] = "clear map" /\ m[3] = "write map"
      /\ m[4] = "stop" /\ m[5] = "start"
  BY DEF TuneScript
<1>8. Len(n) = 2 /\ n[1] = "write nginx" /\ n[2] = "reload nginx"
  BY DEF NginxScript
<1>9. /\ \A i \in 1 .. 1 : i = 1
      /\ \A i \in 1 .. 2 : i = 1 \/ i = 2
  OBVIOUS
<1>10. 5 + 1 = 6 /\ 5 + 2 = 7 /\ 7 + 1 = 8 /\ 2 + 1 = 3
  OBVIOUS
<1> HIDE DEF a, b, c, d, e, m, n
<1>11. m \o n = e
  <2>1. (\A i \in 1 .. 5 : e[i] = m[i]) /\ (\A i \in 1 .. 2 : e[5 + i] = n[i])
    BY <1>6, <1>7, <1>8, <1>9, <1>10, UpToFive
  <2>2. /\ Len(e) = Len(m) + Len(n)
        /\ \A i \in 1 .. Len(m) : e[i] = m[i]
        /\ \A i \in 1 .. Len(n) : e[Len(m) + i] = n[i]
    BY <1>6, <1>7, <1>8, <1>10, <2>1
  <2>3. m \in Seq(Step) /\ n \in Seq(Step) /\ e \in Seq(Step)
    BY <1>1
  <2> QED
    BY <2>2, <2>3, JoinIs
<1>12. e \o d = a
  <2>1. (\A i \in 1 .. 7 : a[i] = e[i]) /\ (\A i \in 1 .. 1 : a[7 + i] = d[i])
    BY <1>2, <1>5, <1>6, <1>9, <1>10, UpToSeven
  <2>2. /\ Len(a) = Len(e) + Len(d)
        /\ \A i \in 1 .. Len(e) : a[i] = e[i]
        /\ \A i \in 1 .. Len(d) : a[Len(e) + i] = d[i]
    BY <1>2, <1>5, <1>6, <1>10, <2>1
  <2>3. e \in Seq(Step) /\ d \in Seq(Step) /\ a \in Seq(Step)
    BY <1>1
  <2> QED
    BY <2>2, <2>3, JoinIs
<1>13. m \o d = b
  <2>1. (\A i \in 1 .. 5 : b[i] = m[i]) /\ (\A i \in 1 .. 1 : b[5 + i] = d[i])
    BY <1>3, <1>5, <1>7, <1>9, <1>10, UpToFive
  <2>2. /\ Len(b) = Len(m) + Len(d)
        /\ \A i \in 1 .. Len(m) : b[i] = m[i]
        /\ \A i \in 1 .. Len(d) : b[Len(m) + i] = d[i]
    BY <1>3, <1>5, <1>7, <1>10, <2>1
  <2>3. m \in Seq(Step) /\ d \in Seq(Step) /\ b \in Seq(Step)
    BY <1>1
  <2> QED
    BY <2>2, <2>3, JoinIs
<1>14. n \o d = c
  <2>1. (\A i \in 1 .. 2 : c[i] = n[i]) /\ (\A i \in 1 .. 1 : c[2 + i] = d[i])
    BY <1>4, <1>5, <1>8, <1>9, <1>10
  <2>2. /\ Len(c) = Len(n) + Len(d)
        /\ \A i \in 1 .. Len(n) : c[i] = n[i]
        /\ \A i \in 1 .. Len(d) : c[Len(n) + i] = d[i]
    BY <1>4, <1>5, <1>8, <1>10, <2>1
  <2>3. n \in Seq(Step) /\ d \in Seq(Step) /\ c \in Seq(Step)
    BY <1>1
  <2> QED
    BY <2>2, <2>3, JoinIs
<1> QED
  BY <1>11, <1>12, <1>13, <1>14 DEF a, b, c, d, e, m, n

\* What is left of a settings request once the file is saved.
LEMMA ChangesOrder ==
    ASSUME NEW old, NEW new
    PROVE  LET s == Changes(old, new) \o <<"reply">>
           IN  /\ s \in Seq(Step)
               /\ InOrder(IF old.cache # new.cache THEN "both" ELSE "tune", s)
               /\ Head(s) = CASE old.tune # new.tune -> "read map"
                              [] old.tune = new.tune /\ old.cache # new.cache -> "write nginx"
                              [] OTHER -> "reply"
<1> DEFINE a == <<"read map", "clear map", "write map", "stop", "start", "write nginx", "reload nginx", "reply">>
           b == <<"read map", "clear map", "write map", "stop", "start", "reply">>
           c == <<"write nginx", "reload nginx", "reply">>
           d == <<"reply">>
           s == Changes(old, new) \o <<"reply">>
<1>1. s = IF old.tune # new.tune THEN (IF old.cache # new.cache THEN a ELSE b)
          ELSE (IF old.cache # new.cache THEN c ELSE d)
  <2>1. CASE old.tune # new.tune /\ old.cache # new.cache
    BY <2>1, Joins DEF Changes
  <2>2. CASE old.tune # new.tune /\ old.cache = new.cache
    <3>1. TuneScript \o << >> = TuneScript
      BY DEF TuneScript
    <3> QED
      BY <2>2, <3>1, Joins DEF Changes
  <2>3. CASE old.tune = new.tune /\ old.cache # new.cache
    <3>1. << >> \o NginxScript = NginxScript
      BY DEF NginxScript
    <3> QED
      BY <2>3, <3>1, Joins DEF Changes
  <2>4. CASE old.tune = new.tune /\ old.cache = new.cache
    BY <2>4 DEF Changes, TuneScript, NginxScript
  <2> QED
    BY <2>1, <2>2, <2>3, <2>4
<1>2. a \in Seq(Step) /\ b \in Seq(Step) /\ c \in Seq(Step) /\ d \in Seq(Step)
  BY DEF Step
<1>3. /\ Len(a) = 8 /\ a[1] = "read map" /\ a[2] = "clear map" /\ a[3] = "write map"
      /\ a[4] = "stop" /\ a[5] = "start" /\ a[6] = "write nginx" /\ a[7] = "reload nginx"
      /\ a[8] = "reply" /\ Head(a) = "read map"
  OBVIOUS
<1>4. /\ Len(b) = 6 /\ b[1] = "read map" /\ b[2] = "clear map" /\ b[3] = "write map"
      /\ b[4] = "stop" /\ b[5] = "start" /\ b[6] = "reply" /\ Head(b) = "read map"
  OBVIOUS
<1>5. /\ Len(c) = 3 /\ c[1] = "write nginx" /\ c[2] = "reload nginx" /\ c[3] = "reply"
      /\ Head(c) = "write nginx"
  OBVIOUS
<1>6. Len(d) = 1 /\ d[1] = "reply" /\ Head(d) = "reply"
  OBVIOUS
<1>13. Len(a) = 8 /\ Len(b) = 6 /\ Len(c) = 3 /\ Len(d) = 1
  OBVIOUS
<1> HIDE DEF a, b, c, d, s
<1>7. a # << >> /\ b # << >> /\ c # << >> /\ d # << >>
  <2>1. a # << >>
    <3>1. Len(a) # 0
      BY <1>13
    <3> QED
      BY <3>1, EmptyLen
  <2>2. b # << >>
    <3>1. Len(b) # 0
      BY <1>13
    <3> QED
      BY <3>1, EmptyLen
  <2>3. c # << >>
    <3>1. Len(c) # 0
      BY <1>13
    <3> QED
      BY <3>1, EmptyLen
  <2>4. d # << >>
    <3>1. Len(d) # 0
      BY <1>13
    <3> QED
      BY <3>1, EmptyLen
  <2> QED
    BY <2>1, <2>2, <2>3, <2>4
<1>8. InOrder("both", a)
  <2>1. \A i \in 1 .. 8 : a[i] \in StepsOf("both")
    BY <1>3, UpToEight DEF StepsOf
  <2>2. \A i \in 1 .. 8 : i # 8 => a[i] # "reply"
    BY <1>3, UpToEight
  <2>3. \A i \in 1 .. 8 : i # 8 => a[i + 1] = Following("both", a[i])
    BY <1>3, UpToEight, Next8 DEF Following
  <2> QED
    BY <1>3, <1>7, <2>1, <2>2, <2>3 DEF InOrder
<1>9. InOrder("tune", b)
  <2>1. \A i \in 1 .. 6 : b[i] \in StepsOf("tune")
    BY <1>4, UpToSix DEF StepsOf
  <2>2. \A i \in 1 .. 6 : i # 6 => b[i] # "reply"
    BY <1>4, UpToSix
  <2>3. \A i \in 1 .. 6 : i # 6 => b[i + 1] = Following("tune", b[i])
    BY <1>4, UpToSix, Next8 DEF Following
  <2> QED
    BY <1>4, <1>7, <2>1, <2>2, <2>3 DEF InOrder
<1>10. InOrder("both", c)
  BY <1>5, <1>7, UpToThree, Next8 DEF InOrder, StepsOf, Following
<1>11. InOrder("tune", d)
  <2>1. \A i \in 1 .. 1 : i = 1
    OBVIOUS
  <2> QED
    BY <1>6, <1>7, <2>1 DEF InOrder, StepsOf, Following
<1>12. /\ s \in Seq(Step)
       /\ InOrder(IF old.cache # new.cache THEN "both" ELSE "tune", s)
       /\ Head(s) = CASE old.tune # new.tune -> "read map"
                      [] old.tune = new.tune /\ old.cache # new.cache -> "write nginx"
                      [] OTHER -> "reply"
  BY <1>1, <1>2, <1>3, <1>4, <1>5, <1>6, <1>8, <1>9, <1>10, <1>11
<1> QED
  BY <1>12 DEF s

-----------------------------------------------------------------------------
(* Threads *)

\* The plan a busy thread follows.
Plan(t) ==
    IF request[t].kind # "settings" THEN request[t].kind
    ELSE IF Head(todo[t]) \in {"read", "truncate", "save"} THEN "settings"
    ELSE IF previous[t].cache # Saved(t).cache THEN "both" ELSE "tune"

\* A text of the mapfile, which may have been read truncated.
MapText == Mapfile \union {Torn}

\* A busy thread has a request and the rest of a plan before it, and has read
\* what it is about to use; no thread outlives the admin process; a request
\* that no other overlaps is the only one.
ThreadInv ==
    /\ todo \in [Thread -> Seq(Step)] /\ request \in [Thread -> Request \union {None}]
    /\ \A t \in Thread : ~Busy(t) => request[t] = None
    /\ \A t \in Thread : Busy(t) =>
          /\ request[t] \in Request /\ InOrder(Plan(t), todo[t])
          /\ request[t].kind = "settings" /\ ~At(t, "read") => previous[t] \in Config
          /\ At(t, "clear map") \/ At(t, "write map") => text[t] \in MapText
    /\ ~admin => Quiet
    /\ \A t \in alone : Busy(t) /\ \A u \in Thread \ {t} : ~Busy(u)

TypeInv == TypeOK /\ ThreadInv

\* A mapfile that is whole has the tuning.
Tuned(map, tune) == map # Torn => map.tune = tune

\* What a settings request has done to the files and the processes when it is
\* before each of its steps.
SettingsDone(t) ==
    Head(todo[t]) \notin {"read", "truncate", "save"} =>
        /\ conf = Saved(t)
        /\ previous[t].tune # Saved(t).tune =>
              /\ At(t, "clear map") \/ At(t, "write map") => Tuned(text[t], Saved(t).tune)
              /\ At(t, "stop") \/ At(t, "start") => Tuned(mapfile, Saved(t).tune)
              /\ At(t, "start") => ~up \/ serving = mapfile
              /\ At(t, "write nginx") \/ At(t, "reload nginx") \/ At(t, "reply") =>
                    up /\ serving = mapfile /\ Tuned(mapfile, Saved(t).tune)
        /\ previous[t].cache # Saved(t).cache =>
              /\ At(t, "reload nginx") => nginxConf = Saved(t).cache
              /\ At(t, "reply") => nginx = Saved(t).cache

\* The same for the requests that make the mapfile anew.
RebuildDone(t) ==
    /\ catalog = request[t].set
    /\ At(t, "clear map") \/ At(t, "write map") => text[t].layers = request[t].set
    /\ At(t, "stop") \/ At(t, "start") => mapfile.layers = request[t].set
    /\ At(t, "start") => ~up \/ serving.layers = request[t].set
    /\ At(t, "reply") => up /\ serving.layers = request[t].set

\* The same for the number of workers.
NumprocsDone(t) ==
    /\ At(t, "update") => numprocs = request[t].set
    /\ At(t, "reply") => workers = request[t].set

AppliedInv ==
    \A t \in alone :
        /\ request[t].kind = "settings" => SettingsDone(t)
        /\ request[t].kind = "rebuild" => RebuildDone(t)
        /\ request[t].kind = "numprocs" => NumprocsDone(t)

-----------------------------------------------------------------------------
(* Types *)

LEMMA ConfigIs ==
    ASSUME NEW c \in Config, NEW s \in Payloads
    PROVE  /\ c.tune \in Setting /\ c.cache \in Setting /\ DOMAIN c = {"tune", "cache"}
           /\ Update(c, s) \in Config
           /\ \A k \in DOMAIN c : Update(c, s)[k] = IF s[k] = Keep THEN c[k] ELSE s[k]
  BY RuntimeAssumption DEF Config, Update

LEMMA TuneSet ==
    ASSUME NEW m \in Mapfile, NEW v \in Setting
    PROVE  /\ [m EXCEPT !.tune = v] \in Mapfile /\ [m EXCEPT !.tune = v].tune = v
           /\ [m EXCEPT !.tune = v].layers = m.layers
  BY DEF Mapfile

LEMMA EditedIs ==
    ASSUME NEW m \in MapText, NEW v \in Setting
    PROVE  Edited(m, v) \in MapText /\ Tuned(Edited(m, v), v)
<1>1. CASE m = Torn
  BY <1>1 DEF Edited, MapText, Tuned
<1>2. CASE m # Torn
  BY <1>2, TuneSet DEF Edited, MapText, Tuned
<1> QED
  BY <1>1, <1>2

LEMMA DefaultsAre ==
    /\ Defaults \in Config
    /\ \A l \in Layout : Generated(l) \in Mapfile /\ Generated(l).layers = l
  BY RuntimeAssumption DEF Defaults, Config, Generated, Mapfile

LEMMA RequestIs ==
    ASSUME NEW r \in Request
    PROVE  /\ r.kind \in {"settings", "rebuild", "numprocs"}
           /\ r.kind = "settings" => r.set \in Payloads
           /\ r.kind = "rebuild" => r.set \in Layout
           /\ r.kind = "numprocs" => r.set \in Procs
  BY DEF Request

LEMMA LoadIs == ASSUME conf \in Config \union {Torn} PROVE Load(conf) \in Config
  BY DefaultsAre DEF Load

\* Which requests take a step.
LEMMA WhoseStep ==
    ASSUME TypeInv, NEW t \in Thread, NEW s, At(t, s)
    PROVE  /\ Busy(t) /\ request[t] \in Request /\ s \in StepsOf(Plan(t)) /\ s \in Step
           /\ s \in {"read", "truncate", "save", "read map", "write nginx", "reload nginx"}
                 => request[t].kind = "settings"
           /\ s = "generate" => request[t].kind = "rebuild"
           /\ s \in {"write numprocs", "update"} => request[t].kind = "numprocs"
           /\ s \in {"clear map", "write map", "stop", "start"} => request[t].kind # "numprocs"
<1>1. /\ Busy(t) /\ request[t] \in Request /\ InOrder(Plan(t), todo[t]) /\ Head(todo[t]) = s
      /\ todo[t] \in Seq(Step)
  BY DEF At, TypeInv, ThreadInv
<1>2. s \in StepsOf(Plan(t))
  BY <1>1, OrderTail
<1>3. request[t].kind \in {"settings", "rebuild", "numprocs"}
  BY <1>1, RequestIs
<1>4. CASE request[t].kind = "settings"
  <2>1. Plan(t) \in {"settings", "both", "tune"}
    BY <1>4 DEF Plan
  <2> QED
    BY <1>1, <1>2, <1>4, <2>1 DEF StepsOf, Step
<1>5. CASE request[t].kind = "rebuild"
  BY <1>1, <1>2, <1>5 DEF StepsOf, Step, Plan
<1>6. CASE request[t].kind = "numprocs"
  BY <1>1, <1>2, <1>6 DEF StepsOf, Step, Plan
<1> QED
  BY <1>3, <1>4, <1>5, <1>6

\* What a settings request saves is a setting of the right type.
LEMMA SavedIs ==
    ASSUME TypeInv, NEW t \in Thread, Busy(t), request[t].kind = "settings", ~At(t, "read")
    PROVE  previous[t] \in Config /\ Saved(t) \in Config
<1>1. previous[t] \in Config /\ request[t].set \in Payloads
  BY RequestIs DEF TypeInv, ThreadInv
<1> QED
  BY <1>1, ConfigIs DEF Saved

\* A step that is neither the save nor the last leaves the next one of the
\* plan to be done.
LEMMA Advance ==
    ASSUME TypeInv, NEW t \in Thread, NEW s, s \notin {"save", "reply"}, At(t, s), Goes(t),
           s # "read" => previous'[t] = previous[t]
    PROVE  /\ todo' \in [Thread -> Seq(Step)] /\ \A u \in Thread \ {t} : todo'[u] = todo[u]
           /\ s \in StepsOf(Plan(t)) /\ InOrder(Plan(t), todo'[t]) /\ Plan(t)' = Plan(t)
           /\ todo'[t] # << >> /\ Head(todo'[t]) = Following(Plan(t), s)
<1>1. /\ todo \in [Thread -> Seq(Step)] /\ todo[t] \in Seq(Step) /\ Busy(t) /\ request[t] \in Request
      /\ InOrder(Plan(t), todo[t]) /\ Head(todo[t]) = s
  BY DEF TypeInv, ThreadInv, At
<1>2. /\ s \in StepsOf(Plan(t)) /\ Tail(todo[t]) \in Seq(Step)
      /\ InOrder(Plan(t), Tail(todo[t])) /\ Head(Tail(todo[t])) = Following(Plan(t), s)
  BY <1>1, OrderTail
<1>3. todo' = [todo EXCEPT ![t] = Tail(todo[t])] /\ UNCHANGED request
  BY DEF Goes
<1>4. todo'[t] = Tail(todo[t]) /\ \A u \in Thread \ {t} : todo'[u] = todo[u]
  BY <1>1, <1>3
<1>5. todo'[t] # << >>
  BY <1>2, <1>4 DEF InOrder
<1>6. Head(todo'[t]) = Following(Plan(t), s)
  BY <1>2, <1>4
<1>7. Plan(t)' = Plan(t)
  <2>1. CASE request[t].kind # "settings"
    BY <1>3, <2>1 DEF Plan
  <2>2. CASE request[t].kind = "settings" /\ s \in {"read", "truncate", "save"}
    <3>1. Plan(t) = "settings" /\ Head(todo'[t]) \in {"truncate", "save"}
      BY <1>1, <1>6, <2>2 DEF Plan, Following
    <3> QED
      BY <1>3, <2>2, <3>1 DEF Plan
  <2>3. CASE request[t].kind = "settings" /\ s \notin {"read", "truncate", "save"}
    <3>1. Plan(t) \in {"both", "tune"}
      BY <1>1, <2>3 DEF Plan
    <3>2. Head(todo'[t]) \notin {"read", "truncate", "save"}
      BY <1>2, <1>6, <2>3, <3>1 DEF StepsOf, Following
    <3>3. previous'[t] = previous[t] /\ Saved(t)' = Saved(t)
      BY <1>3, <2>3 DEF Saved
    <3> QED
      BY <1>1, <1>3, <2>3, <3>2, <3>3 DEF Plan
  <2> QED
    BY <2>1, <2>2, <2>3
<1>8. todo' \in [Thread -> Seq(Step)]
  BY <1>1, <1>2, <1>3
<1> QED
  BY <1>2, <1>4, <1>5, <1>6, <1>7, <1>8

\* Such a step keeps the threads in order, if it reads what the next one uses.
LEMMA GoesTyped ==
    ASSUME TypeInv, NEW t \in Thread, NEW s, s \notin {"save", "reply"}, At(t, s), Goes(t),
           UNCHANGED <<admin, alone>>,
           \A u \in Thread \ {t} : previous'[u] = previous[u] /\ text'[u] = text[u],
           IF s = "read" THEN previous'[t] \in Config ELSE previous'[t] = previous[t],
           s \in {"read map", "generate"} => text'[t] \in MapText,
           s = "clear map" => text'[t] = text[t]
    PROVE  ThreadInv'
<1>1. /\ todo' \in [Thread -> Seq(Step)] /\ \A u \in Thread \ {t} : todo'[u] = todo[u]
      /\ s \in StepsOf(Plan(t)) /\ InOrder(Plan(t), todo'[t]) /\ Plan(t)' = Plan(t)
      /\ todo'[t] # << >> /\ Head(todo'[t]) = Following(Plan(t), s)
  BY Advance
<1>2. request' = request /\ Busy(t) /\ request[t] \in Request
  BY DEF Goes, At, TypeInv, ThreadInv
<1>3. \A u \in Thread : Busy(u)' <=> Busy(u)
  BY <1>1, <1>2 DEF Busy
<1>4. /\ request'[t] \in Request /\ InOrder(Plan(t)', todo'[t])
      /\ request'[t].kind = "settings" /\ ~At(t, "read")' => previous'[t] \in Config
      /\ At(t, "clear map")' \/ At(t, "write map")' => text'[t] \in MapText
  <2>1. request[t].kind = "settings" => previous'[t] \in Config
    BY <1>2 DEF TypeInv, ThreadInv, At
  <2>2. /\ Head(todo'[t]) = "clear map" => s \in {"read map", "generate"}
        /\ Head(todo'[t]) = "write map" => s = "clear map"
    BY <1>1 DEF Following
  <2>3. s = "clear map" => text[t] \in MapText
    BY <1>2 DEF TypeInv, ThreadInv
  <2> QED
    BY <1>1, <1>2, <2>1, <2>2, <2>3 DEF At
<1>5. ASSUME NEW u \in Thread \ {t}, Busy(u)
      PROVE  /\ request'[u] \in Request /\ InOrder(Plan(u)', todo'[u])
             /\ request'[u].kind = "settings" /\ ~At(u, "read")' => previous'[u] \in Config
             /\ At(u, "clear map")' \/ At(u, "write map")' => text'[u] \in MapText
  <2>1. /\ Plan(u)' = Plan(u) /\ (At(u, "read")' <=> At(u, "read"))
        /\ (At(u, "clear map")' <=> At(u, "clear map")) /\ (At(u, "write map")' <=> At(u, "write map"))
    BY <1>1, <1>2 DEF Plan, Saved, At, Busy
  <2> QED
    BY <1>1, <1>2, <1>5, <2>1 DEF TypeInv, ThreadInv
<1>6. \A u \in Thread : Busy(u)' =>
          /\ request'[u] \in Request /\ InOrder(Plan(u)', todo'[u])
          /\ request'[u].kind = "settings" /\ ~At(u, "read")' => previous'[u] \in Config
          /\ At(u, "clear map")' \/ At(u, "write map")' => text'[u] \in MapText
  <2> SUFFICES ASSUME NEW u \in Thread, Busy(u)'
               PROVE  /\ request'[u] \in Request /\ InOrder(Plan(u)', todo'[u])
                      /\ request'[u].kind = "settings" /\ ~At(u, "read")' => previous'[u] \in Config
                      /\ At(u, "clear map")' \/ At(u, "write map")' => text'[u] \in MapText
    OBVIOUS
  <2>1. CASE u = t
    BY <1>4, <2>1
  <2>2. CASE u # t
    BY <1>3, <1>5, <2>2
  <2> QED
    BY <2>1, <2>2
<1>7. (~admin => Quiet)' /\ (\A u \in alone : Busy(u) /\ \A v \in Thread \ {u} : ~Busy(v))'
  <2>1. alone \subseteq Thread
    BY DEF TypeInv, TypeOK
  <2> QED
    BY <1>3, <2>1 DEF TypeInv, ThreadInv, Quiet
<1>8. request' \in [Thread -> Request \union {None}] /\ \A u \in Thread : ~Busy(u)' => request'[u] = None
  BY <1>2, <1>3 DEF TypeInv, ThreadInv
<1> QED
  BY <1>1, <1>6, <1>7, <1>8 DEF ThreadInv

\* A thread that ends has nothing left to do; the others are as they were.
LEMMA EndsTyped ==
    ASSUME TypeInv, NEW t \in Thread, Ends(t), UNCHANGED admin
    PROVE  ThreadInv'
<1>1. /\ todo' = [todo EXCEPT ![t] = << >>] /\ request' = [request EXCEPT ![t] = None]
      /\ previous' = [previous EXCEPT ![t] = None] /\ text' = [text EXCEPT ![t] = None]
      /\ alone' = alone \ {t}
  BY DEF Ends
<1>2. /\ todo \in [Thread -> Seq(Step)] /\ request \in [Thread -> Request \union {None}]
      /\ previous \in [Thread -> Config \union {None}] /\ text \in [Thread -> Mapfile \union {Torn, None}]
      /\ << >> \in Seq(Step)
  <2>1. << >> \in Seq(Step)
    OBVIOUS
  <2> QED
    BY <2>1 DEF TypeInv, ThreadInv, TypeOK
<1>3. todo'[t] = << >> /\ request'[t] = None
  BY <1>1, <1>2
<1>4. \A u \in Thread \ {t} : /\ todo'[u] = todo[u] /\ request'[u] = request[u]
                              /\ previous'[u] = previous[u] /\ text'[u] = text[u]
  BY <1>1, <1>2
<1>5. ~Busy(t)' /\ \A u \in Thread \ {t} : Busy(u)' <=> Busy(u)
  BY <1>3, <1>4 DEF Busy
<1>6. ASSUME NEW u \in Thread, Busy(u)'
      PROVE  /\ request'[u] \in Request /\ InOrder(Plan(u)', todo'[u])
             /\ request'[u].kind = "settings" /\ ~At(u, "read")' => previous'[u] \in Config
             /\ At(u, "clear map")' \/ At(u, "write map")' => text'[u] \in MapText
  <2>1. u # t /\ Busy(u)
    BY <1>5, <1>6
  <2>2. /\ todo'[u] = todo[u] /\ request'[u] = request[u]
        /\ previous'[u] = previous[u] /\ text'[u] = text[u]
    BY <1>4, <2>1
  <2>3. /\ Plan(u)' = Plan(u) /\ (At(u, "read")' <=> At(u, "read"))
        /\ (At(u, "clear map")' <=> At(u, "clear map")) /\ (At(u, "write map")' <=> At(u, "write map"))
    BY <2>2 DEF Plan, Saved, At, Busy
  <2> QED
    BY <2>1, <2>2, <2>3 DEF TypeInv, ThreadInv
<1>7. todo' \in [Thread -> Seq(Step)] /\ request' \in [Thread -> Request \union {None}]
  BY <1>1, <1>2
<1>8. \A u \in Thread : ~Busy(u)' => request'[u] = None
  BY <1>3, <1>4, <1>5 DEF TypeInv, ThreadInv
<1>9. (~admin => Quiet)' /\ (\A u \in alone : Busy(u) /\ \A v \in Thread \ {u} : ~Busy(v))'
  <2>1. alone \subseteq Thread
    BY DEF TypeInv, TypeOK
  <2>2. (~admin => Quiet)'
    BY <1>5 DEF TypeInv, ThreadInv, Quiet
  <2>3. ASSUME NEW u \in alone'
        PROVE  Busy(u)' /\ \A v \in Thread \ {u} : ~Busy(v)'
    <3>1. u \in alone /\ u \in Thread /\ u # t /\ Busy(u)
      BY <1>1, <2>1, <2>3 DEF TypeInv, ThreadInv
    <3> QED
      BY <1>5, <3>1 DEF TypeInv, ThreadInv
  <2> QED
    BY <2>2, <2>3
<1> QED
  BY <1>6, <1>7, <1>8, <1>9 DEF ThreadInv

\* When all threads end, too.
LEMMA AllEndTyped ==
    ASSUME ThreadsEnd
    PROVE  ThreadInv'
<1>1. /\ todo' = [t \in Thread |-> << >>] /\ request' = [t \in Thread |-> None] /\ alone' = {}
      /\ << >> \in Seq(Step)
  BY DEF ThreadsEnd
<1>2. \A t \in Thread : ~Busy(t)' /\ request'[t] = None
  BY <1>1 DEF Busy
<1>3. todo' \in [Thread -> Seq(Step)] /\ request' \in [Thread -> Request \union {None}]
  BY <1>1
<1> QED
  BY <1>1, <1>2, <1>3 DEF ThreadInv, Quiet

\* The files, the processes and what the threads have read.
Values ==
    /\ catalog \in Layout /\ conf \in Config \union {Torn}
    /\ mapfile \in MapText /\ serving \in MapText
    /\ up \in BOOLEAN /\ boot \in BOOLEAN /\ admin \in BOOLEAN /\ cut \in BOOLEAN
    /\ nginxConf \in Setting /\ nginx \in Setting
    /\ numprocs \in Procs /\ workers \in Procs
    /\ previous \in [Thread -> Config \union {None}]
    /\ text \in [Thread -> Mapfile \union {Torn, None}] /\ arrived \in 0 .. MaxRequests
    /\ alone \subseteq Thread

LEMMA TypeFrom ==
    ASSUME ThreadInv, Values
    PROVE  TypeInv
<1>1. ASSUME NEW t \in Thread
      PROVE  /\ \A i \in DOMAIN todo[t] : todo[t][i] \in Step
             /\ IF request[t] = None THEN todo[t] = << >> ELSE request[t] \in Request
  <2>1. todo[t] \in Seq(Step)
    BY DEF ThreadInv
  <2>2. \A i \in DOMAIN todo[t] : todo[t][i] \in Step
    BY <2>1
  <2>3. CASE Busy(t)
    BY <2>2, <2>3, NoneAssumption DEF ThreadInv
  <2>4. CASE ~Busy(t)
    BY <2>2, <2>4 DEF ThreadInv, Busy
  <2> QED
    BY <2>3, <2>4
<1> QED
  BY <1>1 DEF TypeInv, TypeOK, Values, MapText

LEMMA InitTyped == Init => TypeInv
<1> SUFFICES ASSUME Init PROVE TypeInv
  OBVIOUS
<1>1. \A t \in Thread : todo[t] = << >> /\ request[t] = None
  BY DEF Init
<1>2. ThreadInv
  <2>1. << >> \in Seq(Step)
    OBVIOUS
  <2> QED
    BY <1>1, <2>1 DEF Init, ThreadInv, Quiet, Busy
<1>3. Values
  <2>1. mapfile \in MapText /\ serving \in MapText /\ conf \in Config
    BY DefaultsAre, RuntimeAssumption DEF Init, MapText
  <2>2. arrived \in 0 .. MaxRequests
    BY RuntimeAssumption DEF Init
  <2>3. previous \in [Thread -> Config \union {None}] /\ text \in [Thread -> Mapfile \union {Torn, None}]
    BY DEF Init
  <2>4. nginxConf \in Setting /\ nginx \in Setting /\ numprocs \in Procs /\ workers \in Procs
    BY RuntimeAssumption DEF Init
  <2> QED
    BY <2>1, <2>2, <2>3, <2>4, RuntimeAssumption DEF Init, Values
<1> QED
  BY <1>2, <1>3, TypeFrom

LEMMA StepTyped ==
    ASSUME TypeInv, [Next]_vars
    PROVE  TypeInv'
<1> USE DEF files, running, local
<1>0. ThreadInv /\ Values
  BY DEF TypeInv, TypeOK, Values, MapText
<1>1. ASSUME NEW t \in Thread, Arrive(t)
      PROVE  TypeInv'
  <2>1. PICK r \in Request :
           /\ request' = [request EXCEPT ![t] = r]
           /\ todo' = [todo EXCEPT ![t] = Script[r.kind]]
           /\ catalog' = IF r.kind = "rebuild" THEN r.set ELSE catalog
    BY <1>1 DEF Arrive
  <2>2. /\ r.kind \in {"settings", "rebuild", "numprocs"} /\ (r.kind = "rebuild" => r.set \in Layout)
        /\ Script[r.kind] \in Seq(Step) /\ InOrder(r.kind, Script[r.kind])
    BY RequestIs, ScriptOrder
  <2>3. Head(Script[r.kind]) = CASE r.kind = "settings" -> "read"
                                 [] r.kind = "rebuild" -> "generate"
                                 [] r.kind = "numprocs" -> "write numprocs"
    BY ScriptOrder
  <2>4. /\ todo'[t] = Script[r.kind] /\ request'[t] = r
        /\ \A u \in Thread \ {t} : todo'[u] = todo[u] /\ request'[u] = request[u]
        /\ todo' \in [Thread -> Seq(Step)] /\ request' \in [Thread -> Request \union {None}]
    BY <1>0, <2>1, <2>2 DEF ThreadInv
  <2>5. /\ previous' = previous /\ text' = text /\ admin' = admin /\ admin
        /\ alone' = IF Quiet THEN {t} ELSE {}
    BY <1>1 DEF Arrive
  <2>6. Busy(t)' /\ \A u \in Thread \ {t} : Busy(u)' <=> Busy(u)
    BY <2>2, <2>4 DEF Busy, InOrder
  <2>7. /\ InOrder(Plan(t)', todo'[t]) /\ ~At(t, "clear map")' /\ ~At(t, "write map")'
        /\ request'[t].kind = "settings" => At(t, "read")'
    <3>1. Plan(t)' = r.kind
      BY <2>2, <2>3, <2>4 DEF Plan
    <3> QED
      BY <2>2, <2>3, <2>4, <2>6, <3>1 DEF At
  <2>8. ASSUME NEW u \in Thread \ {t}, Busy(u)
        PROVE  /\ request'[u] \in Request /\ InOrder(Plan(u)', todo'[u])
               /\ request'[u].kind = "settings" /\ ~At(u, "read")' => previous'[u] \in Config
               /\ At(u, "clear map")' \/ At(u, "write map")' => text'[u] \in MapText
    <3>1. /\ Plan(u)' = Plan(u) /\ (At(u, "read")' <=> At(u, "read"))
          /\ (At(u, "clear map")' <=> At(u, "clear map")) /\ (At(u, "write map")' <=> At(u, "write map"))
      BY <2>4, <2>5 DEF Plan, Saved, At, Busy
    <3> QED
      BY <1>0, <2>4, <2>5, <2>8, <3>1 DEF ThreadInv
  <2>9. ASSUME NEW u \in Thread, Busy(u)'
        PROVE  /\ request'[u] \in Request /\ InOrder(Plan(u)', todo'[u])
               /\ request'[u].kind = "settings" /\ ~At(u, "read")' => previous'[u] \in Config
               /\ At(u, "clear map")' \/ At(u, "write map")' => text'[u] \in MapText
    <3>1. CASE u = t
      BY <2>4, <2>7, <3>1
    <3>2. CASE u # t
      BY <2>6, <2>8, <2>9, <3>2
    <3> QED
      BY <3>1, <3>2
  <2>10. \A u \in Thread : ~Busy(u)' => request'[u] = None
    BY <1>0, <2>4, <2>6 DEF ThreadInv
  <2>11. \A u \in alone' : Busy(u)' /\ \A v \in Thread \ {u} : ~Busy(v)'
    BY <2>5, <2>6 DEF Quiet
  <2>12. ThreadInv'
    BY <2>4, <2>5, <2>9, <2>10, <2>11 DEF ThreadInv
  <2>13. Values'
    <3>1. catalog' \in Layout
      BY <1>0, <2>1, <2>2 DEF Values
    <3>2. arrived' \in 0 .. MaxRequests
      BY <1>0, <1>1, RuntimeAssumption DEF Values, Arrive
    <3>3. UNCHANGED <<files, running, admin, previous, text, cut>>
      BY <1>1 DEF Arrive
    <3> QED
      BY <1>0, <2>5, <3>1, <3>2, <3>3 DEF Values
  <2> QED
    BY <2>12, <2>13, TypeFrom, PTL
<1>2. ASSUME NEW t \in Thread, Reply(t)
      PROVE  TypeInv'
  <2>1. ThreadInv'
    BY <1>2, EndsTyped DEF Reply
  <2>2. Values'
    BY <1>0, <1>2 DEF Reply, Ends, Values
  <2> QED
    BY <2>1, <2>2, TypeFrom, PTL
<1>3. ASSUME NEW t \in Thread, ReadConfig(t)
      PROVE  TypeInv'
  <2>1. /\ At(t, "read") /\ Goes(t) /\ previous' = [previous EXCEPT ![t] = Load(conf)]
        /\ UNCHANGED <<catalog, files, running, admin, text, alone, cut, arrived>>
    BY <1>3 DEF ReadConfig, Goes
  <2>2. Load(conf) \in Config
    BY <1>0, LoadIs DEF Values
  <2>3. /\ previous'[t] = Load(conf) /\ previous' \in [Thread -> Config \union {None}]
        /\ \A u \in Thread \ {t} : previous'[u] = previous[u] /\ text'[u] = text[u]
    BY <1>0, <2>1, <2>2 DEF Values
  <2>4. ThreadInv'
    BY <2>1, <2>2, <2>3, GoesTyped
  <2>5. Values'
    BY <1>0, <2>1, <2>3 DEF Values
  <2> QED
    BY <2>4, <2>5, TypeFrom, PTL
<1>4. ASSUME NEW t \in Thread, TruncateConfig(t)
      PROVE  TypeInv'
  <2>1. /\ At(t, "truncate") /\ Goes(t) /\ conf' = Torn
        /\ UNCHANGED <<catalog, mapfile, nginxConf, numprocs, running, admin, previous, text, alone, cut, arrived>>
    BY <1>4 DEF TruncateConfig, Goes
  <2>2. ThreadInv'
    BY <2>1, GoesTyped
  <2>3. Values'
    BY <1>0, <2>1 DEF Values
  <2> QED
    BY <2>2, <2>3, TypeFrom, PTL
<1>5. ASSUME NEW t \in Thread, SaveConfig(t)
      PROVE  TypeInv'
  <2> DEFINE rest == Changes(previous[t], Saved(t)) \o <<"reply">>
  <2>1. /\ At(t, "save") /\ conf' = Saved(t) /\ todo' = [todo EXCEPT ![t] = rest]
        /\ UNCHANGED <<catalog, mapfile, nginxConf, numprocs, running, admin, request, previous, text,
                       arrived, alone, cut>>
    BY <1>5 DEF SaveConfig
  <2>2. /\ rest \in Seq(Step)
        /\ InOrder(IF previous[t].cache # Saved(t).cache THEN "both" ELSE "tune", rest)
        /\ Head(rest) \in {"read map", "write nginx", "reply"}
    BY ChangesOrder
  <2> HIDE DEF rest
  <2>3. /\ todo'[t] = rest /\ \A u \in Thread \ {t} : todo'[u] = todo[u]
        /\ todo' \in [Thread -> Seq(Step)]
    BY <1>0, <2>1, <2>2 DEF ThreadInv
  <2>4. Busy(t) /\ request[t] \in Request /\ InOrder(Plan(t), todo[t]) /\ Head(todo[t]) = "save"
    BY <1>0, <2>1 DEF At, ThreadInv
  <2>5. request[t].kind = "settings"
    <3>1. "save" \in StepsOf(Plan(t))
      BY <1>0, <2>4, OrderTail DEF ThreadInv
    <3> QED
      BY <2>4, <3>1, RequestIs DEF StepsOf, Plan
  <2>6. previous[t] \in Config /\ Saved(t) \in Config
    BY <2>1, <2>4, <2>5, SavedIs DEF At
  <2>7. Plan(t)' = IF previous[t].cache # Saved(t).cache THEN "both" ELSE "tune"
    <3>1. Head(todo'[t]) \notin {"read", "truncate", "save"}
      BY <2>2, <2>3
    <3>2. Saved(t)' = Saved(t)
      BY <2>1 DEF Saved
    <3> QED
      BY <2>1, <2>5, <3>1, <3>2 DEF Plan
  <2>8. \A u \in Thread : Busy(u)' <=> Busy(u)
    BY <2>2, <2>3, <2>4 DEF Busy, InOrder
  <2>9. /\ request'[t] \in Request /\ InOrder(Plan(t)', todo'[t]) /\ previous'[t] \in Config
        /\ ~At(t, "clear map")' /\ ~At(t, "write map")'
    BY <2>1, <2>2, <2>3, <2>4, <2>6, <2>7 DEF At
  <2>10. ASSUME NEW u \in Thread \ {t}, Busy(u)
         PROVE  /\ request'[u] \in Request /\ InOrder(Plan(u)', todo'[u])
                /\ request'[u].kind = "settings" /\ ~At(u, "read")' => previous'[u] \in Config
                /\ At(u, "clear map")' \/ At(u, "write map")' => text'[u] \in MapText
    <3>1. /\ Plan(u)' = Plan(u) /\ (At(u, "read")' <=> At(u, "read"))
          /\ (At(u, "clear map")' <=> At(u, "clear map")) /\ (At(u, "write map")' <=> At(u, "write map"))
      BY <2>1, <2>3 DEF Plan, Saved, At, Busy
    <3> QED
      BY <1>0, <2>1, <2>3, <2>10, <3>1 DEF ThreadInv
  <2>11. ASSUME NEW u \in Thread, Busy(u)'
         PROVE  /\ request'[u] \in Request /\ InOrder(Plan(u)', todo'[u])
                /\ request'[u].kind = "settings" /\ ~At(u, "read")' => previous'[u] \in Config
                /\ At(u, "clear map")' \/ At(u, "write map")' => text'[u] \in MapText
    <3>1. CASE u = t
      BY <2>9, <3>1
    <3>2. CASE u # t
      BY <2>8, <2>10, <2>11, <3>2
    <3> QED
      BY <3>1, <3>2
  <2>12. (~admin => Quiet)' /\ (\A u \in alone : Busy(u) /\ \A v \in Thread \ {u} : ~Busy(v))'
    BY <1>0, <2>1, <2>8 DEF ThreadInv, Quiet, Values
  <2>13. request' \in [Thread -> Request \union {None}] /\ \A u \in Thread : ~Busy(u)' => request'[u] = None
    BY <1>0, <2>1, <2>8 DEF ThreadInv
  <2>14. ThreadInv'
    BY <2>3, <2>11, <2>12, <2>13 DEF ThreadInv
  <2>15. Values'
    BY <1>0, <2>1, <2>6 DEF Values
  <2> QED
    BY <2>14, <2>15, TypeFrom, PTL
<1>6. ASSUME NEW t \in Thread, ReadMapfile(t)
      PROVE  TypeInv'
  <2>1. /\ At(t, "read map") /\ Goes(t)
        /\ text' = [text EXCEPT ![t] = Edited(mapfile, Saved(t).tune)]
        /\ UNCHANGED <<catalog, files, running, admin, previous, alone, cut, arrived>>
    BY <1>6 DEF ReadMapfile, Goes
  <2>2. Saved(t).tune \in Setting
    BY <2>1, WhoseStep, SavedIs DEF At, Config
  <2>3. Edited(mapfile, Saved(t).tune) \in MapText
    BY <1>0, <2>2, EditedIs DEF Values
  <2>4. /\ text'[t] \in MapText /\ text' \in [Thread -> Mapfile \union {Torn, None}]
        /\ \A u \in Thread \ {t} : previous'[u] = previous[u] /\ text'[u] = text[u]
    BY <1>0, <2>1, <2>3 DEF Values, MapText
  <2>5. ThreadInv'
    BY <2>1, <2>4, GoesTyped
  <2>6. Values'
    BY <1>0, <2>1, <2>4 DEF Values
  <2> QED
    BY <2>5, <2>6, TypeFrom, PTL
<1>7. ASSUME NEW t \in Thread, WriteMapfile(t)
      PROVE  TypeInv'
  <2>1. /\ At(t, "write map") /\ Goes(t) /\ mapfile' = text[t]
        /\ text' = [text EXCEPT ![t] = None]
        /\ UNCHANGED <<catalog, conf, nginxConf, numprocs, running, admin, previous, alone, cut, arrived>>
    BY <1>7 DEF WriteMapfile, Goes
  <2>2. mapfile' \in MapText
    BY <1>0, <2>1, WhoseStep DEF ThreadInv
  <2>3. /\ text' \in [Thread -> Mapfile \union {Torn, None}]
        /\ \A u \in Thread \ {t} : previous'[u] = previous[u] /\ text'[u] = text[u]
    BY <1>0, <2>1 DEF Values
  <2>4. ThreadInv'
    BY <2>1, <2>3, GoesTyped
  <2>5. Values'
    BY <1>0, <2>1, <2>2, <2>3 DEF Values
  <2> QED
    BY <2>4, <2>5, TypeFrom, PTL
<1>8. ASSUME NEW t \in Thread, WriteNginx(t)
      PROVE  TypeInv'
  <2>1. /\ At(t, "write nginx") /\ Goes(t) /\ nginxConf' = Saved(t).cache
        /\ UNCHANGED <<catalog, conf, mapfile, numprocs, running, admin, previous, text, alone, cut, arrived>>
    BY <1>8 DEF WriteNginx, Goes
  <2>2. Saved(t) \in Config
    BY <2>1, WhoseStep, SavedIs DEF At
  <2>3. ThreadInv'
    BY <2>1, GoesTyped
  <2>4. Values'
    BY <1>0, <2>1, <2>2 DEF Values, Config
  <2> QED
    BY <2>3, <2>4, TypeFrom, PTL
<1>9. ASSUME NEW t \in Thread, ReloadNginx(t)
      PROVE  TypeInv'
  <2>1. /\ At(t, "reload nginx") /\ Goes(t) /\ nginx' = nginxConf
        /\ UNCHANGED <<catalog, files, serving, up, boot, workers, admin, previous, text, alone, cut, arrived>>
    BY <1>9 DEF ReloadNginx, Goes
  <2>2. ThreadInv'
    BY <2>1, GoesTyped
  <2>3. Values'
    BY <1>0, <2>1 DEF Values
  <2> QED
    BY <2>2, <2>3, TypeFrom, PTL
<1>10. ASSUME NEW t \in Thread, Generate(t)
       PROVE  TypeInv'
  <2>1. /\ At(t, "generate") /\ Goes(t) /\ text' = [text EXCEPT ![t] = Generated(catalog)]
        /\ UNCHANGED <<catalog, files, running, admin, previous, alone, cut, arrived>>
    BY <1>10 DEF Generate, Goes
  <2>2. Generated(catalog) \in MapText
    BY <1>0, DefaultsAre DEF Values, MapText
  <2>3. /\ text'[t] \in MapText /\ text' \in [Thread -> Mapfile \union {Torn, None}]
        /\ \A u \in Thread \ {t} : previous'[u] = previous[u] /\ text'[u] = text[u]
    BY <1>0, <2>1, <2>2 DEF Values, MapText
  <2>4. ThreadInv'
    BY <2>1, <2>3, GoesTyped
  <2>5. Values'
    BY <1>0, <2>1, <2>3 DEF Values
  <2> QED
    BY <2>4, <2>5, TypeFrom, PTL
<1>22. ASSUME NEW t \in Thread, ClearMapfile(t)
       PROVE  TypeInv'
  <2>1. /\ At(t, "clear map") /\ Goes(t) /\ mapfile' = Torn
        /\ UNCHANGED <<catalog, conf, nginxConf, numprocs, running, admin, previous, text, alone, cut, arrived>>
    BY <1>22 DEF ClearMapfile, Goes
  <2>2. ThreadInv'
    BY <2>1, GoesTyped
  <2>3. Values'
    BY <1>0, <2>1 DEF Values, MapText
  <2> QED
    BY <2>2, <2>3, TypeFrom, PTL
<1>11. ASSUME NEW t \in Thread, Stop(t)
       PROVE  TypeInv'
  <2>1. /\ At(t, "stop") /\ Goes(t) /\ (up' = FALSE \/ up' = up)
        /\ UNCHANGED <<catalog, files, serving, boot, nginx, workers, admin, previous, text, alone, cut, arrived>>
    BY <1>11 DEF Stop, Goes
  <2>2. ThreadInv'
    BY <2>1, GoesTyped
  <2>3. Values'
    BY <1>0, <2>1 DEF Values
  <2> QED
    BY <2>2, <2>3, TypeFrom, PTL
<1>12. ASSUME NEW t \in Thread, Start(t)
       PROVE  TypeInv'
  <2>1. /\ At(t, "start") /\ Goes(t) /\ up' = TRUE /\ serving' = IF up THEN serving ELSE mapfile
        /\ cut' = (cut /\ up)
        /\ UNCHANGED <<catalog, files, boot, nginx, workers, admin, previous, text, alone, arrived>>
    BY <1>12 DEF Start, Goes
  <2>2. ThreadInv'
    BY <2>1, GoesTyped
  <2>3. Values'
    BY <1>0, <2>1 DEF Values
  <2> QED
    BY <2>2, <2>3, TypeFrom, PTL
<1>13. ASSUME NEW t \in Thread, Fail(t)
       PROVE  TypeInv'
  <2>1. /\ Ends(t) /\ (up' = FALSE \/ up' = up)
        /\ cut' = (cut \/ At(t, "write map") \/ At(t, "start") \/ At(t, "update"))
        /\ UNCHANGED <<catalog, files, serving, boot, nginx, workers, admin>>
    BY <1>13 DEF Fail, Fails
  <2>2. ThreadInv'
    BY <2>1, EndsTyped
  <2>3. cut' \in BOOLEAN
    BY <2>1
  <2>4. Values'
    BY <1>0, <2>1, <2>3 DEF Ends, Values
  <2> QED
    BY <2>2, <2>4, TypeFrom, PTL
<1>14. ASSUME NEW t \in Thread, WriteNumprocs(t)
       PROVE  TypeInv'
  <2>1. /\ At(t, "write numprocs") /\ Goes(t) /\ numprocs' = request[t].set
        /\ UNCHANGED <<catalog, conf, mapfile, nginxConf, running, admin, previous, text, alone, cut, arrived>>
    BY <1>14 DEF WriteNumprocs, Goes
  <2>2. ThreadInv'
    BY <2>1, GoesTyped
  <2>3. numprocs' \in Procs
    BY <2>1, WhoseStep, RequestIs
  <2>4. Values'
    BY <1>0, <2>1, <2>3 DEF Values
  <2> QED
    BY <2>2, <2>4, TypeFrom, PTL
<1>15. ASSUME NEW t \in Thread, UpdateGroup(t)
       PROVE  TypeInv'
  <2>1. /\ At(t, "update") /\ workers' = numprocs
        /\ UNCHANGED <<catalog, files, nginx, admin>>
    BY <1>15 DEF UpdateGroup
  <2>2. /\ up' \in BOOLEAN /\ serving' \in MapText /\ boot' \in BOOLEAN /\ cut' \in BOOLEAN
    BY <1>0, <1>15 DEF UpdateGroup, Values
  <2>3. CASE Goes(t) /\ UNCHANGED <<previous, text, alone>>
    <3>1. ThreadInv'
      BY <2>1, <2>3, GoesTyped
    <3>2. Values'
      BY <1>0, <2>1, <2>2, <2>3 DEF Values, Goes
    <3> QED
      BY <3>1, <3>2, TypeFrom, PTL
  <2>4. CASE Ends(t)
    <3>1. ThreadInv'
      BY <2>1, <2>4, EndsTyped
    <3>2. Values'
      BY <1>0, <2>1, <2>2, <2>4 DEF Values, Ends
    <3> QED
      BY <3>1, <3>2, TypeFrom, PTL
  <2> QED
    BY <1>15, <2>3, <2>4 DEF UpdateGroup
<1>16. ASSUME UNCHANGED <<local, alone>>, UNCHANGED admin \/ admin', Values'
       PROVE  TypeInv'
  <2>1. /\ todo' = todo /\ request' = request /\ previous' = previous /\ text' = text /\ alone' = alone
        /\ (admin' = admin \/ admin')
    BY <1>16
  <2>2. ThreadInv'
    BY <1>0, <2>1 DEF ThreadInv, Quiet, Busy, At, Plan, Saved
  <2> QED
    BY <1>16, <2>2, TypeFrom, PTL
<1>17. ASSUME Autostart
       PROVE  TypeInv'
  <2>1. serving' \in MapText /\ cut' \in BOOLEAN
    BY <1>0, <1>17 DEF Autostart, Values, MapText
  <2>2. Values'
    BY <1>0, <1>17, <2>1 DEF Autostart, Values
  <2> QED
    BY <1>16, <1>17, <2>2 DEF Autostart
<1>18. ASSUME AdminEnds
       PROVE  TypeInv'
  <2>1. ThreadInv'
    BY <1>18, AllEndTyped DEF AdminEnds
  <2>2. previous' \in [Thread -> Config \union {None}] /\ text' \in [Thread -> Mapfile \union {Torn, None}]
    BY <1>18 DEF AdminEnds, ThreadsEnd
  <2>3. cut' \in BOOLEAN
    BY <1>18 DEF AdminEnds
  <2>4. Values'
    BY <1>0, <1>18, <2>2, <2>3 DEF AdminEnds, ThreadsEnd, Values
  <2> QED
    BY <2>1, <2>4, TypeFrom, PTL
<1>19. ASSUME AdminStart
       PROVE  TypeInv'
  <2>1. Load(conf) \in Config /\ Load(conf).tune \in Setting /\ Load(conf).cache \in Setting
    BY <1>0, LoadIs DEF Values, Config
  <2>2. mapfile' \in MapText
    BY <1>0, <1>19, <2>1, EditedIs DEF AdminStart, Values
  <2>3. cut' \in BOOLEAN
    BY <1>19 DEF AdminStart
  <2>4. Values'
    BY <1>0, <1>19, <2>1, <2>2, <2>3 DEF AdminStart, Values
  <2> QED
    BY <1>16, <1>19, <2>4 DEF AdminStart
<1>20. ASSUME ContainerRestart
       PROVE  TypeInv'
  <2>1. ThreadInv'
    BY <1>20, AllEndTyped DEF ContainerRestart
  <2>2. previous' \in [Thread -> Config \union {None}] /\ text' \in [Thread -> Mapfile \union {Torn, None}]
    BY <1>20 DEF ContainerRestart, ThreadsEnd
  <2>3. mapfile' \in MapText
    BY <1>0, <1>20, DefaultsAre DEF ContainerRestart, Values, MapText
  <2>4. Values'
    BY <1>0, <1>20, <2>2, <2>3, RuntimeAssumption DEF ContainerRestart, ThreadsEnd, Values
  <2> QED
    BY <2>1, <2>4, TypeFrom, PTL
<1>23. ASSUME AdminStartEnds
       PROVE  TypeInv'
  <2>1. Load(conf) \in Config
    BY <1>0, LoadIs DEF Values
  <2>2. Values'
    BY <1>0, <1>23, <2>1 DEF AdminStartEnds, Values, MapText
  <2> QED
    BY <1>16, <1>23, <2>2 DEF AdminStartEnds
<1>21. ASSUME UNCHANGED vars
       PROVE  TypeInv'
  <2>1. Values'
    BY <1>0, <1>21 DEF vars, Values
  <2> QED
    BY <1>16, <1>21, <2>1 DEF vars
<1> QED
  BY <1>1, <1>2, <1>3, <1>4, <1>5, <1>6, <1>7, <1>8, <1>9, <1>10, <1>11, <1>12, <1>13, <1>14, <1>15,
     <1>17, <1>18, <1>19, <1>20, <1>21, <1>22, <1>23 DEF Next, RequestStep

\* Whatever requests overlap, fail or are cut off by a restart, every variable
\* keeps its type: in particular a truncated runtime_config.json is read as
\* the defaults, and a request applies a mapfile it has read.
THEOREM TypeCorrect == Spec => []TypeOK
<1>1. TypeInv => TypeOK
  BY DEF TypeInv
<1> QED
  BY <1>1, InitTyped, StepTyped, PTL DEF Spec

-----------------------------------------------------------------------------
(* What is acknowledged is applied *)

\* The request that no other overlaps takes every step there is.
LEMMA OnlyOne ==
    ASSUME TypeInv, NEW t \in Thread, Busy(t), NEW u \in alone
    PROVE  u = t
  BY DEF TypeInv, ThreadInv, TypeOK

\* A step of a request that is not the last preserves what is applied, if it
\* does so for the request that takes it.
LEMMA GoesApplied ==
    ASSUME TypeInv, NEW t \in Thread, Busy(t), alone' = alone, request' = request,
           t \in alone =>
               /\ request[t].kind = "settings" => SettingsDone(t)'
               /\ request[t].kind = "rebuild" => RebuildDone(t)'
               /\ request[t].kind = "numprocs" => NumprocsDone(t)'
    PROVE  AppliedInv'
<1>1. ASSUME NEW u \in alone'
      PROVE  /\ request'[u].kind = "settings" => SettingsDone(u)'
             /\ request'[u].kind = "rebuild" => RebuildDone(u)'
             /\ request'[u].kind = "numprocs" => NumprocsDone(u)'
  <2>1. u \in alone /\ u = t
    BY <1>1, OnlyOne
  <2> QED
    BY <2>1
<1> QED
  BY <1>1 DEF AppliedInv

\* When the one request ends there is none left.
LEMMA EndsApplied ==
    ASSUME TypeInv, NEW t \in Thread, Busy(t), Ends(t)
    PROVE  AppliedInv'
<1>1. alone' = {}
  BY OnlyOne DEF Ends
<1> QED
  BY <1>1 DEF AppliedInv

LEMMA InitApplied == Init => AppliedInv
  BY DEF Init, AppliedInv

LEMMA StepApplied ==
    ASSUME "stop" \notin FaultSteps, TypeInv, AppliedInv, [Next]_vars
    PROVE  AppliedInv'
<1> USE DEF files, running, local
<1>1. ASSUME NEW t \in Thread, Arrive(t)
      PROVE  AppliedInv'
  <2>1. PICK r \in Request :
           /\ request' = [request EXCEPT ![t] = r]
           /\ todo' = [todo EXCEPT ![t] = Script[r.kind]]
           /\ catalog' = IF r.kind = "rebuild" THEN r.set ELSE catalog
    BY <1>1 DEF Arrive
  <2>2. Head(Script[r.kind]) = CASE r.kind = "settings" -> "read"
                                 [] r.kind = "rebuild" -> "generate"
                                 [] r.kind = "numprocs" -> "write numprocs"
    BY ScriptOrder
  <2>3. todo'[t] = Script[r.kind] /\ request'[t] = r
    BY <2>1 DEF TypeInv, ThreadInv
  <2>4. alone' = {t} \/ alone' = {}
    BY <1>1 DEF Arrive
  <2>5. r.kind = "settings" => SettingsDone(t)'
    BY <2>2, <2>3 DEF SettingsDone
  <2>6. r.kind = "rebuild" => RebuildDone(t)'
    BY <2>1, <2>2, <2>3 DEF RebuildDone, At
  <2>7. r.kind = "numprocs" => NumprocsDone(t)'
    BY <2>2, <2>3 DEF NumprocsDone, At
  <2> QED
    BY <2>3, <2>4, <2>5, <2>6, <2>7 DEF AppliedInv
<1>2. ASSUME NEW t \in Thread, Reply(t)
      PROVE  AppliedInv'
  BY <1>2, EndsApplied DEF Reply, At
<1>3. ASSUME NEW t \in Thread, Fail(t)
      PROVE  AppliedInv'
  BY <1>3, EndsApplied DEF Fail, Fails, At
<1>4. ASSUME NEW t \in Thread, ReadConfig(t) \/ TruncateConfig(t)
      PROVE  AppliedInv'
  <2>1. PICK s \in {"read", "truncate"} :
           At(t, s) /\ Goes(t) /\ alone' = alone /\ (s # "read" => previous'[t] = previous[t])
    BY <1>4 DEF ReadConfig, TruncateConfig
  <2>2. /\ Busy(t) /\ request[t].kind = "settings" /\ request' = request
        /\ Head(todo'[t]) \in {"truncate", "save"}
    BY <2>1, Advance, WhoseStep DEF Goes, Following
  <2>3. SettingsDone(t)'
    BY <2>2 DEF SettingsDone
  <2> QED
    BY <2>1, <2>2, <2>3, GoesApplied
<1>5. ASSUME NEW t \in Thread, SaveConfig(t)
      PROVE  AppliedInv'
  <2> DEFINE rest == Changes(previous[t], Saved(t)) \o <<"reply">>
  <2>1. /\ At(t, "save") /\ conf' = Saved(t) /\ todo' = [todo EXCEPT ![t] = rest]
        /\ UNCHANGED <<request, previous, alone>>
    BY <1>5 DEF SaveConfig
  <2>2. Head(rest) = CASE previous[t].tune # Saved(t).tune -> "read map"
                       [] previous[t].tune = Saved(t).tune /\ previous[t].cache # Saved(t).cache
                            -> "write nginx"
                       [] OTHER -> "reply"
    BY ChangesOrder
  <2> HIDE DEF rest
  <2>3. todo'[t] = rest /\ Saved(t)' = Saved(t)
    BY <2>1 DEF TypeInv, ThreadInv, Saved
  <2>4. Busy(t) /\ request[t].kind = "settings"
    BY <2>1, WhoseStep
  <2>5. SettingsDone(t)'
    BY <2>1, <2>2, <2>3 DEF SettingsDone, At
  <2> QED
    BY <2>1, <2>4, <2>5, GoesApplied
<1>6. ASSUME NEW t \in Thread, ReadMapfile(t)
      PROVE  AppliedInv'
  <2>1. /\ At(t, "read map") /\ Goes(t) /\ UNCHANGED <<previous, alone, conf>>
        /\ text' = [text EXCEPT ![t] = Edited(mapfile, Saved(t).tune)]
    BY <1>6 DEF ReadMapfile
  <2>2. /\ Busy(t) /\ request[t].kind = "settings" /\ request' = request /\ Saved(t)' = Saved(t)
        /\ Head(todo'[t]) = "clear map"
    <3>1. Busy(t) /\ request[t].kind = "settings"
      BY <2>1, WhoseStep
    <3>2. Head(todo'[t]) = Following(Plan(t), "read map")
      BY <2>1, Advance
    <3>3. request' = request /\ Saved(t)' = Saved(t)
      BY <2>1 DEF Goes, Saved
    <3> QED
      BY <3>1, <3>2, <3>3 DEF Following
  <2>3. Tuned(text'[t], Saved(t).tune)
    <3>1. mapfile \in MapText /\ Saved(t).tune \in Setting
      BY <2>1, <2>2, SavedIs DEF TypeInv, TypeOK, MapText, At, Config
    <3>2. text'[t] = Edited(mapfile, Saved(t).tune)
      BY <2>1 DEF TypeInv, TypeOK
    <3> QED
      BY <3>1, <3>2, EditedIs
  <2>4. t \in alone => SettingsDone(t)'
    BY <2>1, <2>2, <2>3 DEF AppliedInv, SettingsDone, At
  <2> QED
    BY <2>1, <2>2, <2>4, GoesApplied
<1>7. ASSUME NEW t \in Thread, WriteMapfile(t)
      PROVE  AppliedInv'
  <2>1. /\ At(t, "write map") /\ Goes(t) /\ UNCHANGED <<catalog, previous, alone, conf>>
        /\ mapfile' = text[t]
    BY <1>7 DEF WriteMapfile
  <2>2. /\ Busy(t) /\ request[t].kind # "numprocs" /\ request' = request /\ Saved(t)' = Saved(t)
        /\ Head(todo'[t]) = "stop"
    <3>1. Busy(t) /\ request[t].kind # "numprocs"
      BY <2>1, WhoseStep
    <3>2. Head(todo'[t]) = Following(Plan(t), "write map")
      BY <2>1, Advance
    <3>3. request' = request /\ Saved(t)' = Saved(t)
      BY <2>1 DEF Goes, Saved
    <3> QED
      BY <3>1, <3>2, <3>3 DEF Following
  <2>3. t \in alone /\ request[t].kind = "settings" => SettingsDone(t)'
    BY <2>1, <2>2 DEF AppliedInv, SettingsDone, At, Tuned
  <2>4. t \in alone /\ request[t].kind = "rebuild" => RebuildDone(t)'
    BY <2>1, <2>2 DEF AppliedInv, RebuildDone, At
  <2> QED
    BY <2>1, <2>2, <2>3, <2>4, GoesApplied
<1>19. ASSUME NEW t \in Thread, ClearMapfile(t)
       PROVE  AppliedInv'
  <2>1. /\ At(t, "clear map") /\ Goes(t) /\ UNCHANGED <<catalog, previous, alone, conf, text>>
    BY <1>19 DEF ClearMapfile
  <2>2. /\ Busy(t) /\ request[t].kind # "numprocs" /\ request' = request /\ Saved(t)' = Saved(t)
        /\ Head(todo'[t]) = "write map"
    <3>1. Busy(t) /\ request[t].kind # "numprocs"
      BY <2>1, WhoseStep
    <3>2. Head(todo'[t]) = Following(Plan(t), "clear map")
      BY <2>1, Advance
    <3>3. request' = request /\ Saved(t)' = Saved(t)
      BY <2>1 DEF Goes, Saved
    <3> QED
      BY <3>1, <3>2, <3>3 DEF Following
  <2>3. t \in alone /\ request[t].kind = "settings" => SettingsDone(t)'
    BY <2>1, <2>2 DEF AppliedInv, SettingsDone, At
  <2>4. t \in alone /\ request[t].kind = "rebuild" => RebuildDone(t)'
    BY <2>1, <2>2 DEF AppliedInv, RebuildDone, At
  <2> QED
    BY <2>1, <2>2, <2>3, <2>4, GoesApplied
<1>8. ASSUME NEW t \in Thread, WriteNginx(t)
      PROVE  AppliedInv'
  <2>1. /\ At(t, "write nginx") /\ Goes(t) /\ UNCHANGED <<previous, alone, conf, mapfile, up, serving>>
        /\ nginxConf' = Saved(t).cache
    BY <1>8 DEF WriteNginx
  <2>2. /\ Busy(t) /\ request[t].kind = "settings" /\ request' = request /\ Saved(t)' = Saved(t)
        /\ Head(todo'[t]) = "reload nginx"
    <3>1. Busy(t) /\ request[t].kind = "settings"
      BY <2>1, WhoseStep
    <3>2. Head(todo'[t]) = Following(Plan(t), "write nginx")
      BY <2>1, Advance
    <3>3. request' = request /\ Saved(t)' = Saved(t)
      BY <2>1 DEF Goes, Saved
    <3> QED
      BY <3>1, <3>2, <3>3 DEF Following
  <2>3. t \in alone => SettingsDone(t)'
    BY <2>1, <2>2 DEF AppliedInv, SettingsDone, At, Busy
  <2> QED
    BY <2>1, <2>2, <2>3, GoesApplied
<1>9. ASSUME NEW t \in Thread, ReloadNginx(t)
      PROVE  AppliedInv'
  <2>1. /\ At(t, "reload nginx") /\ Goes(t) /\ UNCHANGED <<previous, alone, conf, mapfile, up, serving>>
        /\ nginx' = nginxConf
    BY <1>9 DEF ReloadNginx
  <2>2. /\ Busy(t) /\ request[t].kind = "settings" /\ request' = request /\ Saved(t)' = Saved(t)
        /\ Head(todo'[t]) = "reply"
    <3>1. Busy(t) /\ request[t].kind = "settings"
      BY <2>1, WhoseStep
    <3>2. Head(todo'[t]) = Following(Plan(t), "reload nginx")
      BY <2>1, Advance
    <3>3. request' = request /\ Saved(t)' = Saved(t)
      BY <2>1 DEF Goes, Saved
    <3> QED
      BY <3>1, <3>2, <3>3 DEF Following
  <2>3. t \in alone => SettingsDone(t)'
    BY <2>1, <2>2 DEF AppliedInv, SettingsDone, At, Busy
  <2> QED
    BY <2>1, <2>2, <2>3, GoesApplied
<1>10. ASSUME NEW t \in Thread, Generate(t)
       PROVE  AppliedInv'
  <2>1. /\ At(t, "generate") /\ Goes(t) /\ UNCHANGED <<previous, alone, catalog>>
        /\ text' = [text EXCEPT ![t] = Generated(catalog)]
    BY <1>10 DEF Generate
  <2>2. /\ Busy(t) /\ request[t].kind = "rebuild" /\ request' = request
        /\ Head(todo'[t]) = "clear map"
    <3>1. Busy(t) /\ request[t].kind = "rebuild"
      BY <2>1, WhoseStep
    <3>2. Head(todo'[t]) = Following(Plan(t), "generate")
      BY <2>1, Advance
    <3>3. request' = request
      BY <2>1 DEF Goes
    <3> QED
      BY <3>1, <3>2, <3>3 DEF Following
  <2>3. text'[t].layers = catalog
    BY <2>1, DefaultsAre DEF TypeInv, TypeOK
  <2>4. t \in alone => RebuildDone(t)'
    BY <2>1, <2>2, <2>3 DEF AppliedInv, RebuildDone, At
  <2> QED
    BY <2>1, <2>2, <2>4, GoesApplied
<1>11. ASSUME NEW t \in Thread, Stop(t)
       PROVE  AppliedInv'
  <2>1. /\ At(t, "stop") /\ Goes(t) /\ UNCHANGED <<previous, alone, catalog, conf, mapfile>> /\ ~up'
    BY <1>11 DEF Stop
  <2>2. /\ Busy(t) /\ request[t].kind # "numprocs" /\ request' = request /\ Saved(t)' = Saved(t)
        /\ Head(todo'[t]) = "start"
    <3>1. Busy(t) /\ request[t].kind # "numprocs"
      BY <2>1, WhoseStep
    <3>2. Head(todo'[t]) = Following(Plan(t), "stop")
      BY <2>1, Advance
    <3>3. request' = request /\ Saved(t)' = Saved(t)
      BY <2>1 DEF Goes, Saved
    <3> QED
      BY <3>1, <3>2, <3>3 DEF Following
  <2>3. t \in alone /\ request[t].kind = "settings" => SettingsDone(t)'
    BY <2>1, <2>2 DEF AppliedInv, SettingsDone, At
  <2>4. t \in alone /\ request[t].kind = "rebuild" => RebuildDone(t)'
    BY <2>1, <2>2 DEF AppliedInv, RebuildDone, At
  <2> QED
    BY <2>1, <2>2, <2>3, <2>4, GoesApplied
<1>12. ASSUME NEW t \in Thread, Start(t)
       PROVE  AppliedInv'
  <2>1. /\ At(t, "start") /\ Goes(t) /\ UNCHANGED <<previous, alone, catalog, conf, mapfile>> /\ up'
        /\ serving' = IF up THEN serving ELSE mapfile
    BY <1>12 DEF Start
  <2>2. /\ Busy(t) /\ request[t].kind # "numprocs" /\ request' = request /\ Saved(t)' = Saved(t)
        /\ Head(todo'[t]) = IF Plan(t) = "both" THEN "write nginx" ELSE "reply"
    <3>1. Busy(t) /\ request[t].kind # "numprocs"
      BY <2>1, WhoseStep
    <3>2. Head(todo'[t]) = Following(Plan(t), "start")
      BY <2>1, Advance
    <3>3. request' = request /\ Saved(t)' = Saved(t)
      BY <2>1 DEF Goes, Saved
    <3> QED
      BY <3>1, <3>2, <3>3 DEF Following
  <2>3. t \in alone /\ request[t].kind = "settings" => SettingsDone(t)'
    <3>1. Head(todo[t]) = "start"
      BY <2>1 DEF At
    <3>2. request[t].kind = "settings" =>
              Plan(t) = IF previous[t].cache # Saved(t).cache THEN "both" ELSE "tune"
      BY <3>1 DEF Plan
    <3> QED
      BY <2>1, <2>2, <3>1, <3>2 DEF AppliedInv, SettingsDone, At
  <2>4. t \in alone /\ request[t].kind = "rebuild" => RebuildDone(t)'
    <3>1. request[t].kind = "rebuild" => Plan(t) = "rebuild"
      BY DEF Plan
    <3> QED
      BY <2>1, <2>2, <3>1 DEF AppliedInv, RebuildDone, At
  <2> QED
    BY <2>1, <2>2, <2>3, <2>4, GoesApplied
<1>13. ASSUME NEW t \in Thread, WriteNumprocs(t)
       PROVE  AppliedInv'
  <2>1. /\ At(t, "write numprocs") /\ Goes(t) /\ UNCHANGED <<previous, alone>>
        /\ numprocs' = request[t].set
    BY <1>13 DEF WriteNumprocs
  <2>2. /\ Busy(t) /\ request[t].kind = "numprocs" /\ request' = request
        /\ Head(todo'[t]) = "update"
    <3>1. Busy(t) /\ request[t].kind = "numprocs"
      BY <2>1, WhoseStep
    <3>2. Head(todo'[t]) = Following(Plan(t), "write numprocs")
      BY <2>1, Advance
    <3>3. request' = request
      BY <2>1 DEF Goes
    <3> QED
      BY <3>1, <3>2, <3>3 DEF Following
  <2>3. NumprocsDone(t)'
    BY <2>1, <2>2 DEF NumprocsDone, At
  <2> QED
    BY <2>1, <2>2, <2>3, GoesApplied
<1>14. ASSUME NEW t \in Thread, UpdateGroup(t)
       PROVE  AppliedInv'
  <2>1. At(t, "update") /\ workers' = numprocs /\ Busy(t)
    BY <1>14 DEF UpdateGroup, At
  <2>2. CASE Goes(t) /\ UNCHANGED <<previous, text, alone>>
    <3>1. /\ request[t].kind = "numprocs" /\ request' = request
          /\ Head(todo'[t]) = "reply"
      BY <2>1, <2>2, Advance, WhoseStep DEF Goes, Following
    <3>2. t \in alone => NumprocsDone(t)'
      BY <2>1, <3>1 DEF AppliedInv, NumprocsDone, At
    <3> QED
      BY <2>1, <2>2, <3>1, <3>2, GoesApplied
  <2>3. CASE Ends(t)
    BY <2>1, <2>3, EndsApplied
  <2> QED
    BY <1>14, <2>2, <2>3 DEF UpdateGroup
<1>15. ASSUME Autostart
       PROVE  AppliedInv'
  <2>1. /\ UNCHANGED <<catalog, files, nginx, workers, local, alone>> /\ up'
        /\ admin => serving' = IF up THEN serving ELSE mapfile
    BY <1>15 DEF Autostart
  <2>2. ASSUME NEW t \in alone
        PROVE  /\ request'[t].kind = "settings" => SettingsDone(t)'
               /\ request'[t].kind = "rebuild" => RebuildDone(t)'
               /\ request'[t].kind = "numprocs" => NumprocsDone(t)'
    <3>0. admin
      BY DEF TypeInv, ThreadInv, TypeOK, Quiet
    <3>1. request[t].kind = "settings" => SettingsDone(t)'
      BY <2>1, <3>0 DEF AppliedInv, SettingsDone, At, Busy, Saved
    <3>2. request[t].kind = "rebuild" => RebuildDone(t)'
      BY <2>1, <3>0 DEF AppliedInv, RebuildDone, At, Busy
    <3>3. request[t].kind = "numprocs" => NumprocsDone(t)'
      BY <2>1 DEF AppliedInv, NumprocsDone, At, Busy
    <3> QED
      BY <2>1, <3>1, <3>2, <3>3
  <2> QED
    BY <2>1, <2>2 DEF AppliedInv
<1>16. ASSUME AdminEnds \/ ContainerRestart
       PROVE  AppliedInv'
  BY <1>16 DEF AdminEnds, ContainerRestart, ThreadsEnd, AppliedInv
<1>17. ASSUME AdminStart \/ AdminStartEnds
       PROVE  AppliedInv'
  <2>1. alone' = {}
    <3>1. \A t \in alone : Busy(t) /\ t \in Thread
      BY DEF TypeInv, ThreadInv, TypeOK
    <3>2. \A t \in Thread : ~Busy(t)
      BY <1>17 DEF AdminStart, AdminStartEnds, TypeInv, ThreadInv, Quiet
    <3> QED
      BY <1>17, <3>1, <3>2 DEF AdminStart, AdminStartEnds
  <2> QED
    BY <2>1 DEF AppliedInv
<1>18. ASSUME UNCHANGED vars
       PROVE  AppliedInv'
  <2>1. UNCHANGED <<catalog, files, running, local, alone>>
    BY <1>18 DEF vars
  <2>2. ASSUME NEW t \in alone
        PROVE  /\ SettingsDone(t) => SettingsDone(t)'
               /\ RebuildDone(t) => RebuildDone(t)'
               /\ NumprocsDone(t) => NumprocsDone(t)'
    <3>1. SettingsDone(t) => SettingsDone(t)'
      BY <2>1 DEF SettingsDone, At, Busy, Saved
    <3>2. RebuildDone(t) => RebuildDone(t)'
      BY <2>1 DEF RebuildDone, At, Busy
    <3>3. NumprocsDone(t) => NumprocsDone(t)'
      BY <2>1 DEF NumprocsDone, At, Busy
    <3> QED
      BY <3>1, <3>2, <3>3
  <2> QED
    BY <2>1, <2>2 DEF AppliedInv
<1> QED
  BY <1>1, <1>2, <1>3, <1>4, <1>5, <1>6, <1>7, <1>8, <1>9, <1>10, <1>11, <1>12, <1>13, <1>14, <1>15,
     <1>16, <1>17, <1>18, <1>19 DEF Next, RequestStep

\* Before the answer of a request that no other overlapped, what it saved is
\* in the file, in the mapfile, with the workers and with nginx.
LEMMA BeforeReply ==
    ASSUME TypeInv, AppliedInv
    PROVE  AcknowledgedIsApplied
<1>1. ASSUME NEW t \in alone, todo[t] = <<"reply">>
      PROVE  CASE request[t].kind = "settings" ->
                      /\ \A k \in DOMAIN conf : conf[k] = IF request[t].set[k] = Keep THEN previous[t][k]
                                                           ELSE request[t].set[k]
                      /\ conf.tune # previous[t].tune =>
                            up /\ serving = mapfile /\ (mapfile # Torn => mapfile.tune = conf.tune)
                      /\ conf.cache # previous[t].cache => nginx = conf.cache
               [] request[t].kind = "rebuild" -> up /\ serving.layers = request[t].set
               [] request[t].kind = "numprocs" -> workers = request[t].set
  <2>1. t \in Thread /\ Busy(t) /\ request[t] \in Request
    BY <1>1 DEF TypeInv, ThreadInv, TypeOK
  <2>2. At(t, "reply") /\ Head(todo[t]) = "reply"
    BY <1>1, <2>1 DEF At
  <2>3. CASE request[t].kind = "settings"
    <3>1. SettingsDone(t)
      BY <2>3 DEF AppliedInv
    <3>2. conf = Saved(t) /\ previous[t] \in Config /\ request[t].set \in Payloads
      BY <2>1, <2>2, <2>3, <3>1, SavedIs, RequestIs DEF SettingsDone, At
    <3>3. \A k \in DOMAIN previous[t] :
              conf[k] = IF request[t].set[k] = Keep THEN previous[t][k] ELSE request[t].set[k]
      BY <3>2, ConfigIs DEF Saved
    <3>4. DOMAIN conf = DOMAIN previous[t]
      <4>1. Saved(t) \in Config
        BY <3>2, ConfigIs DEF Saved
      <4>2. DOMAIN conf = {"tune", "cache"} /\ DOMAIN previous[t] = {"tune", "cache"}
        BY <3>2, <4>1, ConfigIs
      <4> QED
        BY <4>2
    <3> QED
      BY <2>2, <2>3, <3>1, <3>2, <3>3, <3>4 DEF SettingsDone, Tuned
  <2>4. CASE request[t].kind = "rebuild"
    BY <2>2, <2>4 DEF AppliedInv, RebuildDone
  <2>5. CASE request[t].kind = "numprocs"
    BY <2>2, <2>5 DEF AppliedInv, NumprocsDone
  <2> QED
    BY <2>1, <2>3, <2>4, <2>5, RequestIs
<1> QED
  BY <1>1 DEF AcknowledgedIsApplied

\* PUT /runtime, /collections/active and /numprocs, enable, disable and
\* delete answer 200 only when the processes have what they set, whatever
\* failures, restarts and overlapping requests came before; unless the stop of
\* the workers fails, whose result restart_mapserver_group does not look at,
\* and, for the tuning, unless one of those left the mapfile truncated.
THEOREM AppliedBeforeReply ==
    ASSUME "stop" \notin FaultSteps
    PROVE  Spec => []AcknowledgedIsApplied
<1>1. Init => TypeInv /\ AppliedInv
  BY InitTyped, InitApplied
<1>2. TypeInv /\ AppliedInv /\ [Next]_vars => (TypeInv /\ AppliedInv)'
  BY StepTyped, StepApplied
<1>3. TypeInv /\ AppliedInv => AcknowledgedIsApplied
  BY BeforeReply
<1> QED
  BY <1>1, <1>2, <1>3, PTL DEF Spec
=============================================================================
