------------------------------- MODULE ScanProofs -------------------------------
(***************************************************************************)
(* Proofs about Scan for any number of jobs, any EPSG codes and listings,  *)
(* any failing steps and any disruption.                                   *)
(***************************************************************************)
EXTENDS Scan, TLAPS, WellFoundedInduction

Keys == {c.key : c \in Cog}

-----------------------------------------------------------------------------
(* What a scan makes of the COGs it has found *)

\* The groups are taken in the order of their codes: there is a next one.
LEMMA FirstIn ==
    ASSUME NEW S \in SUBSET Nat, S # {}
    PROVE  First(S) \in S
<1> DEFINE R == OpToRel(<, Nat)
<1>1. IsWellFoundedOn(R, Nat)
  BY NatLessThanWellFounded
<1>2. \E x \in S : \A y \in S : ~(<<y, x>> \in R)
  <2> HIDE DEF R
  <2> QED
    BY <1>1, WFMin
<1>3. PICK x \in S : \A y \in S : ~(<<y, x>> \in R)
  BY <1>2
<1>4. \A y \in S : ~(y < x)
  <2> SUFFICES ASSUME NEW y \in S, y < x PROVE FALSE
    OBVIOUS
  <2>1. <<y, x>> \in R
    BY DEF OpToRel
  <2> QED
    BY <1>3, <2>1
<1>5. \A y \in S : x <= y
  BY <1>4
<1> QED
  BY <1>5 DEF First

LEMMA CogType ==
    ASSUME NEW c \in Cog
    PROVE  c.key \in Keys /\ c.epsg \in Epsg \union {None} /\ c.finite \in BOOLEAN /\ None \notin Epsg
  BY ScanAssumption DEF Keys, Cog

LEMMA ResolvedType ==
    ASSUME NEW cogs \in SUBSET Cog
    PROVE  Resolved(cogs) \subseteq Epsg
  BY CogType DEF Resolved

LEMMA OneCode ==
    ASSUME NEW cogs, OneGroup(cogs)
    PROVE  (CHOOSE e \in Epsg : Resolved(cogs) = {e}) \in Epsg
           /\ Resolved(cogs) = {CHOOSE e \in Epsg : Resolved(cogs) = {e}}
  BY DEF OneGroup

LEMMA LabelType ==
    ASSUME NEW cogs \in SUBSET Cog
    PROVE  \A c \in Label(cogs) :
              /\ c \in Cog
              /\ \E d \in cogs : c.key = d.key /\ c.finite = d.finite
                                 /\ (c.epsg = d.epsg \/ (OneGroup(cogs) /\ {c.epsg} = Resolved(cogs)))
<1>1. CASE OneGroup(cogs)
  <2> DEFINE e == CHOOSE x \in Epsg : Resolved(cogs) = {x}
  <2>1. e \in Epsg /\ Resolved(cogs) = {e}
    BY <1>1, OneCode
  <2>2. Label(cogs) = {[c EXCEPT !.epsg = e] : c \in cogs}
    BY <1>1 DEF Label
  <2> HIDE DEF e
  <2>3. SUFFICES ASSUME NEW c \in Label(cogs)
                 PROVE  /\ c \in Cog
                        /\ \E d \in cogs : c.key = d.key /\ c.finite = d.finite
                              /\ (c.epsg = d.epsg \/ (OneGroup(cogs) /\ {c.epsg} = Resolved(cogs)))
    OBVIOUS
  <2>4. PICK d \in cogs : c = [d EXCEPT !.epsg = e]
    BY <2>2
  <2>5. c = [key |-> d.key, epsg |-> e, finite |-> d.finite]
    BY <2>4 DEF Cog
  <2>6. d.key \in UNION {{x.key : x \in y} : y \in Contents} /\ d.finite \in BOOLEAN
    BY DEF Cog
  <2>7. c \in Cog
    BY <2>1, <2>5, <2>6 DEF Cog
  <2>8. c.key = d.key /\ c.finite = d.finite /\ c.epsg = e
    BY <2>5
  <2> QED
    BY <1>1, <2>1, <2>7, <2>8
<1>2. CASE ~OneGroup(cogs)
  <2>1. Label(cogs) = cogs
    BY <1>2 DEF Label
  <2>2. SUFFICES ASSUME NEW c \in cogs
                 PROVE  \E d \in cogs : c.key = d.key /\ c.finite = d.finite
                              /\ (c.epsg = d.epsg \/ (OneGroup(cogs) /\ {c.epsg} = Resolved(cogs)))
    BY <2>1
  <2> WITNESS c \in cogs
  <2> QED
    OBVIOUS
<1> QED
  BY <1>1, <1>2

-----------------------------------------------------------------------------
(* Types *)

\* A scanner that writes or loads has a group to go on with.
GroupInv ==
    \A j \in Job :
        /\ left[j] \subseteq Resolved(found[j])
        /\ scanner[j] \in {"write", "unlink", "rename", "delete", "commit"} => left[j] # {}
        /\ scanner[j] = "wrote" => Resolved(found[j]) # {}

TypeInv == TypeOK /\ GroupInv

LEMMA CurrentType ==
    ASSUME TypeInv, NEW j \in Job, left[j] # {}
    PROVE  Current(j) \in left[j] /\ Current(j) \in Epsg /\ Current(j) \in Resolved(found[j])
<1>1. left[j] \in SUBSET Nat /\ left[j] \subseteq Epsg /\ left[j] \subseteq Resolved(found[j])
  BY ScanAssumption DEF TypeInv, TypeOK, GroupInv
<1> QED
  BY <1>1, FirstIn DEF Current

LEMMA PathType ==
    ASSUME NEW cogs \in SUBSET Cog, NEW e \in Epsg
    PROVE  Path(cogs, e) \in Epsg \union {Base}
  BY DEF Path

LEMMA FileType ==
    ASSUME TypeOK, NEW j \in Job, NEW e \in Epsg
    PROVE  File(j, e) \in IndexFile
<1>1. found[j] \in SUBSET Cog
  BY DEF TypeOK
<1>2. \A c \in Group(found[j], e) : c.key \in Keys
  BY <1>1, LabelType, CogType DEF Group
<1> QED
  BY <1>2 DEF File, IndexFile, Keys

LEMMA RowsType ==
    ASSUME TypeOK, NEW j \in Job, NEW e \in Epsg
    PROVE  RowsOf(j, e) \subseteq Row /\ \A r \in RowsOf(j, e) : r.job = j
<1>1. found[j] \in SUBSET Cog
  BY DEF TypeOK
<1>2. \A c \in Group(found[j], e) : c.key \in Keys
  BY <1>1, LabelType, CogType DEF Group
<1>3. \A r \in RowsOf(j, e) : \E k \in Keys : r = [job |-> j, key |-> k, epsg |-> e]
  BY <1>2 DEF RowsOf
<1> QED
  BY <1>3 DEF Row, Keys

LEMMA EntryType ==
    ASSUME TypeOK, NEW j \in Job, NEW on \in BOOLEAN
    PROVE  EntryOf(j, on) \in Entry
<1>1. found[j] \in SUBSET Cog
  BY DEF TypeOK
<1>2. \A e \in Resolved(found[j]) : [epsg |-> e, path |-> Path(found[j], e)]
                                       \in [epsg : Epsg, path : Epsg \union {Base}]
  BY <1>1, ResolvedType, PathType
<1>3. (backend = "postgis") \in BOOLEAN
  OBVIOUS
<1> QED
  BY <1>2, <1>3 DEF EntryOf, Entry

LEMMA LayersType ==
    ASSUME NEW e \in Entry \union {None}
    PROVE  Layers(e) \subseteq Layer
<1>1. CASE e = None \/ ~e.enabled
  BY <1>1 DEF Layers
<1>2. CASE e # None /\ e.enabled
  <2>1. e.groups \subseteq [epsg : Epsg, path : Epsg \union {Base}] /\ e.postgis \in BOOLEAN
    BY <1>2 DEF Entry
  <2> QED
    BY <1>2, <2>1 DEF Layers, Layer
<1> QED
  BY <1>1, <1>2

\* What the generator makes has the type of a mapfile.
LEMMA MapfileType ==
    ASSUME TypeOK, MakesMapfile \/ LeavesMapfile
    PROVE  mapfile' \subseteq Layer
<1>1. CASE MakesMapfile
  <2>1. entry \in Entry \union {None}
    BY <1>1 DEF MakesMapfile, TypeOK
  <2> QED
    BY <1>1, <2>1, LayersType DEF MakesMapfile
<1>2. CASE LeavesMapfile
  BY <1>2 DEF LeavesMapfile, TypeOK
<1> QED
  BY <1>1, <1>2

LEMMA InitTypes == Init => TypeInv
  BY DEF Init, TypeInv, TypeOK, GroupInv, Live, Row

LEMMA NextTypes == TypeInv /\ [Next]_vars => TypeInv'
<1> SUFFICES ASSUME TypeInv, [Next]_vars PROVE TypeInv'
  OBVIOUS
<1> USE DEF TypeInv, TypeOK, jobs, scans, index, layers, delete, history
<1>1. ASSUME NEW j \in Job, StartScan(j) \/ ScanElsewhere(j) PROVE TypeInv'
  <2>1. CASE StartScan(j)
    BY <2>1 DEF StartScan, GroupInv
  <2>2. CASE ScanElsewhere(j)
    <3>1. GroupInv'
      BY <2>2 DEF ScanElsewhere, GroupInv
    <3>2. TypeOK'
      BY <2>2 DEF ScanElsewhere, Live
    <3> QED
      BY <3>1, <3>2
  <2> QED
    BY <1>1, <2>1, <2>2
<1>2. ASSUME NEW j \in Job, Spawn(j) \/ StreamBreaks(j) PROVE TypeInv'
  BY <1>2 DEF Spawn, StreamBreaks, ThreadGoes, JobFails, JobEndsAs, GroupInv, Live
<1>3. ASSUME NEW j \in Job, Collect(j) \/ Restart(j) PROVE TypeInv'
  BY <1>3 DEF Collect, Restart, Restarts, StopIgnored, StartFails, ThreadGoes, JobFails, JobEndsAs, GroupInv
<1>4. ASSUME NEW j \in Job, Render(j) PROVE TypeInv'
  <2>1. mapfile' \subseteq Layer
    BY <1>4, MapfileType DEF Render
  <2> QED
    BY <1>4, <2>1 DEF Render, ThreadGoes, JobFails, JobEndsAs, GroupInv
<1>5. ASSUME NEW j \in Job, Survey(j) PROVE TypeInv'
  <2>1. \A cogs \in Contents : cogs \in SUBSET Cog /\ Resolved(cogs) \subseteq Epsg
    BY ScanAssumption, ResolvedType
  <2>2. CASE ScannerFails(j, "survey") /\ UNCHANGED <<found, left>>
    BY <1>5, <2>2 DEF Survey, ScannerFails, ScannerGoes, GroupInv
  <2>3. CASE \E cogs \in Contents :
                /\ found' = [found EXCEPT ![j] = cogs]
                /\ left' = [left EXCEPT ![j] = Resolved(cogs)]
                /\ Prints(j, IF Resolved(cogs) = {} THEN "failed"
                             ELSE IF j \in foreign THEN "delete" ELSE "write")
    <3>1. PICK cogs \in Contents :
                /\ found' = [found EXCEPT ![j] = cogs]
                /\ left' = [left EXCEPT ![j] = Resolved(cogs)]
                /\ Prints(j, IF Resolved(cogs) = {} THEN "failed"
                             ELSE IF j \in foreign THEN "delete" ELSE "write")
      BY <2>3
    <3>2. scanner' \in [Job -> Live \union {"off", "failed", "exited"}]
      BY <3>1 DEF Prints, ScannerGoes, Live
    <3>3. scanner'[j] = "failed" \/ (scanner'[j] \in {"delete", "write"} /\ Resolved(cogs) # {})
      BY <3>1 DEF Prints, ScannerGoes
    <3>4. \A i \in Job \ {j} : scanner'[i] = scanner[i] /\ found'[i] = found[i] /\ left'[i] = left[i]
      BY <3>1 DEF Prints, ScannerGoes
    <3>5. GroupInv'
      BY <2>1, <3>1, <3>3, <3>4 DEF GroupInv
    <3> QED
      BY <1>5, <2>1, <3>1, <3>2, <3>5 DEF Survey
  <2> QED
    BY <1>5, <2>2, <2>3 DEF Survey
<1>6. ASSUME NEW j \in Job, Write(j) PROVE TypeInv'
  <2>1. Current(j) \in Epsg
    BY <1>6, CurrentType DEF Write, GroupInv
  <2>2. CurrentPath(j) \in Epsg \union {Base}
    BY <2>1, PathType DEF CurrentPath
  <2> HIDE DEF TypeOK
  <2>3. tmp' \subseteq Epsg \union {Base}
    BY <1>6, <2>2 DEF Write, TypeOK
  <2>4. scanner' \in [Job -> Live \union {"off", "failed", "exited"}]
    BY <1>6 DEF Write, ScannerGoes, TypeOK, Live
  <2>5. GroupInv'
    <3>1. UNCHANGED <<found, left>> /\ scanner[j] = "write" /\ scanner'[j] \in {"unlink", "failed"}
          /\ \A i \in Job \ {j} : scanner'[i] = scanner[i]
      BY <1>6 DEF Write, ScannerGoes, TypeOK
    <3> QED
      BY <3>1 DEF GroupInv
  <2> QED
    BY <1>6, <2>3, <2>4, <2>5 DEF Write, TypeOK
<1>7. ASSUME NEW j \in Job, Unlink(j) PROVE TypeInv'
  BY <1>7 DEF Unlink, ScannerGoes, ScannerFails, GroupInv, Live
<1>8. ASSUME NEW j \in Job, Rename(j) PROVE TypeInv'
  <2>1. Current(j) \in left[j] /\ Current(j) \in Epsg /\ Current(j) \in Resolved(found[j])
    BY <1>8, CurrentType DEF Rename, GroupInv
  <2>2. File(j, Current(j)) \in IndexFile
    BY <2>1, FileType
  <2>3. fgb' \in [Epsg \union {Base} -> IndexFile \union {None}]
    BY <1>8, <2>2 DEF Rename
  <2>4. /\ scanner' \in [Job -> Live \union {"off", "failed", "exited"}] /\ left' \in [Job -> SUBSET Epsg]
        /\ tmp' \subseteq Epsg \union {Base}
    BY <1>8 DEF Rename, ScannerFails, ScannerGoes, Live
  <2>5. GroupInv'
    <3>1. left'[j] \in {left[j], left[j] \ {Current(j)}} /\ found' = found
      BY <1>8 DEF Rename
    <3>2. /\ scanner'[j] \in {"wrote", "write", "failed"}
          /\ scanner'[j] = "write" => left[j] # {Current(j)}
      BY <1>8 DEF Rename, ScannerFails, ScannerGoes
    <3>3. \A i \in Job \ {j} : scanner'[i] = scanner[i] /\ left'[i] = left[i]
      BY <1>8 DEF Rename, ScannerFails, ScannerGoes
    <3> HIDE DEF TypeOK
    <3> QED
      BY <2>1, <3>1, <3>2, <3>3 DEF GroupInv
  <2> QED
    BY <1>8, <2>3, <2>4, <2>5 DEF Rename
<1>9. ASSUME NEW j \in Job, Wrote(j) PROVE TypeInv'
  <2>1. Resolved(found[j]) \subseteq Epsg
    BY ResolvedType
  <2> QED
    BY <1>9, <2>1 DEF Wrote, Prints, ScannerGoes, GroupInv, Live
<1>10. ASSUME NEW j \in Job, BeginLoad(j) PROVE TypeInv'
  <2>1. crossed' \subseteq Job
    BY <1>10 DEF BeginLoad, Others
  <2>2. doomed' \in [Job -> SUBSET Row] /\ scanner' \in [Job -> Live \union {"off", "failed", "exited"}]
    BY <1>10 DEF BeginLoad, ScannerGoes, ScannerFails, Live
  <2>3. GroupInv'
    BY <1>10 DEF BeginLoad, ScannerGoes, ScannerFails, GroupInv
  <2> QED
    BY <1>10, <2>1, <2>2, <2>3 DEF BeginLoad
<1>11. ASSUME NEW j \in Job, Commit(j) PROVE TypeInv'
  <2>1. Current(j) \in left[j] /\ Current(j) \in Epsg /\ Current(j) \in Resolved(found[j])
    BY <1>11, CurrentType DEF Commit, GroupInv
  <2>2. RowsOf(j, Current(j)) \subseteq Row
    BY <2>1, RowsType
  <2>3. scanner' \in [Job -> Live \union {"off", "failed", "exited"}]
    BY <1>11 DEF Commit, Prints, ScannerFails, ScannerGoes, Live
  <2>4. left'[j] = left[j] \/ left'[j] = left[j] \ {Current(j)}
    BY <1>11 DEF Commit
  <2>5. rows' \subseteq Row /\ left' \in [Job -> SUBSET Epsg] /\ doomed' \in [Job -> SUBSET Row]
    BY <1>11, <2>2 DEF Commit
  <2>6. GroupInv'
    <3>1. found' = found /\ (scanner'[j] = "delete" => left[j] # {Current(j)})
          /\ scanner'[j] \in {"delete", "truncate", "exited", "failed"}
      BY <1>11 DEF Commit, Prints, ScannerFails, ScannerGoes
    <3>2. \A i \in Job \ {j} : scanner'[i] = scanner[i] /\ left'[i] = left[i]
      BY <1>11 DEF Commit, Prints, ScannerFails, ScannerGoes
    <3> HIDE DEF TypeOK
    <3> QED
      BY <2>1, <2>4, <3>1, <3>2 DEF GroupInv
  <2> QED
    BY <1>11, <2>3, <2>5, <2>6 DEF Commit
<1>12. ASSUME NEW j \in Job, Truncate(j) PROVE TypeInv'
  BY <1>12 DEF Truncate, ScannerGoes, GroupInv, Live
<1>13. ASSUME NEW j \in Job, Upsert(j) PROVE TypeInv'
  <2>1. \A on \in BOOLEAN : EntryOf(j, on) \in Entry
    BY EntryType
  <2> QED
    BY <1>13, <2>1 DEF Upsert, Prints, ScannerGoes, ScannerFails, GroupInv, Live
<1>14. ASSUME NEW j \in Job, KillScanner(j) PROVE TypeInv'
  BY <1>14 DEF KillScanner, ScannerGoes, GroupInv
<1>15. CASE AdminRestart \/ DeleteElsewhere
  <2>1. CASE AdminRestart
    <3>1. status' \in [Job -> {"none", "running", "failed", "complete", "lost"}]
      BY <2>1 DEF AdminRestart
    <3>2. thread' \in [Job -> {"off", "spawn", "stream", "render", "restart"}]
      BY <2>1 DEF AdminRestart
    <3> QED
      BY <2>1, <3>1, <3>2 DEF AdminRestart, GroupInv
  <2>2. CASE DeleteElsewhere
    BY <2>2 DEF DeleteElsewhere, GroupInv
  <2> QED
    BY <1>15, <2>1, <2>2
<1>16. CASE DeleteStart \/ DeleteRows \/ DeleteCatalog \/ DeleteRestart
  BY <1>16 DEF DeleteStart, DeleteRows, DeleteCatalog, DeleteRestart, Restarts, StopIgnored, StartFails,
              DeleteGoes, DeleteFails, DeleteEnds, GroupInv
<1>17. CASE DeleteFiles
  BY <1>17 DEF DeleteFiles, DeleteGoes, GroupInv
<1>18. CASE DeleteRender
  <2>1. mapfile' \subseteq Layer
    BY <1>18, MapfileType DEF DeleteRender
  <2> QED
    BY <1>18, <2>1 DEF DeleteRender, DeleteGoes, DeleteFails, DeleteEnds, GroupInv
<1>19. CASE UNCHANGED vars
  BY <1>19 DEF vars, GroupInv
<1> QED
  BY <1>1, <1>2, <1>3, <1>4, <1>5, <1>6, <1>7, <1>8, <1>9, <1>10, <1>11, <1>12, <1>13, <1>14,
     <1>15, <1>16, <1>17, <1>18, <1>19 DEF Next, ThreadStep, ScannerStep, DeleteStep

\* Every variable of a scan keeps its type, and the next group exists whenever
\* a scanner is about to write or load one.
LEMMA TypesHold == Spec => []TypeInv
  BY InitTypes, NextTypes, PTL DEF Spec

\* The variables of a scan have their types in every reachable state.
THEOREM TypeCorrect == Spec => []TypeOK
<1>1. TypeInv => TypeOK
  BY DEF TypeInv
<1> QED
  BY <1>1, TypesHold, PTL

-----------------------------------------------------------------------------
(* Jobs, threads and scanners *)

\* A job runs as long as its thread, except for a payload that makes no command
\* line and for output that its thread could not read.  A scanner without a
\* thread is an orphan, or another task's.
JobInv ==
    /\ \A j \in Job :
          /\ status[j] = "none" => scanner[j] = "off"
          /\ thread[j] # "off" => status[j] = "running"
          /\ thread[j] = "spawn" => scanner[j] = "off"
          /\ Scanning(j) /\ j \notin orphan \union foreign => thread[j] = "stream"
          /\ j \in orphan => status[j] \in {"running", "lost"} /\ thread[j] = "off"
          /\ j \in foreign => status[j] = "lost"
          /\ status[j] = "running" /\ thread[j] = "off" => ~well[j] \/ j \in orphan
          /\ thread[j] \in {"render", "restart"} \/ status[j] = "complete" => scanner[j] = "exited"
    /\ \A i, j \in Job : status[i] = "running" /\ status[j] = "running" => i = j

LEMMA InitJobs == Init => JobInv
  BY DEF Init, JobInv, Scanning, Live

\* A scanner goes on from one live state to another or ends.
Moves(j) ==
    /\ Scanning(j)
    /\ \E s \in Live \union {"failed", "exited"} : scanner' = [scanner EXCEPT ![j] = s]
    /\ UNCHANGED <<status, well, thread, orphan, foreign>>

LEMMA StepMoves ==
    ASSUME NEW j \in Job, ScannerStep(j) \/ KillScanner(j)
    PROVE  Moves(j)
<1> USE DEF Moves, Scanning, Live, ScannerGoes, ScannerFails, Prints, jobs
<1>1. CASE Survey(j)
  BY <1>1 DEF Survey
<1>2. CASE Write(j) \/ Unlink(j) \/ Rename(j) \/ Wrote(j)
  BY <1>2 DEF Write, Unlink, Rename, Wrote
<1>3. CASE BeginLoad(j) \/ Truncate(j) \/ Upsert(j) \/ KillScanner(j)
  BY <1>3 DEF BeginLoad, Truncate, Upsert, KillScanner
<1>4. CASE Commit(j)
  BY <1>4 DEF Commit
<1> QED
  BY <1>1, <1>2, <1>3, <1>4 DEF ScannerStep

LEMMA NextJobs == TypeInv /\ JobInv /\ [Next]_vars => JobInv'
<1> SUFFICES ASSUME TypeInv, JobInv, [Next]_vars PROVE JobInv'
  OBVIOUS
<1> USE DEF TypeInv, TypeOK, JobInv, jobs, scans, index, layers, delete, history, Scanning, Live
<1>1. ASSUME NEW j \in Job, StartScan(j) PROVE JobInv'
  BY <1>1 DEF StartScan, Startable, Unused
<1>2. ASSUME NEW j \in Job, ScanElsewhere(j) PROVE JobInv'
  BY <1>2 DEF ScanElsewhere, Unused
<1>3. ASSUME NEW j \in Job, Spawn(j) PROVE JobInv'
  BY <1>3 DEF Spawn, ThreadGoes, JobFails, JobEndsAs
<1>4. ASSUME NEW j \in Job, StreamBreaks(j) PROVE JobInv'
  BY <1>4 DEF StreamBreaks, ThreadGoes
<1>5. ASSUME NEW j \in Job, Collect(j) PROVE JobInv'
  BY <1>5 DEF Collect, ThreadGoes, JobFails, JobEndsAs
<1>6. ASSUME NEW j \in Job, Render(j) \/ Restart(j) PROVE JobInv'
  BY <1>6 DEF Render, Restart, ThreadGoes, JobFails, JobEndsAs
<1>7. ASSUME NEW j \in Job, Moves(j) PROVE JobInv'
  BY <1>7 DEF Moves
<1>8. CASE AdminRestart
  BY <1>8 DEF AdminRestart
<1>9. CASE DeleteElsewhere \/ DeleteStart \/ DeleteRows \/ DeleteCatalog \/ DeleteRender \/ DeleteRestart
  BY <1>9 DEF DeleteElsewhere, DeleteStart, DeleteRows, DeleteCatalog, DeleteRender, DeleteRestart
<1>10. CASE DeleteFiles
  BY <1>10 DEF DeleteFiles
<1>11. CASE UNCHANGED vars
  BY <1>11 DEF vars
<1> QED
  BY <1>1, <1>2, <1>3, <1>4, <1>5, <1>6, <1>7, <1>8, <1>9, <1>10, <1>11, StepMoves
     DEF Next, ThreadStep, DeleteStep

LEMMA JobsHold == Spec => []JobInv
  BY InitJobs, NextJobs, TypesHold, PTL DEF Spec

-----------------------------------------------------------------------------
(* Rows are whole *)

\* Every row, stored or seen by the DELETE of an open transaction, is one that
\* its scan makes, and a scan with one source CRS has all of its rows there
\* or none.
WholeIn(S) ==
    \A r \in S : /\ r \in AllRows(r.job)
                 /\ OneGroup(found[r.job]) => AllRows(r.job) \subseteq S

\* Nothing is loaded before the survey is over.
NotLoaded(j) ==
    scanner[j] \in {"off", "survey"} =>
        /\ \A r \in rows : r.job # j
        /\ \A k \in Job : \A r \in doomed[k] : r.job # j

\* Scans that are loading at once have crossed.
Apart == \A i, k \in Job : i # k /\ Loading(i) /\ Loading(k) => i \in crossed /\ k \in crossed

\* Between the DELETE of its first group and the end of its load, only scans that
\* have crossed another add rows to those of a scan that has not.
LoadsAlone(j) ==
    j \notin crossed =>
        /\ scanner[j] = "commit" => \A r \in rows \ doomed[j] : r.job \in crossed \union {j}
        /\ scanner[j] = "delete" /\ ~DeleteFirst(j) => \A r \in rows : r.job \in crossed \union {j}

RowInv ==
    /\ WholeIn(rows) /\ \A k \in Job : WholeIn(doomed[k])
    /\ Apart
    /\ \A j \in Job : NotLoaded(j) /\ LoadsAlone(j)
    /\ \A r, s \in rows : r.job \notin crossed /\ s.job \notin crossed => r.job = s.job

LEMMA RowInvWhole == RowInv => RowsAreWhole
<1>1. ASSUME RowInv, NEW r \in rows, OneGroup(found[r.job])
      PROVE  AllRows(r.job) \subseteq rows
  BY <1>1 DEF RowInv, WholeIn
<1>2. ASSUME RowInv, \A r \in rows : r.job \notin crossed, NEW r \in rows, NEW s \in rows
      PROVE  r.job = s.job
  BY <1>2 DEF RowInv
<1> QED
  BY <1>1, <1>2 DEF RowsAreWhole

LEMMA InitRows == Init => RowInv
  BY DEF Init, RowInv, WholeIn, NotLoaded, LoadsAlone, Apart, Loading

\* A scanner adds rows of its own only, and all of them when it has one group.
LEMMA OwnRows ==
    ASSUME TypeInv, NEW j \in Job, left[j] # {}
    PROVE  /\ RowsOf(j, Current(j)) \subseteq AllRows(j)
           /\ \A r \in RowsOf(j, Current(j)) : r.job = j
           /\ OneGroup(found[j]) => AllRows(j) = RowsOf(j, Current(j)) /\ DeleteFirst(j)
                                    /\ left[j] = {Current(j)}
<1>1. Current(j) \in left[j] /\ Current(j) \in Resolved(found[j]) /\ left[j] \subseteq Resolved(found[j])
      /\ Current(j) \in Epsg
  BY CurrentType DEF TypeInv, GroupInv
<1>2. \A r \in RowsOf(j, Current(j)) : r.job = j
  BY <1>1, RowsType DEF TypeInv
<1>3. RowsOf(j, Current(j)) \subseteq AllRows(j)
  BY <1>1 DEF AllRows
<1>4. ASSUME OneGroup(found[j])
      PROVE  AllRows(j) = RowsOf(j, Current(j)) /\ DeleteFirst(j) /\ left[j] = {Current(j)}
  <2>1. Resolved(found[j]) = {Current(j)} /\ left[j] = {Current(j)}
    BY <1>1, <1>4 DEF OneGroup
  <2> QED
    BY <2>1 DEF AllRows, DeleteFirst
<1> QED
  BY <1>2, <1>3, <1>4

\* What no step of another kind touches.
LEMMA RowFrame ==
    ASSUME RowInv,
           UNCHANGED <<found, left, rows, doomed>>,
           UNCHANGED crossed,
           \A j \in Job : scanner'[j] \in {"commit", "delete"} => scanner'[j] = scanner[j]
                                                                   \/ (scanner'[j] = "delete" /\ DeleteFirst(j)'),
           \A j \in Job : scanner'[j] \in {"off", "survey"} => scanner[j] \in {"off", "survey"}
    PROVE  RowInv'
<1> USE DEF RowInv
<1>1. \A j : AllRows(j)' = AllRows(j)
  BY DEF AllRows, RowsOf, Group
<1>2. WholeIn(rows)' /\ \A k \in Job : WholeIn(doomed[k])'
  BY <1>1 DEF WholeIn
<1>3. \A j \in Job : NotLoaded(j)'
  BY DEF NotLoaded
<1>4. \A j \in Job : LoadsAlone(j)'
  BY DEF LoadsAlone, DeleteFirst
<1>5. \A j \in Job : Loading(j)' => Loading(j)
  BY DEF Loading, DeleteFirst
<1>6. Apart'
  BY <1>5 DEF Apart
<1> QED
  BY <1>2, <1>3, <1>4, <1>6

LEMMA NextRows == TypeInv /\ JobInv /\ RowInv /\ [Next]_vars => RowInv'
<1> SUFFICES ASSUME TypeInv, JobInv, RowInv, [Next]_vars PROVE RowInv'
  OBVIOUS
<1>f. scanner \in [Job -> Live \union {"off", "failed", "exited"}] /\ left \in [Job -> SUBSET Epsg]
      /\ doomed \in [Job -> SUBSET Row] /\ found \in [Job -> SUBSET Cog] /\ rows \subseteq Row
  BY DEF TypeInv, TypeOK
<1> USE DEF jobs, scans, index, layers, delete, history
<1>1. ASSUME NEW j \in Job, StartScan(j) \/ StreamBreaks(j) \/ Collect(j) \/ Render(j) \/ Restart(j)
      PROVE  RowInv'
  BY <1>1, RowFrame DEF StartScan, StreamBreaks, Collect, Render, Restart
<1>2. ASSUME NEW j \in Job, Spawn(j) \/ ScanElsewhere(j) PROVE RowInv'
  <2>1. scanner[j] = "off"
    BY <1>2 DEF Spawn, ScanElsewhere, Unused, JobInv
  <2> QED
    BY <1>2, <1>f, <2>1, RowFrame DEF Spawn, ScanElsewhere
<1>3. ASSUME NEW j \in Job, Survey(j) PROVE RowInv'
  <2>1. /\ \A i \in Job \ {j} : found'[i] = found[i] /\ left'[i] = left[i] /\ scanner'[i] = scanner[i]
        /\ scanner'[j] \in {"failed", "write", "delete"} /\ UNCHANGED <<rows, doomed, crossed>>
        /\ scanner'[j] = "delete" => left'[j] = Resolved(found'[j])
        /\ scanner[j] = "survey"
    BY <1>3, <1>f DEF Survey, Prints, ScannerGoes, ScannerFails
  <2>2. (\A r \in rows : r.job # j) /\ \A k \in Job : \A r \in doomed[k] : r.job # j
    BY <1>3 DEF Survey, RowInv, NotLoaded
  <2>3. \A i \in Job \ {j} : AllRows(i)' = AllRows(i)
    BY <2>1 DEF AllRows, RowsOf, Group
  <2>4. \A r \in Row : r.job \in Job
    BY DEF Row
  <2>5. ASSUME NEW S \in SUBSET Row, \A r \in S : r.job # j, WholeIn(S)
        PROVE  \A r \in S : /\ r \in AllRows(r.job)'
                            /\ OneGroup(found'[r.job]) => AllRows(r.job)' \subseteq S
    <3> SUFFICES ASSUME NEW r \in S
                 PROVE  r \in AllRows(r.job)' /\ (OneGroup(found'[r.job]) => AllRows(r.job)' \subseteq S)
      OBVIOUS
    <3>1. r.job \in Job \ {j}
      BY <2>4, <2>5
    <3>2. AllRows(r.job)' = AllRows(r.job) /\ found'[r.job] = found[r.job]
      BY <2>1, <2>3, <3>1
    <3> QED
      BY <2>5, <3>2 DEF WholeIn
  <2>6. WholeIn(rows)'
    BY <1>f, <2>1, <2>2, <2>5 DEF RowInv, WholeIn
  <2>7. \A k \in Job : WholeIn(doomed[k])'
    BY <1>f, <2>1, <2>2, <2>5 DEF RowInv, WholeIn
  <2>8. \A i \in Job : NotLoaded(i)'
    BY <2>1 DEF RowInv, NotLoaded
  <2>9. \A i \in Job : LoadsAlone(i)'
    BY <2>1 DEF RowInv, LoadsAlone, DeleteFirst
  <2>10. \A i \in Job : Loading(i)' => Loading(i)
    BY <2>1 DEF Loading, DeleteFirst
  <2>11. Apart'
    BY <2>1, <2>10 DEF RowInv, Apart
  <2> QED
    BY <2>1, <2>6, <2>7, <2>8, <2>9, <2>11 DEF RowInv
<1>4. ASSUME NEW j \in Job, Write(j) \/ Unlink(j) \/ Truncate(j) \/ Upsert(j) \/ KillScanner(j)
      PROVE  RowInv'
  <2>1. /\ UNCHANGED <<found, left, rows, doomed, crossed>>
        /\ \A i \in Job \ {j} : scanner'[i] = scanner[i]
        /\ scanner'[j] \in {"unlink", "rename", "upsert", "exited", "failed"}
        /\ Scanning(j) /\ (scanner[j] = "survey" => scanner'[j] = "failed")
    BY <1>4, <1>f DEF Write, Unlink, Truncate, Upsert, KillScanner, Prints, ScannerGoes, ScannerFails,
                      Scanning, Live
  <2> QED
    BY <2>1, RowFrame
<1>5. ASSUME NEW j \in Job, Rename(j) \/ Wrote(j) PROVE RowInv'
  <2>1. /\ \A i \in Job \ {j} : left'[i] = left[i] /\ scanner'[i] = scanner[i]
        /\ scanner'[j] \in {"failed", "write", "wrote", "delete", "truncate"}
        /\ scanner'[j] = "delete" => left'[j] = Resolved(found[j])
        /\ scanner[j] \in Live \ {"survey"}
        /\ UNCHANGED <<rows, doomed, crossed, found>>
    BY <1>5, <1>f DEF Rename, Wrote, Prints, ScannerFails, ScannerGoes, Live
  <2>i. \A i : AllRows(i)' = AllRows(i)
    BY <2>1 DEF AllRows, RowsOf, Group
  <2>2. WholeIn(rows)' /\ \A k \in Job : WholeIn(doomed[k])'
    BY <2>1, <2>i DEF RowInv, WholeIn
  <2>3. \A i \in Job : NotLoaded(i)'
    BY <2>1 DEF RowInv, NotLoaded
  <2>4. \A i \in Job : LoadsAlone(i)'
    BY <2>1 DEF RowInv, LoadsAlone, DeleteFirst
  <2>5. \A i \in Job : Loading(i)' => Loading(i)
    BY <2>1 DEF Loading, DeleteFirst
  <2>6. Apart'
    BY <2>1, <2>5 DEF RowInv, Apart
  <2> QED
    BY <2>1, <2>2, <2>3, <2>4, <2>6 DEF RowInv
<1>6. ASSUME NEW j \in Job, BeginLoad(j) PROVE RowInv'
  <2>1. /\ \A i \in Job \ {j} : scanner'[i] = scanner[i] /\ doomed'[i] = doomed[i]
        /\ scanner'[j] \in {"failed", "commit"}
        /\ doomed'[j] \in {doomed[j], rows, {}}
        /\ scanner'[j] = "commit" => doomed'[j] = IF DeleteFirst(j) THEN rows ELSE {}
        /\ scanner[j] = "delete"
        /\ scanner'[j] = "commit" =>
              crossed' = IF Others(j) = {} THEN crossed ELSE crossed \union {j} \union Others(j)
        /\ crossed \subseteq crossed' /\ (scanner'[j] = "failed" => crossed' = crossed)
        /\ UNCHANGED <<rows, left, found>>
    BY <1>6, <1>f DEF BeginLoad, ScannerGoes, ScannerFails
  <2>2. \A S : WholeIn(S) => \A r \in S : /\ r \in AllRows(r.job)'
                                          /\ OneGroup(found'[r.job]) => AllRows(r.job)' \subseteq S
    BY <2>1 DEF WholeIn, AllRows, RowsOf, Group
  <2>3. WholeIn(rows)' /\ \A k \in Job : WholeIn(doomed[k])'
    BY <2>1, <2>2 DEF RowInv, WholeIn
  <2>4. \A i \in Job : NotLoaded(i)'
    BY <2>1 DEF RowInv, NotLoaded
  <2>5. \A i \in Job : LoadsAlone(i)'
    BY <2>1 DEF RowInv, LoadsAlone, DeleteFirst
  <2>6. \A i \in Job \ {j} : Loading(i)' <=> Loading(i)
    BY <2>1 DEF Loading, DeleteFirst
  <2>7. scanner'[j] = "failed" => ~Loading(j)'
    BY <2>1 DEF Loading
  <2>8. scanner'[j] = "commit" => \A i \in Job \ {j} : Loading(i) => i \in crossed' /\ j \in crossed'
    BY <2>1 DEF Others
  <2>9. Apart'
    BY <2>1, <2>6, <2>7, <2>8 DEF RowInv, Apart
  <2> QED
    BY <2>1, <2>3, <2>4, <2>5, <2>9 DEF RowInv
<1>7. ASSUME NEW j \in Job, Commit(j) PROVE RowInv'
  <2>1. /\ \A i \in Job \ {j} : scanner'[i] = scanner[i] /\ left'[i] = left[i]
        /\ scanner'[j] \in {"failed", "delete", "truncate", "exited"}
        /\ scanner[j] = "commit" /\ left[j] # {}
        /\ doomed' = [doomed EXCEPT ![j] = {}]
        /\ UNCHANGED <<crossed, found>>
    BY <1>7, <1>f DEF Commit, ScannerGoes, ScannerFails, Prints, TypeInv, GroupInv
  <2>i. \A i : AllRows(i)' = AllRows(i)
    BY <2>1 DEF AllRows, RowsOf, Group
  <2>d. \A k \in Job : doomed'[k] = doomed[k] \/ doomed'[k] = {}
    BY <1>f, <2>1
  <2>w. \A k \in Job : WholeIn(doomed[k])'
    BY <2>1, <2>i, <2>d DEF RowInv, WholeIn
  <2>o. \A i \in Job \ {j} : Loading(i)' <=> Loading(i)
    BY <2>1 DEF Loading, DeleteFirst
  <2>l. Loading(j)
    BY <2>1 DEF Loading
  <2>a. Apart'
    BY <2>1, <2>o, <2>l DEF RowInv, Apart
  <2>2. CASE UNCHANGED <<rows, left>> /\ scanner'[j] = "failed"
    <3>1. WholeIn(rows)'
      BY <2>1, <2>2, <2>i DEF RowInv, WholeIn
    <3>2. \A i \in Job : NotLoaded(i)'
      BY <2>1, <2>2, <2>d DEF RowInv, NotLoaded
    <3>3. \A i \in Job : LoadsAlone(i)'
      BY <1>f, <2>1, <2>2 DEF RowInv, LoadsAlone, DeleteFirst
    <3> QED
      BY <2>1, <2>2, <2>w, <2>a, <3>1, <3>2, <3>3 DEF RowInv
  <2>3. CASE rows' = (rows \ doomed[j]) \union RowsOf(j, Current(j))
    <3>1. /\ RowsOf(j, Current(j)) \subseteq AllRows(j)
          /\ \A r \in RowsOf(j, Current(j)) : r.job = j
          /\ OneGroup(found[j]) => AllRows(j) = RowsOf(j, Current(j))
      BY <2>1, OwnRows
    <3>3. WholeIn(rows)
      BY DEF RowInv
    <3>4. WholeIn(doomed[j])
      BY DEF RowInv
    <3>5. \A i \in Job : \A r \in AllRows(i) : r.job = i
      BY DEF AllRows, RowsOf
    <3>6. ASSUME NEW r \in rows'
          PROVE  r \in AllRows(r.job) /\ (OneGroup(found[r.job]) => AllRows(r.job) \subseteq rows')
      <4>1. CASE r \in RowsOf(j, Current(j))
        BY <2>3, <3>1, <4>1
      <4>2. CASE r \in rows \ doomed[j] /\ r.job # j
        <5>1. r \in AllRows(r.job) /\ r.job \in Job
          BY <1>f, <3>3, <4>2 DEF WholeIn, Row
        <5>2. ASSUME OneGroup(found[r.job]), NEW x \in AllRows(r.job)
              PROVE  x \in rows'
          <6>1. x \in rows /\ x.job = r.job
            BY <3>3, <3>5, <4>2, <5>1, <5>2 DEF WholeIn
          <6>2. x \notin doomed[j]
            BY <3>4, <4>2, <5>1, <5>2, <6>1 DEF WholeIn
          <6> QED
            BY <2>3, <6>1, <6>2
        <5> QED
          BY <5>1, <5>2
      <4>3. CASE r \in rows \ doomed[j] /\ r.job = j
        BY <2>3, <3>1, <3>3, <4>3 DEF WholeIn
      <4> QED
        BY <2>3, <4>1, <4>2, <4>3
    <3>7. WholeIn(rows)'
      BY <2>1, <2>i, <3>6 DEF WholeIn
    <3>9. \A i \in Job : NotLoaded(i)'
      BY <2>1, <2>3, <2>d, <3>1 DEF RowInv, NotLoaded
    <3>10. CASE j \in crossed
      <4>1. \A r \in rows' : r \in rows \/ r.job \in crossed
        BY <2>3, <3>1, <3>10
      <4>2. \A i \in Job : LoadsAlone(i)'
        BY <1>f, <2>1, <3>10, <4>1 DEF RowInv, LoadsAlone, DeleteFirst
      <4>3. \A r, s \in rows' : r.job \notin crossed' /\ s.job \notin crossed' => r.job = s.job
        BY <2>1, <4>1 DEF RowInv
      <4> QED
        BY <2>w, <2>a, <3>7, <3>9, <4>2, <4>3 DEF RowInv
    <3>11. CASE j \notin crossed
      <4>1. \A r \in rows' : r.job \in crossed \union {j}
        BY <2>1, <2>3, <3>1, <3>11 DEF RowInv, LoadsAlone
      <4>2. \A i \in Job \ {j} : ~Loading(i)
        BY <2>l, <3>11 DEF RowInv, Apart
      <4>3. \A i \in Job : LoadsAlone(i)'
        BY <2>1, <4>1, <4>2 DEF LoadsAlone, Loading, DeleteFirst
      <4>4. \A r, s \in rows' : r.job \notin crossed' /\ s.job \notin crossed' => r.job = s.job
        BY <2>1, <4>1
      <4> QED
        BY <2>w, <2>a, <3>7, <3>9, <4>3, <4>4 DEF RowInv
    <3> QED
      BY <3>10, <3>11
  <2> QED
    BY <1>7, <1>f, <2>2, <2>3 DEF Commit, ScannerGoes, ScannerFails
<1>8. CASE AdminRestart
  BY <1>8, RowFrame DEF AdminRestart
<1>9. CASE DeleteStart \/ DeleteCatalog \/ DeleteFiles \/ DeleteRender \/ DeleteRestart
  BY <1>9, RowFrame DEF DeleteStart, DeleteCatalog, DeleteFiles, DeleteRender, DeleteRestart
<1>10. CASE DeleteRows \/ DeleteElsewhere
  <2>1. rows' \in {rows, {}} /\ UNCHANGED <<scanner, crossed, found, left, doomed>>
    BY <1>10 DEF DeleteRows, DeleteElsewhere
  <2>2. CASE rows' = rows
    BY <2>1, <2>2, RowFrame
  <2>3. CASE rows' = {}
    <3>1. WholeIn(rows)' /\ \A k \in Job : WholeIn(doomed[k])'
      BY <2>1, <2>3 DEF RowInv, WholeIn, AllRows, RowsOf, Group
    <3>2. \A i \in Job : NotLoaded(i)' /\ LoadsAlone(i)'
      BY <2>1, <2>3 DEF RowInv, NotLoaded, LoadsAlone
    <3>3. Apart'
      BY <2>1 DEF RowInv, Apart, Loading, DeleteFirst
    <3> QED
      BY <2>3, <3>1, <3>2, <3>3 DEF RowInv
  <2> QED
    BY <2>1, <2>2, <2>3
<1>11. CASE UNCHANGED vars
  BY <1>11, RowFrame DEF vars
<1> QED
  BY <1>1, <1>2, <1>3, <1>4, <1>5, <1>6, <1>7, <1>8, <1>9, <1>10, <1>11
     DEF Next, ThreadStep, ScannerStep, DeleteStep

\* The rows of a scan with one source CRS are in cog_index all or none, and with
\* those of another scan only where loads have overlapped, for any number of
\* scans of this and other tasks and any interleaving of their transactions
\* with kills, restarts of the admin process and deletes (load_into_postgis).
THEOREM RowsWhole == Spec => []RowsAreWhole
<1>1. Spec => []RowInv
  BY InitRows, NextRows, TypesHold, JobsHold, PTL DEF Spec
<1> QED
  BY <1>1, RowInvWhole, PTL

-----------------------------------------------------------------------------
(* What a delete leaves *)

\* A delete that no scan overlaps is alone, and what it has removed stays away.
DeleteInv ==
    /\ Deleting => target # None
    /\ owner = Deletion =>
          /\ \A j \in Job : thread[j] = "off" /\ ~Scanning(j)
          /\ deleter \in {"truncate", "catalog", "files", "render", "restart", "done"} => rows = {}
          /\ deleter \in {"files", "render", "restart", "done"} => entry = None
          /\ deleter \in {"render", "restart", "done"} =>
                /\ "files" \notin ignored => \A g \in target.groups : fgb[g.path] = None
                /\ \A j \in Job : status[j] \in {"none", "lost"} \/ ~well[j] \/ j \in orphan
          /\ deleter \in {"restart", "done"} => mapfile = {}
          /\ deleter = "done" /\ "stop" \notin ignored => served = {}

LEMMA DeleteInvLeaves == DeleteInv => DeletedLeavesNothing
  BY DEF DeleteInv, DeletedLeavesNothing

LEMMA InitDelete == Init => DeleteInv
  BY ScanAssumption DEF Init, DeleteInv, Deleting, Deletion

LEMMA NextDelete == TypeInv /\ JobInv /\ DeleteInv /\ [Next]_vars => DeleteInv'
<1> SUFFICES ASSUME TypeInv, JobInv, DeleteInv, [Next]_vars PROVE DeleteInv'
  OBVIOUS
<1>d. 0 \notin Job /\ None # Deletion
  BY ScanAssumption DEF Job, Deletion
<1> USE DEF jobs, scans, index, layers, delete, history, Deleting
<1>1. ASSUME NEW j \in Job, StartScan(j) PROVE DeleteInv'
  BY <1>1, <1>d DEF StartScan, DeleteInv, Deletion
<1>e. CASE DeleteElsewhere
  BY <1>e, <1>d DEF DeleteElsewhere, DeleteInv, Scanning
<1>s. ASSUME NEW j \in Job, ScanElsewhere(j) PROVE DeleteInv'
  BY <1>s, <1>d DEF ScanElsewhere, DeleteInv
<1>2. ASSUME NEW j \in Job, ThreadStep(j) \/ StreamBreaks(j) PROVE DeleteInv'
  <2>1. thread[j] # "off"
    BY <1>2 DEF ThreadStep, Spawn, Collect, Render, Restart, StreamBreaks
  <2>2. UNCHANGED <<owner, deleter, target>>
    BY <1>2 DEF ThreadStep, Spawn, Collect, Render, Restart, StreamBreaks
  <2> QED
    BY <2>1, <2>2 DEF DeleteInv
<1>3. ASSUME NEW j \in Job, ScannerStep(j) \/ KillScanner(j) PROVE DeleteInv'
  <2>1. Scanning(j)
    BY <1>3, StepMoves DEF Moves
  <2>2. UNCHANGED <<owner, deleter, target>>
    BY <1>3 DEF ScannerStep, Survey, Write, Unlink, Rename, Wrote, BeginLoad, Commit, Truncate, Upsert,
                KillScanner
  <2> QED
    BY <2>1, <2>2 DEF DeleteInv
<1>4. CASE AdminRestart
  BY <1>4 DEF AdminRestart, DeleteInv, Scanning
<1>5. CASE DeleteStart
  BY <1>5, <1>d DEF DeleteStart, DeleteInv, Quiet, Scanning
<1>6. CASE DeleteRows \/ DeleteCatalog
  BY <1>6 DEF DeleteRows, DeleteCatalog, DeleteGoes, DeleteFails, DeleteEnds, DeleteInv, Scanning
<1>7. CASE DeleteFiles
  <2>1. target \in Entry /\ deleter' = "render"
    BY <1>7 DEF DeleteFiles, DeleteGoes, DeleteInv, TypeInv, TypeOK
  <2>2. \A g \in target.groups : g.path \in DOMAIN fgb /\ g.path \in Artifacts(target)
    BY <2>1 DEF Entry, Artifacts, TypeInv, TypeOK
  <2>3. "files" \notin ignored' => \A g \in target'.groups : fgb'[g.path] = None
    <3>1. PICK kept \in IF "files" \in FaultSteps THEN SUBSET Artifacts(target) ELSE {{}} :
             /\ fgb' = [p \in DOMAIN fgb |-> IF p \in Artifacts(target) \ kept THEN None ELSE fgb[p]]
             /\ ignored' = IF kept = {} THEN ignored ELSE ignored \union {"files"}
      BY <1>7 DEF DeleteFiles
    <3>2. target' = target
      BY <1>7 DEF DeleteFiles, DeleteGoes
    <3>3. "files" \notin ignored' => kept = {}
      BY <3>1
    <3> QED
      BY <2>2, <3>1, <3>2, <3>3
  <2>4. ASSUME owner = Deletion, NEW j \in Job
        PROVE  status'[j] \in {"none", "lost"} \/ ~well'[j] \/ j \in orphan'
    <3>1. status[j] = "running" => ~well[j] \/ j \in orphan
      BY <2>4 DEF DeleteInv, JobInv
    <3>2. status[j] \in {"none", "running", "failed", "complete", "lost"}
      BY DEF TypeInv, TypeOK
    <3>3. well' = well /\ orphan' = orphan
          /\ status'[j] = IF status[j] \in {"failed", "complete"} THEN "lost" ELSE status[j]
      BY <1>7 DEF DeleteFiles
    <3> QED
      BY <3>1, <3>2, <3>3
  <2> QED
    BY <1>7, <2>1, <2>3, <2>4 DEF DeleteFiles, DeleteGoes, DeleteInv, Scanning
<1>8. CASE DeleteRender
  <2>1. Layers(None) = {}
    BY DEF Layers
  <2> QED
    BY <1>8, <2>1 DEF DeleteRender, MakesMapfile, DeleteGoes, DeleteFails, DeleteEnds, DeleteInv, Scanning
<1>9. CASE DeleteRestart
  BY <1>9 DEF DeleteRestart, Restarts, StopIgnored, StartFails, DeleteGoes, DeleteFails, DeleteEnds,
             DeleteInv, Scanning
<1>10. CASE UNCHANGED vars
  BY <1>10 DEF vars, DeleteInv, Scanning
<1> QED
  BY <1>1, <1>2, <1>3, <1>4, <1>5, <1>6, <1>7, <1>8, <1>9, <1>10, <1>e, <1>s
     DEF Next, DeleteStep

\* An acknowledged delete that nothing overlapped leaves no row, entry or layer of
\* the collection, no record of a job but those whose thread died, no file that
\* the entry named unless an unlink was skipped, and no served layer unless a
\* failed stop was ignored, whatever requests that failed half-way before it
\* had left (delete_collection).
THEOREM NothingLeft == Spec => []DeletedLeavesNothing
<1>1. Spec => []DeleteInv
  BY InitDelete, NextDelete, TypesHold, JobsHold, PTL DEF Spec
<1> QED
  BY <1>1, DeleteInvLeaves, PTL

-----------------------------------------------------------------------------
(* What the workers draw *)

UniqueKeys(cogs) == \A c, d \in cogs : c.key = d.key => c = d

Unwritten(j) == IF scanner[j] \in {"write", "unlink", "rename"} THEN left[j] ELSE {}

\* How far the scan that owns the collection has come.
Progress(j) ==
    /\ j \notin foreign
    /\ \A i \in Job \ {j} : thread[i] = "off" /\ ~Scanning(i)
    /\ scanner[j] \in (Live \ {"survey"}) \union {"exited"} =>
          \A e \in Resolved(found[j]) \ Unwritten(j) : fgb[Path(found[j], e)] = File(j, e)
    /\ backend = "postgis" /\ OneGroup(found[j]) =>
          /\ scanner[j] = "commit" => doomed[j] = rows
          /\ scanner[j] \in {"truncate", "upsert", "exited"} => rows = AllRows(j)
    /\ scanner[j] = "exited" => \E on \in BOOLEAN : entry = EntryOf(j, on)
    /\ thread[j] = "restart" \/ status[j] = "complete" => mapfile = Layers(entry)
    /\ status[j] = "complete" /\ ignored = {} => served = mapfile

DrawInv ==
    /\ \A j \in Job : UniqueKeys(found[j])
    /\ \A j \in Job : owner = j => ~Deleting /\ Progress(j)

LEMMA InitDraw == Init => DrawInv
  BY ScanAssumption DEF Init, DrawInv, UniqueKeys, Job

\* Two groups never share a file.
LEMMA PathsDiffer ==
    ASSUME NEW cogs, NEW e \in Resolved(cogs), NEW f \in Resolved(cogs), e # f
    PROVE  Path(cogs, e) # Path(cogs, f)
<1>1. ~OneGroup(cogs)
  BY DEF OneGroup
<1> QED
  BY <1>1 DEF Path

\* Of the COGs as labelled, too, no two have the same key, and each is in a group.
LEMMA LabelKeys ==
    ASSUME NEW cogs \in SUBSET Cog, UniqueKeys(cogs)
    PROVE  \A c, d \in Label(cogs) : c.key = d.key => c.epsg = d.epsg
<1> SUFFICES ASSUME NEW c \in Label(cogs), NEW d \in Label(cogs), c.key = d.key
             PROVE  c.epsg = d.epsg
  OBVIOUS
<1>1. PICK x \in cogs : c.key = x.key /\ (c.epsg = x.epsg \/ (OneGroup(cogs) /\ {c.epsg} = Resolved(cogs)))
  BY LabelType
<1>2. PICK y \in cogs : d.key = y.key /\ (d.epsg = y.epsg \/ (OneGroup(cogs) /\ {d.epsg} = Resolved(cogs)))
  BY LabelType
<1>3. x = y
  BY <1>1, <1>2 DEF UniqueKeys
<1>4. CASE OneGroup(cogs)
  <2>1. \A z \in Label(cogs) : z.epsg = CHOOSE e \in Epsg : Resolved(cogs) = {e}
    <3> DEFINE e == CHOOSE e \in Epsg : Resolved(cogs) = {e}
    <3>1. Label(cogs) = {[z EXCEPT !.epsg = e] : z \in cogs}
      BY <1>4 DEF Label
    <3> HIDE DEF e
    <3>2. \A z \in cogs : [z EXCEPT !.epsg = e].epsg = e
      BY DEF Cog
    <3>3. \A z \in Label(cogs) : z.epsg = e
      BY <3>1, <3>2
    <3> QED
      BY <3>3 DEF e
  <2> QED
    BY <2>1
<1>5. CASE ~OneGroup(cogs)
  BY <1>1, <1>2, <1>3, <1>5
<1> QED
  BY <1>4, <1>5

LEMMA LabelGroup ==
    ASSUME NEW j \in Job, found[j] \in SUBSET Cog, Labelled(j)
    PROVE  \A c \in Label(found[j]) : c.epsg \in Resolved(found[j]) /\ c \in Group(found[j], c.epsg)
<1> SUFFICES ASSUME NEW c \in Label(found[j])
             PROVE  c.epsg \in Resolved(found[j])
  BY DEF Group
<1>1. PICK x \in found[j] : c.epsg = x.epsg \/ (OneGroup(found[j]) /\ {c.epsg} = Resolved(found[j]))
  BY LabelType
<1>2. CASE c.epsg = x.epsg /\ x.epsg # None
  BY <1>2 DEF Resolved
<1>3. CASE OneGroup(found[j])
  <2> DEFINE e == CHOOSE e \in Epsg : Resolved(found[j]) = {e}
  <2>1. Label(found[j]) = {[z EXCEPT !.epsg = e] : z \in found[j]} /\ Resolved(found[j]) = {e}
    BY <1>3, OneCode DEF Label
  <2> HIDE DEF e
  <2>2. \A z \in found[j] : [z EXCEPT !.epsg = e].epsg = e
    BY DEF Cog
  <2> QED
    BY <2>1, <2>2
<1> QED
  BY <1>1, <1>2, <1>3 DEF Labelled

\* Each COG is drawn by the layer of its group and by no other.
LEMMA InvDraws == TypeInv /\ JobInv /\ DrawInv => CompleteIsDrawn
<1> SUFFICES ASSUME TypeInv, JobInv, DrawInv, NEW j \in Job, Settled(j), Labelled(j),
                    backend = "postgis" => OneGroup(found[j]) /\ Finite(j)
             PROVE  /\ entry \in Entry /\ entry.job = j
                    /\ IF entry.enabled THEN Draws(j) ELSE served = {}
  BY DEF CompleteIsDrawn
<1> DEFINE F == found[j]
           pg == backend = "postgis"
           L(e) == [epsg |-> e, path |-> Path(F, e), postgis |-> pg]
<1>1. /\ scanner[j] = "exited" /\ served = Layers(entry) /\ Progress(j)
      /\ F \in SUBSET Cog /\ UniqueKeys(F)
  BY DEF Settled, JobInv, DrawInv, Progress, TypeInv, TypeOK
<1>2. Resolved(F) \subseteq Epsg
  BY <1>1, ResolvedType
<1>o. PICK on \in BOOLEAN : entry = EntryOf(j, on)
  BY <1>1 DEF Progress
<1>e. EntryOf(j, on) \in Entry /\ EntryOf(j, on).job = j /\ EntryOf(j, on).enabled = on
  BY EntryType DEF TypeInv, EntryOf
<1>3. EntryOf(j, on) # None
  BY <1>e, NoneAssumption
<1>d. CASE ~on
  BY <1>1, <1>o, <1>e, <1>d DEF Layers
<1>r. SUFFICES ASSUME on PROVE Draws(j)
  BY <1>o, <1>e, <1>d
<1>4. served = {L(e) : e \in Resolved(F)}
  <2>a. EntryOf(j, on).enabled
    BY <1>e, <1>r
  <2>1. EntryOf(j, on).postgis = pg
        /\ EntryOf(j, on).groups = {[epsg |-> e, path |-> Path(F, e)] : e \in Resolved(F)}
    BY DEF EntryOf
  <2>2. served = {[epsg |-> g.epsg, path |-> g.path, postgis |-> pg] : g \in EntryOf(j, on).groups}
    BY <1>1, <1>o, <1>3, <2>a, <2>1 DEF Layers
  <2>3. \A e \in Resolved(F) : [epsg |-> e, path |-> Path(F, e)].epsg = e
                               /\ [epsg |-> e, path |-> Path(F, e)].path = Path(F, e)
    OBVIOUS
  <2>4. \A l \in served : l \in {L(e) : e \in Resolved(F)}
    BY <2>1, <2>2
  <2>5. ASSUME NEW e \in Resolved(F)
        PROVE  L(e) \in served
    <3> DEFINE g == [epsg |-> e, path |-> Path(F, e)]
    <3>1. g \in EntryOf(j, on).groups
      BY <2>1
    <3>2. g.epsg = e /\ g.path = Path(F, e)
      OBVIOUS
    <3> HIDE DEF g
    <3>3. [epsg |-> g.epsg, path |-> g.path, postgis |-> pg] \in served
      BY <2>2, <3>1
    <3> QED
      BY <3>2, <3>3
  <2> QED
    BY <2>4, <2>5
<1>5. \A c \in Label(F) : c.epsg \in Resolved(F) /\ c \in Group(F, c.epsg)
  BY <1>1, LabelGroup
<1>6. \A c, d \in Label(F) : c.key = d.key => c.epsg = d.epsg
  BY <1>1, LabelKeys
<1>7. \A e \in Resolved(F) : L(e).epsg = e /\ L(e).path = Path(F, e) /\ L(e).postgis = pg
  OBVIOUS
\* What a layer selects are the COGs of its group.
<1>8. ASSUME NEW e \in Resolved(F)
      PROVE  /\ \A c \in Group(F, e) : \E s \in Selected(L(e)) : s.key = c.key
             /\ \A s \in Selected(L(e)) : \E c \in Group(F, e) : s.key = c.key
  <2>1. CASE ~pg
    <3>1. fgb[Path(F, e)] = File(j, e)
      BY <1>1 DEF Progress, Unwritten
    <3>2. File(j, e) # None
      BY <1>2, NoneAssumption, FileType DEF TypeInv
    <3>3. File(j, e).keys = {c.key : c \in Group(F, e)}
      BY DEF File
    <3> DEFINE f == File(j, e)
    <3>x. ~L(e).postgis /\ fgb[L(e).path] = f /\ f # None
      BY <2>1, <3>1, <3>2, <1>7
    <3> HIDE DEF L, f
    <3>4. Selected(L(e)) = {[job |-> f.job, key |-> k, epsg |-> f.epsg] : k \in f.keys}
      BY <3>x DEF Selected
    <3>y. \A k \in f.keys : /\ [job |-> f.job, key |-> k, epsg |-> f.epsg] \in Selected(L(e))
                            /\ [job |-> f.job, key |-> k, epsg |-> f.epsg].key = k
      BY <3>4
    <3>5. \A s \in Selected(L(e)) : s.key \in f.keys
      BY <3>4
    <3>6. \A k \in f.keys : \E s \in Selected(L(e)) : s.key = k
      BY <3>y
    <3>7. f.keys = {c.key : c \in Group(F, e)}
      BY <3>3 DEF f
    <3> QED
      BY <3>5, <3>6, <3>7
  <2>2. CASE pg
    <3>1. OneGroup(F) /\ Finite(j) /\ rows = AllRows(j)
      BY <1>1, <2>2 DEF Progress
    <3>2. Resolved(F) = {e}
      BY <3>1 DEF OneGroup
    <3>3. rows = RowsOf(j, e)
      BY <3>1, <3>2 DEF AllRows
    <3>4. \A c \in Group(F, e) : c.finite
      BY <1>1, <3>1, LabelType DEF Group, Finite
    <3>5. rows = {[job |-> j, key |-> c.key, epsg |-> e] : c \in Group(F, e)}
      BY <3>3, <3>4 DEF RowsOf
    <3>6. Selected(L(e)) = {[job |-> r.job, key |-> r.key, epsg |-> r.epsg] : r \in rows}
      BY <2>2, <1>7 DEF Selected
    <3>7. \A s \in Selected(L(e)) : \E r \in rows : s.key = r.key
      BY <3>6
    <3>x. \A r \in rows : /\ [job |-> r.job, key |-> r.key, epsg |-> r.epsg] \in Selected(L(e))
                          /\ [job |-> r.job, key |-> r.key, epsg |-> r.epsg].key = r.key
      BY <3>6
    <3>8. \A r \in rows : \E s \in Selected(L(e)) : s.key = r.key
      BY <3>x
    <3>9. \A r \in rows : \E c \in Group(F, e) : r.key = c.key
      BY <3>5
    <3>y. \A c \in Group(F, e) : /\ [job |-> j, key |-> c.key, epsg |-> e] \in rows
                                 /\ [job |-> j, key |-> c.key, epsg |-> e].key = c.key
      BY <3>5
    <3>10. \A c \in Group(F, e) : \E r \in rows : r.key = c.key
      BY <3>y
    <3> HIDE DEF L
    <3> QED
      BY <3>7, <3>8, <3>9, <3>10
  <2> QED
    BY <2>1, <2>2
<1>9. ASSUME NEW c \in Label(F)
      PROVE  \E l \in served : \A m \in served : (\E s \in Selected(m) : s.key = c.key) <=> m = l
  <2> HIDE DEF L
  <2>1. L(c.epsg) \in served
    BY <1>4, <1>5
  <2>2. \E s \in Selected(L(c.epsg)) : s.key = c.key
    BY <1>5, <1>8
  <2>3. ASSUME NEW e \in Resolved(F), NEW s \in Selected(L(e)), s.key = c.key
        PROVE  e = c.epsg
    <3>1. PICK d \in Group(F, e) : s.key = d.key
      BY <1>8, <2>3
    <3> QED
      BY <1>6, <2>3, <3>1 DEF Group
  <2>4. \A m \in served : (\E s \in Selected(m) : s.key = c.key) <=> m = L(c.epsg)
    BY <1>4, <2>2, <2>3
  <2> QED
    BY <2>1, <2>4
<1>10. ASSUME NEW l \in served, NEW s \in Selected(l)
       PROVE  [key |-> s.key, epsg |-> l.epsg] \in {[key |-> c.key, epsg |-> c.epsg] : c \in Label(F)}
  <2>1. PICK e \in Resolved(F) : l = L(e)
    BY <1>4
  <2>2. PICK c \in Group(F, e) : s.key = c.key
    BY <1>8, <1>10, <2>1
  <2>3. l.epsg = e /\ c.epsg = e /\ c \in Label(F)
    BY <2>1, <2>2 DEF Group
  <2> QED
    BY <2>2, <2>3
<1> QED
  BY <1>9, <1>10 DEF Draws

\* A step of the collection's owner, with nobody else at work.
LEMMA NextProgress ==
    ASSUME TypeInv, JobInv, NEW j \in Job, UniqueKeys(found[j]), Progress(j),
           ThreadStep(j) \/ ScannerStep(j)
    PROVE  Progress(j)'
<1>f. /\ scanner \in [Job -> Live \union {"off", "failed", "exited"}] /\ left \in [Job -> SUBSET Epsg]
      /\ doomed \in [Job -> SUBSET Row] /\ found \in [Job -> SUBSET Cog] /\ rows \subseteq Row
      /\ fgb \in [Epsg \union {Base} -> IndexFile \union {None}]
      /\ thread \in [Job -> {"off", "spawn", "stream", "render", "restart"}]
      /\ status \in [Job -> {"none", "running", "failed", "complete", "lost"}]
  BY DEF TypeInv, TypeOK
<1>j. /\ thread[j] # "off" => status[j] = "running"
      /\ thread[j] = "spawn" => scanner[j] = "off"
      /\ thread[j] \in {"render", "restart"} => scanner[j] = "exited"
      /\ status[j] = "complete" => scanner[j] = "exited"
  BY DEF JobInv
<1> USE DEF jobs, scans, index, layers, delete, history
<1>1. CASE Spawn(j)
  BY <1>1, <1>f, <1>j DEF Spawn, ThreadGoes, JobFails, JobEndsAs, Progress, Scanning, Live
<1>2. CASE Collect(j)
  <2>1. /\ \A i \in Job \ {j} : thread'[i] = thread[i]
        /\ thread'[j] \in {"off", "render"} /\ status'[j] # "complete"
        /\ UNCHANGED <<backend, scanner, foreign, found, left, doomed, rows, fgb, entry>>
    BY <1>2, <1>f, <1>j DEF Collect, ThreadGoes, JobEndsAs
  <2> QED
    BY <2>1 DEF Progress, Scanning, Unwritten, File, AllRows, RowsOf, Group, EntryOf
<1>3. CASE Render(j)
  <2>1. /\ \A i \in Job \ {j} : thread'[i] = thread[i]
        /\ thread'[j] = "restart" => mapfile' = Layers(entry)
        /\ status'[j] # "complete"
        /\ UNCHANGED <<backend, scanner, foreign, found, left, doomed, rows, fgb, entry>>
    BY <1>3, <1>f, <1>j DEF Render, MakesMapfile, ThreadGoes, JobFails, JobEndsAs
  <2> QED
    BY <2>1 DEF Progress, Scanning, Unwritten, File, AllRows, RowsOf, Group, EntryOf, Layers
<1>4. CASE Restart(j)
  <2>1. /\ \A i \in Job \ {j} : thread'[i] = thread[i]
        /\ thread'[j] = "off" /\ mapfile = Layers(entry)
        /\ status'[j] = "complete" /\ ignored' = {} => served' = mapfile
        /\ UNCHANGED <<backend, scanner, foreign, found, left, doomed, rows, fgb, entry, mapfile>>
    BY <1>4, <1>f, <1>j DEF Restart, Restarts, StopIgnored, StartFails, JobFails, JobEndsAs, Progress
  <2> QED
    BY <2>1 DEF Progress, Scanning, Unwritten, File, AllRows, RowsOf, Group, EntryOf, Layers
<1>5. ASSUME Scanning(j), UNCHANGED <<backend, jobs, foreign, layers>>,
             \A i \in Job \ {j} : scanner'[i] = scanner[i]
      PROVE  /\ j \notin foreign'
             /\ \A i \in Job \ {j} : thread'[i] = "off" /\ ~Scanning(i)'
             /\ thread'[j] # "restart" /\ status'[j] # "complete"
  BY <1>5, <1>j DEF Progress, Scanning, Live
<1>6. CASE Survey(j)
  <2>1. /\ \A i \in Job \ {j} : scanner'[i] = scanner[i]
        /\ scanner'[j] = "failed" \/ (scanner'[j] = "write" /\ left'[j] = Resolved(found'[j]))
        /\ UNCHANGED <<backend, jobs, foreign, layers>> /\ Scanning(j)
    BY <1>6, <1>f DEF Survey, Prints, ScannerGoes, ScannerFails, Scanning, Live, Progress
  <2> QED
    BY <1>5, <2>1 DEF Progress, Unwritten, Live
<1>w. CASE Write(j)
  <2>1. /\ \A i \in Job \ {j} : scanner'[i] = scanner[i]
        /\ scanner[j] = "write" /\ scanner'[j] \in {"failed", "unlink"}
        /\ UNCHANGED <<backend, jobs, foreign, layers, found, left, fgb>> /\ Scanning(j)
    BY <1>w, <1>f DEF Write, ScannerGoes, Scanning, Live
  <2>2. \A e : File(j, e)' = File(j, e)
    BY <2>1 DEF File, Group
  <2> QED
    BY <1>5, <2>1, <2>2 DEF Progress, Unwritten, Live
<1>7. CASE Unlink(j)
  <2>1. /\ \A i \in Job \ {j} : scanner'[i] = scanner[i]
        /\ scanner'[j] = "failed" \/ (scanner'[j] = "rename"
                                       /\ fgb' = [fgb EXCEPT ![Path(found[j], Current(j))] = None])
        /\ UNCHANGED <<backend, jobs, foreign, layers, found, left>> /\ Scanning(j)
        /\ scanner[j] = "unlink"
    BY <1>7, <1>f DEF Unlink, CurrentPath, ScannerGoes, ScannerFails, Scanning, Live
  <2>2. Current(j) \in left[j] /\ Current(j) \in Resolved(found[j])
    BY <2>1, CurrentType DEF TypeInv, GroupInv
  <2>3. ASSUME scanner'[j] = "rename", NEW e \in Resolved(found[j]) \ left[j]
        PROVE  fgb'[Path(found[j], e)] = File(j, e)'
    <3>1. Path(found[j], e) # Path(found[j], Current(j))
      BY <2>2, <2>3, PathsDiffer
    <3>2. fgb[Path(found[j], e)] = File(j, e)
      BY <2>1, <2>3 DEF Progress, Unwritten, Live
    <3>3. File(j, e)' = File(j, e)
      BY <2>1 DEF File, Group
    <3>4. scanner'[j] # "failed"
      BY <2>3
    <3>5. Path(found[j], e) \in Epsg \union {Base}
      BY <1>f, <2>3, PathType, ResolvedType
    <3> QED
      BY <1>f, <2>1, <3>1, <3>2, <3>3, <3>4, <3>5
  <2> QED
    BY <1>5, <2>1, <2>3 DEF Progress, Unwritten, Live
<1>8. CASE Rename(j)
  <2>1. /\ \A i \in Job \ {j} : scanner'[i] = scanner[i]
        /\ \/ scanner'[j] = "failed"
           \/ /\ scanner'[j] = IF left[j] = {Current(j)} THEN "wrote" ELSE "write"
              /\ left'[j] = left[j] \ {Current(j)}
        /\ fgb' = [fgb EXCEPT ![Path(found[j], Current(j))] = File(j, Current(j))]
        /\ UNCHANGED <<backend, jobs, foreign, layers, found>> /\ Scanning(j)
        /\ scanner[j] = "rename"
    BY <1>8, <1>f DEF Rename, CurrentPath, ScannerGoes, ScannerFails, Scanning, Live
  <2>2. Current(j) \in left[j] /\ Current(j) \in Resolved(found[j]) /\ Current(j) \in Epsg
    BY <2>1, CurrentType DEF TypeInv, GroupInv
  <2>3. scanner'[j] # "failed" => \A e \in Resolved(found[j]) \ Unwritten(j)' : e = Current(j) \/ e \notin left[j]
    BY <2>1, <2>2 DEF Unwritten
  <2>4. ASSUME NEW e \in Resolved(found[j]), e = Current(j) \/ e \notin left[j]
        PROVE  fgb'[Path(found[j], e)] = File(j, e)'
    <3>1. File(j, e)' = File(j, e)
      BY <2>1 DEF File, Group
    <3>2. CASE e = Current(j)
      <4>1. Path(found[j], e) \in Epsg \union {Base}
        BY <1>f, <2>2, <3>2, PathType
      <4> QED
        BY <1>f, <2>1, <3>1, <3>2, <4>1
    <3>3. CASE e \notin left[j]
      <4>1. Path(found[j], e) # Path(found[j], Current(j))
        BY <2>2, <2>4, <3>3, PathsDiffer
      <4>2. fgb[Path(found[j], e)] = File(j, e)
        BY <2>1, <2>4, <3>3 DEF Progress, Unwritten, Live
      <4> QED
        BY <1>f, <2>1, <3>1, <4>1, <4>2
    <3> QED
      BY <2>4, <3>2, <3>3
  <2>5. scanner'[j] # "failed" => \A e \in Resolved(found'[j]) \ Unwritten(j)' : fgb'[Path(found'[j], e)] = File(j, e)'
    BY <2>1, <2>3, <2>4
  <2> QED
    BY <1>5, <2>1, <2>5 DEF Progress, Live
<1>9. CASE Wrote(j) \/ BeginLoad(j)
  <2>1. /\ \A i \in Job \ {j} : scanner'[i] = scanner[i]
        /\ \/ scanner'[j] = "failed"
           \/ scanner[j] = "wrote" /\ scanner'[j] = "delete"
           \/ scanner[j] = "wrote" /\ scanner'[j] = "truncate" /\ backend # "postgis"
           \/ scanner[j] = "delete" /\ scanner'[j] = "commit"
              /\ doomed'[j] = IF DeleteFirst(j) THEN rows ELSE {}
        /\ UNCHANGED <<backend, jobs, foreign, layers, found, fgb, rows>> /\ Scanning(j)
    BY <1>9, <1>f DEF Wrote, BeginLoad, ScannerGoes, ScannerFails, Prints, Scanning, Live
  <2>2. scanner[j] = "delete" /\ OneGroup(found[j]) => DeleteFirst(j)
    BY OwnRows DEF TypeInv, GroupInv
  <2>3. \A e : File(j, e)' = File(j, e)
    BY <2>1 DEF File, Group
  <2>4. scanner'[j] # "failed" =>
           \A e \in Resolved(found'[j]) : fgb'[Path(found'[j], e)] = File(j, e)'
    BY <2>1, <2>3 DEF Progress, Unwritten, Live
  <2> QED
    BY <1>5, <2>1, <2>2, <2>4 DEF Progress, Live
<1>10. CASE Commit(j)
  <2>1. /\ \A i \in Job \ {j} : scanner'[i] = scanner[i]
        /\ \/ scanner'[j] = "failed"
           \/ scanner'[j] = "delete" /\ left[j] # {Current(j)}
           \/ scanner'[j] = "truncate" /\ rows' = (rows \ doomed[j]) \union RowsOf(j, Current(j))
        /\ UNCHANGED <<backend, jobs, foreign, layers, found, fgb>> /\ Scanning(j)
        /\ scanner[j] = "commit" /\ left[j] # {}
    BY <1>10, <1>f DEF Commit, ScannerGoes, ScannerFails, Prints, Scanning, Live, TypeInv, GroupInv, Progress
  <2>2. \A e : File(j, e)' = File(j, e)
    BY <2>1 DEF File, Group
  <2>3. \A e \in Resolved(found'[j]) : fgb'[Path(found'[j], e)] = File(j, e)'
    BY <2>1, <2>2 DEF Progress, Unwritten, Live
  <2>4. AllRows(j)' = AllRows(j)
    BY <2>1 DEF AllRows, RowsOf, Group
  <2>5. backend = "postgis" /\ OneGroup(found[j]) /\ scanner'[j] = "truncate" => rows' = AllRows(j)
    BY <2>1, OwnRows DEF Progress
  <2> QED
    BY <1>5, <2>1, <2>3, <2>4, <2>5 DEF Progress
<1>11. CASE Truncate(j) \/ Upsert(j)
  <2>1. /\ \A i \in Job \ {j} : scanner'[i] = scanner[i]
        /\ scanner[j] \in {"truncate", "upsert"}
        /\ \/ scanner'[j] \in {"failed", "upsert"}
           \/ scanner'[j] = "exited" /\ \E on \in BOOLEAN : entry' = EntryOf(j, on)
        /\ UNCHANGED <<backend, jobs, foreign, layers, found, fgb, rows>> /\ Scanning(j)
    BY <1>11, <1>f DEF Truncate, Upsert, ScannerGoes, ScannerFails, Prints, Scanning, Live
  <2>2. \A e : File(j, e)' = File(j, e)
    BY <2>1 DEF File, Group
  <2>3. scanner'[j] # "failed" =>
           \A e \in Resolved(found'[j]) : fgb'[Path(found'[j], e)] = File(j, e)'
    BY <2>1, <2>2 DEF Progress, Unwritten, Live
  <2>4. AllRows(j)' = AllRows(j)
    BY <2>1 DEF AllRows, RowsOf, Group
  <2>5. \A on \in BOOLEAN : EntryOf(j, on)' = EntryOf(j, on)
    BY <2>1 DEF EntryOf
  <2>6. scanner'[j] = "exited" => \E on \in BOOLEAN : entry' = EntryOf(j, on)'
    BY <2>1, <2>5
  <2>7. backend = "postgis" /\ OneGroup(found[j]) /\ scanner'[j] # "failed" => rows' = AllRows(j)
    BY <2>1 DEF Progress
  <2> QED
    BY <1>5, <2>1, <2>3, <2>4, <2>6, <2>7 DEF Progress, Live
<1> QED
  BY <1>1, <1>2, <1>3, <1>4, <1>6, <1>w, <1>7, <1>8, <1>9, <1>10, <1>11 DEF ThreadStep, ScannerStep

LEMMA NextDraw == TypeInv /\ JobInv /\ DrawInv /\ [Next]_vars => DrawInv'
<1> SUFFICES ASSUME TypeInv, JobInv, DrawInv, [Next]_vars PROVE DrawInv'
  OBVIOUS
<1>d. Deletion \notin Job /\ None \notin Job
  BY ScanAssumption DEF Job, Deletion
<1>f. /\ scanner \in [Job -> Live \union {"off", "failed", "exited"}]
      /\ found \in [Job -> SUBSET Cog]
      /\ thread \in [Job -> {"off", "spawn", "stream", "render", "restart"}]
      /\ status \in [Job -> {"none", "running", "failed", "complete", "lost"}]
  BY DEF TypeInv, TypeOK
<1> USE DEF jobs, scans, index, layers, delete, history
<1>1. ASSUME NEW j \in Job, StartScan(j) PROVE DrawInv'
  <2>1. scanner[j] = "off" /\ UNCHANGED found
    BY <1>1 DEF StartScan, Startable, Unused, JobInv
  <2>2. ASSUME NEW i \in Job, owner' = i
        PROVE  ~Deleting' /\ Progress(i)'
    <3>1. i = j /\ Quiet
      BY <1>1, <1>d, <2>2 DEF StartScan
    <3>2. /\ j \notin foreign'
          /\ \A k \in Job \ {j} : thread'[k] = "off" /\ ~Scanning(k)'
          /\ thread'[j] = "spawn" /\ status'[j] = "running" /\ scanner'[j] = "off" /\ ~Deleting'
      BY <1>1, <1>f, <2>1, <3>1 DEF StartScan, Startable, Unused, JobInv, Quiet, Scanning, Deleting
    <3> QED
      BY <3>1, <3>2 DEF Progress, Live
  <2> QED
    BY <2>1, <2>2 DEF DrawInv, UniqueKeys
<1>2. ASSUME NEW j \in Job, ThreadStep(j) \/ ScannerStep(j) PROVE DrawInv'
  <2>1. thread[j] # "off" \/ Scanning(j)
    BY <1>2, StepMoves DEF Moves, ThreadStep, Spawn, Collect, Render, Restart
  <2>2. UNCHANGED <<owner, deleter>>
    BY <1>2 DEF ThreadStep, Spawn, Collect, Render, Restart, ScannerStep,
                Survey, Write, Unlink, Rename, Wrote, BeginLoad, Commit, Truncate, Upsert
  <2>3. \A i \in Job : owner = i => i = j
    BY <2>1 DEF DrawInv, Progress
  <2>4. \A i \in Job : UniqueKeys(found[i])'
    <3>1. CASE Survey(j)
      <4>1. \A i \in Job : found'[i] = found[i] \/ found'[i] \in Contents
        BY <3>1, <1>f DEF Survey
      <4>2. \A cogs \in Contents : UniqueKeys(cogs)
        BY ScanAssumption DEF UniqueKeys
      <4> QED
        BY <4>1, <4>2 DEF DrawInv, UniqueKeys
    <3>2. CASE ~Survey(j)
      <4>1. UNCHANGED found
        BY <1>2, <3>2 DEF ThreadStep, Spawn, Collect, Render, Restart, ScannerStep,
                          Write, Unlink, Rename, Wrote, BeginLoad, Commit, Truncate, Upsert
      <4> QED
        BY <4>1 DEF DrawInv, UniqueKeys
    <3> QED
      BY <3>1, <3>2
  <2>5. owner = j => Progress(j)'
    BY <1>2, NextProgress DEF DrawInv
  <2> QED
    BY <2>2, <2>3, <2>4, <2>5 DEF DrawInv, Deleting
<1>3. ASSUME NEW j \in Job, KillScanner(j) PROVE DrawInv'
  <2>1. /\ \A i \in Job \ {j} : scanner'[i] = scanner[i]
        /\ Scanning(j) /\ scanner'[j] = "failed"
        /\ UNCHANGED <<backend, status, thread, foreign, found, deleter, owner, ignored, layers>>
    BY <1>3, <1>f DEF KillScanner, ScannerGoes
  <2>2. status[j] # "complete" /\ thread[j] # "restart"
    BY <2>1 DEF JobInv, Scanning, Live
  <2>3. \A i \in Job : owner = i => i = j
    BY <2>1 DEF DrawInv, Progress
  <2>4. owner = j => Progress(j)'
    BY <2>1, <2>2 DEF DrawInv, Progress, Scanning, Live
  <2> QED
    BY <2>1, <2>3, <2>4 DEF DrawInv, UniqueKeys, Deleting
<1>4. CASE AdminRestart
  <2>1. /\ \A i \in Job : thread'[i] = "off" /\ status'[i] # "complete"
        /\ deleter' = "idle"
        /\ UNCHANGED <<backend, scanner, foreign, found, left, doomed, rows, fgb, entry, owner>>
    BY <1>4, <1>f DEF AdminRestart
  <2> QED
    BY <2>1 DEF DrawInv, Progress, UniqueKeys, Deleting, Scanning, Unwritten, File, AllRows, RowsOf,
                Group, EntryOf
<1>s. ASSUME NEW j \in Job, StreamBreaks(j) PROVE DrawInv'
  <2>1. /\ \A i \in Job \ {j} : thread'[i] = thread[i]
        /\ thread[j] = "stream" /\ thread'[j] = "off"
        /\ UNCHANGED <<backend, status, scanner, foreign, found, left, doomed, rows, fgb, entry, layers,
                       deleter, owner, ignored>>
    BY <1>s, <1>f DEF StreamBreaks, ThreadGoes
  <2> QED
    BY <2>1 DEF DrawInv, Progress, UniqueKeys, Deleting, Scanning, Unwritten, File, AllRows, RowsOf,
                Group, EntryOf, Layers
<1>5. ASSUME DeleteStart \/ DeleteElsewhere \/ \E j \in Job : ScanElsewhere(j)
      PROVE  DrawInv'
  <2>1. owner' \notin Job /\ UNCHANGED found
    BY <1>5, <1>d DEF DeleteStart, DeleteElsewhere, ScanElsewhere
  <2> QED
    BY <2>1 DEF DrawInv, UniqueKeys
<1>6. CASE DeleteRows \/ DeleteCatalog \/ DeleteFiles \/ DeleteRender \/ DeleteRestart
  <2>1. Deleting /\ UNCHANGED <<found, owner>>
    BY <1>6 DEF DeleteRows, DeleteCatalog, DeleteFiles, DeleteRender, DeleteRestart, Deleting
  <2> QED
    BY <2>1 DEF DrawInv, UniqueKeys
<1>7. CASE UNCHANGED vars
  BY <1>7 DEF vars, DrawInv, Progress, UniqueKeys, Deleting, Scanning, Unwritten, File, AllRows,
              RowsOf, Group, EntryOf, Layers
<1> QED
  BY <1>1, <1>2, <1>3, <1>4, <1>s, <1>5, <1>6, <1>7 DEF Next, DeleteStep

\* A complete job that no other scan or delete overlapped and for which the
\* workers stopped draws each COG it found once and in its own coordinate system,
\* or nothing when it is disabled, whatever earlier scans, killed scanners and
\* deletes have left behind; the listings that CompleteIsDrawn excludes aside
\* (_run_scan, the scanner and mapfile_generator.main).
THEOREM CompleteDraws == Spec => []CompleteIsDrawn
<1>1. Spec => []DrawInv
  BY InitDraw, NextDraw, TypesHold, JobsHold, PTL DEF Spec
<1> QED
  BY <1>1, InvDraws, TypesHold, JobsHold, PTL
=============================================================================
