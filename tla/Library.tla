---------------------------------- MODULE Library ----------------------------------
(***************************************************************************)
(* The parts of the library that use no other part that is modelled, but for  *)
(* its lists of callbacks.  They share no state, so what there is to know of   *)
(* them together is what there is to know of each: a behaviour is one of the   *)
(* part that `subject` names, while all the others rest.                      *)
(***************************************************************************)
EXTENDS Aggregates, LineStats, StopWatches, PointsInTime,
        Containers, Dispatch, Reports,
        ByteBuffer, GOStrings, IniFiles, DiskFiles, Arguments

VARIABLE subject

Subjects ==
  {"aggregates", "line", "watches", "times", "vector", "map", "set", "table", "tree",
   "tokens", "reports", "buffer", "string", "ini", "file", "arguments"}

libraryVars ==
  <<subject, aggVars, lineVars, watchVars, ptVars, vecVars, mapVars, setVars, tableVars,
    treeVars, tokenVars, reportVars, bufferVars, strVars, iniVars, fileVars,
    argsVars>>

Init ==
  /\ subject \in Subjects
  /\ AggInit /\ LineInit /\ WatchInit /\ TimesInit
  /\ VecInit /\ MapInit /\ SetInit
  /\ TableInit /\ TreeInit /\ TokenInit /\ ReportInit
  /\ BufferInit /\ StringInit /\ IniInit /\ FileInit /\ ArgsInit

Next ==
  /\ UNCHANGED subject
  /\ IF subject = "aggregates" THEN AggNext ELSE UNCHANGED aggVars
  /\ IF subject = "line" THEN LineNext ELSE UNCHANGED lineVars
  /\ IF subject = "watches" THEN WatchNext ELSE UNCHANGED watchVars
  /\ IF subject = "times" THEN TimesNext ELSE UNCHANGED ptVars
  /\ IF subject = "vector" THEN VecNext ELSE UNCHANGED vecVars
  /\ IF subject = "map" THEN MapNext ELSE UNCHANGED mapVars
  /\ IF subject = "set" THEN SetNext ELSE UNCHANGED setVars
  /\ IF subject = "table" THEN TableNext ELSE UNCHANGED tableVars
  /\ IF subject = "tree" THEN TreeNext ELSE UNCHANGED treeVars
  /\ IF subject = "tokens" THEN TokenNext ELSE UNCHANGED tokenVars
  /\ IF subject = "reports" THEN ReportNext ELSE UNCHANGED reportVars
  /\ IF subject = "buffer" THEN BufferNext ELSE UNCHANGED bufferVars
  /\ IF subject = "string" THEN StringNext ELSE UNCHANGED strVars
  /\ IF subject = "ini" THEN IniNext ELSE UNCHANGED iniVars
  /\ IF subject = "file" THEN FileNext ELSE UNCHANGED fileVars
  /\ IF subject = "arguments" THEN ArgsNext ELSE UNCHANGED argsVars

Spec == Init /\ [][Next]_libraryVars

-------------------------------------------------------------------------------
(* What is computed is what was measured: the aggregates of a vector are those of
   its elements (gosum.h to gostddev.h), the rates of a line those at which it
   received (golinestats.cpp), a stop watch and a point in time tell the time
   (gostopwatch.cpp, stopwatch.cpp, pointintime.cpp). *)
FiguresRight == AggregatesExact /\ RatesRight /\ WatchesRight /\ TimesRight

(* Whoever asked to be told is told, as often as he asked to be: watchers of vectors,
   maps and sets (govector.h, gomap.h, goset.h), receivers in a priority table, of an
   event and of a token (goprioritytable.cpp, goeventtree.cpp, gtokenmap.h), and
   monitors of reports (report.cpp). *)
EveryoneTold ==
  /\ VectorWatched /\ MapWatched /\ SetWatched
  /\ CalledAsInstalled /\ OneListPerEvent /\ TokensPaired
  /\ ReportsArrive

(* What is stored is what was put there: the bytes of a buffer within its bounds
   (bytebuffer.cpp), the characters of a string (gostring.cpp), the values of an ini
   file, that is read as it was saved (inifiledb.cpp), the contents of a file on disk
   (dar.cpp), and the arguments of a callback (arglist.cpp). *)
ContentsRight == BufferFits /\ StringRight /\ IniRight /\ FileRight /\ ArgumentsRight
===============================================================================
