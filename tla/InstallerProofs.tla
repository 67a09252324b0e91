---------------------------- MODULE InstallerProofs ----------------------------
(***************************************************************************)
(* What the installer leaves behind, proved for every set of hosts, every   *)
(* list of mirrors and any number of runs.  The inductive invariant says    *)
(* what is known at each stage of a run: it is passed from one callback to  *)
(* the next through the report, the archive and the files of ext/.          *)
(***************************************************************************)
EXTENDS Installer, TLAPS

Mirrors == {MIRRORS[i] : i \in DOMAIN MIRRORS}

Downloads == {"downloading", "saving", "verifying", "extracting"}

\* Nothing runs but what the stage of the run allows.
Staged ==
  /\ outcome = "reported" => pc = "ended"
  /\ removing => pc \in {"building", "reporting"}
  /\ pc \in Downloads => report.source = "remote" /\ Triple(report) \in TRIPLES
  /\ pc = "extracting" => archive = "whole" /\ report.checksum = "verified"
  /\ pc = "building" => unpacked \in Unpackings

\* The report is of this host, and of the files of ext/ if they were fetched
\* by this run.
FilesReported ==
  report.source = "remote" =>
    /\ unpacked.of[2] = report.target
    /\ report.checksum = "verified"

Reported ==
  /\ pc # "ended" \/ outcome = "reported" => report.target = agentTarget(host, env)
  /\ pc = "building" => FilesReported
  /\ pc = "reporting" \/ outcome = "reported" =>
       /\ report.status \in {"success", "error"}
       /\ report.status = "success" =>
            /\ FilesReported
            /\ unpacked \in Unpackings
            /\ host \in Hosts
            /\ built = [files |-> unpacked, host |-> host]
  /\ outcome = "reported" => disk = report

\* The mirrors asked and those that are left are all of the mirrors, in order.
Asked ==
  /\ asked \in Seq(Mirrors)
  /\ mirrors \in Seq(Mirrors)
  /\ pc \in {"downloading", "saving"} => asked # <<>> /\ asked \o mirrors = MIRRORS
  /\ pc \in {"verifying", "extracting"} => report.download_url # None
  /\ pc = "building" /\ report.source = "remote" => report.download_url # None
  /\ pc = "reporting" /\ report.source = "remote" /\ report.status = "error"
       /\ report.download_url = None /\ "fail" \notin env
     => asked = MIRRORS

IInv == TypeOK /\ Staged /\ Reported /\ NothingUnverified /\ Asked
-----------------------------------------------------------------------------
(* The report: each change of a field leaves it a report                    *)

LEMMA StatusSet ==
  ASSUME NEW r \in Reports, NEW s \in {"incomplete", "unknown", "success", "error"}
  PROVE  [r EXCEPT !.status = s] \in Reports
BY DEF Reports

LEMMA ChecksumSet ==
  ASSUME NEW r \in Reports
  PROVE  [r EXCEPT !.checksum = "verified"] \in Reports
BY DEF Reports

LEMMA DownloadSet ==
  ASSUME NEW r \in Reports, NEW m \in Mirrors
  PROVE  [r EXCEPT !.download_url = m] \in Reports
BY DEF Reports, Mirrors

LEMMA ReportCreated ==
  ASSUME NEW h \in Hosts, NEW e \in Envs, NEW source \in {"local", "remote"}
  PROVE  /\ createReport(h, e, source) \in Reports
         /\ createReport(h, e, source).target = agentTarget(h, e)
         /\ createReport(h, e, source).source = source
<1>1. agentArchitecture(h, e) \in {g.arch : g \in Hosts} \cup {"arm64"}
  BY DEF agentArchitecture
<1>2. agentTarget(h, e) \in {g.platform : g \in Hosts} \cup {"linux", "linux-musl"}
  BY DEF agentTarget, processTarget
<1>3. QED
  BY <1>1, <1>2 DEF createReport, Reports

-----------------------------------------------------------------------------
(* The inductive invariant                                                  *)

\* What tar unpacks is of one of the known platforms.
LEMMA FilesUnpacked ==
  ASSUME IInv, pc = "extracting", NEW whole \in BOOLEAN
  PROVE  /\ Files(whole) \in Unpackings
         /\ Files(whole).of[2] = report.target
         /\ Files(whole).genuine = TRUE
<1>1. Triple(report) \in TRIPLES /\ archive = "whole"
  BY DEF IInv, Staged, Downloads
<1>2. Files(whole) \in Unpackings
  BY <1>1 DEF Files, Unpackings
<1>3. Files(whole).of = Triple(report) /\ Files(whole).genuine = (archive = "whole")
  BY DEF Files
<1>4. Triple(report)[2] = report.target
  BY DEF Triple
<1>5. QED
  BY <1>1, <1>2, <1>3, <1>4

LEMMA RunCounted ==
  ASSUME NEW n \in 0..MaxRuns, n < MaxRuns
  PROVE  n + 1 \in 0..MaxRuns
BY RunsAssumption

\* The mirror that is asked now is one of the list.
LEMMA MirrorAsked ==
  ASSUME IInv, pc \in {"downloading", "saving"}
  PROVE  asked[Len(asked)] \in Mirrors
BY DEF IInv, Asked

\* Every step keeps the types.
LEMMA TypeKept == IInv /\ [Next]_vars => TypeOK'
<1> SUFFICES ASSUME IInv, [Next]_vars PROVE TypeOK'
  OBVIOUS
<1> USE DEF IInv, TypeOK, Staged
<1>1. ASSUME NEW h \in Hosts, NEW e \in Envs, Run(h, e) PROVE TypeOK'
  <2>0. runs' \in 0..MaxRuns
    <3>1. runs < MaxRuns /\ runs' = runs + 1
      BY <1>1 DEF Run
    <3>2. runs \in 0..MaxRuns
      OBVIOUS
    <3>3. QED
      BY <3>1, <3>2, RunCounted
  <2>1. /\ UNCHANGED <<archive, unpacked, disk>>
        /\ host' = h /\ env' = e
        /\ pc = "ended"
    BY <1>1 DEF Run
  <2>2. ~removing
    BY <2>1
  <2>3. /\ report' \in Reports \/ (pc' = "ended" /\ report' = None)
        /\ pc' \in {"downloading", "building", "reporting", "ended"}
        /\ outcome' \in {"running", "refused", "threw"}
        /\ built' \in {built, None}
        /\ removing' = FALSE
    <3>1. CASE RunRefused(h, e)
      BY <3>1 DEF RunRefused, Ends
    <3>2. CASE RunThrows(h, e)
      BY <3>2 DEF RunThrows, Ends
    <3>3. CASE RunFailsOnPurpose(h, e)
      BY <2>2, <3>3, StatusSet, ReportCreated DEF RunFailsOnPurpose
    <3>4. CASE RunRemote(h, e)
      BY <2>2, <3>4, ReportCreated DEF RunRemote, StartDownload
    <3>5. CASE RunLocal(h, e)
      BY <2>2, <3>5, StatusSet, ReportCreated DEF RunLocal, StartBuild
    <3>6. QED
      BY <1>1, <3>1, <3>2, <3>3, <3>4, <3>5 DEF Run
  <2>4. QED
    BY <2>0, <2>1, <2>3
<1>2. CASE MirrorFails
  BY <1>2, StatusSet DEF MirrorFails, NextMirror, Fails, Continues, directory
<1>3. CASE RedirectThrows
  BY <1>3 DEF RedirectThrows, Ends, process, directory
<1>4. CASE StreamStarts
  BY <1>4 DEF StreamStarts, Continues
<1>5. CASE FileFails
  BY <1>5, StatusSet DEF FileFails, NextMirror, Fails, Continues, directory
<1>6. ASSUME NEW c \in {"whole", "corrupt"}, FileFinishes(c) PROVE TypeOK'
  BY <1>6, DownloadSet, MirrorAsked DEF FileFinishes, Continues
<1>7. CASE StreamCut
  BY <1>7 DEF StreamCut, Ends, process, directory
<1>8. CASE Verify
  BY <1>8, StatusSet, ChecksumSet DEF Verify, Fails, Continues, directory
<1>9. CASE VerifyThrows
  BY <1>9 DEF VerifyThrows, Ends, process, directory
<1>10. CASE Extract
  <2>1. unpacked' \in Unpackings
    BY <1>10, FilesUnpacked DEF Extract
  <2>2. report' \in Reports
    BY <1>10, StatusSet DEF Extract
  <2>3. QED
    BY <1>10, <2>1, <2>2 DEF Extract, StartBuild, Continues
<1>11. CASE ExtractFails
  <2>1. unpacked' \in Unpackings \cup {None}
    BY <1>11, FilesUnpacked DEF ExtractFails
  <2>2. report' \in Reports
    BY <1>11, StatusSet DEF ExtractFails, Fails
  <2>3. QED
    BY <1>11, <2>1, <2>2 DEF ExtractFails, Fails, Continues
<1>12. CASE BuildSucceeds
  BY <1>12, StatusSet DEF BuildSucceeds, Continues, Builds
<1>13. CASE BuildFails
  BY <1>13, StatusSet DEF BuildFails, Fails, Continues, directory
<1>14. CASE DumpReport
  BY <1>14 DEF DumpReport, Ends, process
<1>15. CASE DumpReportFails
  BY <1>15 DEF DumpReportFails, Ends, process
<1>16. CASE RemoveFile
  BY <1>16 DEF RemoveFile, Continues
<1>17. CASE RemoveFileThrows
  BY <1>17 DEF RemoveFileThrows, Ends, process, directory
<1>18. CASE Killed
  <2>1. unpacked' \in Unpackings \cup {None}
    BY <1>18, FilesUnpacked DEF Killed
  <2>2. QED
    BY <1>18, <2>1 DEF Killed, Ends, process
<1>19. CASE UNCHANGED vars
  BY <1>19 DEF vars, process, directory
<1>20. QED
  BY <1>1, <1>2, <1>3, <1>4, <1>5, <1>6, <1>7, <1>8, <1>9, <1>10, <1>11,
     <1>12, <1>13, <1>14, <1>15, <1>16, <1>17, <1>18, <1>19 DEF Next,
     Callbacks

\* Every step leaves what its stage promises.
LEMMA StagedKept == IInv /\ [Next]_vars => Staged'
<1> SUFFICES ASSUME IInv, [Next]_vars PROVE Staged'
  OBVIOUS
<1> USE DEF IInv, Staged, Downloads
<1>1. ASSUME NEW h \in Hosts, NEW e \in Envs, Run(h, e) PROVE Staged'
  <2>1. pc = "ended" /\ UNCHANGED unpacked
    BY <1>1 DEF Run
  <2>2. ~removing
    BY <2>1
  <2>3. CASE RunRefused(h, e) \/ RunThrows(h, e)
    BY <2>3 DEF RunRefused, RunThrows, Ends
  <2>4. CASE RunFailsOnPurpose(h, e)
    BY <2>2, <2>4 DEF RunFailsOnPurpose
  <2>5. CASE RunRemote(h, e)
    <3>1. report' = createReport(h, e, "remote") /\ pc' = "downloading"
          /\ UNCHANGED removing /\ outcome' = "running"
      BY <2>5 DEF RunRemote, StartDownload
    <3>2. Triple(createReport(h, e, "remote")) \in TRIPLES
      BY <2>5 DEF RunRemote, Unknown
    <3>3. Triple(report)' \in TRIPLES
      BY <3>1, <3>2 DEF Triple
    <3>4. QED
      BY <2>2, <3>1, <3>3, ReportCreated
  <2>6. CASE RunLocal(h, e)
    <3>1. unpacked \in Unpackings
      BY <2>6 DEF RunLocal, hasLocalBuild, TypeOK
    <3>2. QED
      BY <2>1, <2>2, <2>6, <3>1 DEF RunLocal, StartBuild
  <2>7. QED
    BY <1>1, <2>3, <2>4, <2>5, <2>6 DEF Run
<1>2. CASE MirrorFails
  BY <1>2 DEF MirrorFails, NextMirror, Fails, Continues, directory
<1>3. CASE RedirectThrows
  BY <1>3 DEF RedirectThrows, Ends, process, directory
<1>4. CASE StreamStarts
  BY <1>4 DEF StreamStarts, Continues
<1>5. CASE FileFails
  BY <1>5 DEF FileFails, NextMirror, Fails, Continues, directory
<1>6. ASSUME NEW c \in {"whole", "corrupt"}, FileFinishes(c) PROVE Staged'
  <2>1. report' = [report EXCEPT !.download_url = asked[Len(asked)]]
    BY <1>6 DEF FileFinishes
  <2>2. report \in Reports
    BY <1>6 DEF FileFinishes, TypeOK
  <2>3. report'.source = report.source /\ Triple(report)' = Triple(report)
    BY <2>1, <2>2 DEF Triple, Reports
  <2>4. QED
    BY <1>6, <2>3 DEF FileFinishes, Continues
<1>7. CASE StreamCut
  BY <1>7 DEF StreamCut, Ends, process, directory
<1>8. CASE Verify
  <2>1. CASE pc' = "extracting"
    <3>1. /\ report' = [report EXCEPT !.checksum = "verified"]
          /\ archive' = "whole"
      BY <1>8, <2>1 DEF Verify, Fails, directory
    <3>2. report \in Reports
      BY <1>8 DEF Verify, TypeOK
    <3>3. /\ report'.checksum = "verified" /\ report'.source = report.source
          /\ Triple(report)' = Triple(report)
      BY <3>1, <3>2 DEF Triple, Reports
    <3>4. QED
      BY <1>8, <2>1, <3>1, <3>3 DEF Verify, Continues
  <2>2. QED
    BY <1>8, <2>1 DEF Verify, Fails, Continues
<1>9. CASE VerifyThrows
  BY <1>9 DEF VerifyThrows, Ends, process, directory
<1>10. CASE Extract
  BY <1>10, FilesUnpacked DEF Extract, StartBuild, Files, Continues
<1>11. CASE ExtractFails
  BY <1>11, FilesUnpacked DEF ExtractFails, Files, Fails, Continues
<1>12. CASE BuildSucceeds
  BY <1>12 DEF BuildSucceeds, Continues
<1>13. CASE BuildFails
  BY <1>13 DEF BuildFails, Fails, Continues, directory
<1>14. CASE DumpReport
  BY <1>14 DEF DumpReport, Ends, process
<1>15. CASE DumpReportFails
  BY <1>15 DEF DumpReportFails, Ends, process
<1>16. CASE RemoveFile
  BY <1>16 DEF RemoveFile, Continues
<1>17. CASE RemoveFileThrows
  BY <1>17 DEF RemoveFileThrows, Ends, process, directory
<1>18. CASE Killed
  BY <1>18, FilesUnpacked DEF Killed, Ends, Files, process
<1>19. CASE UNCHANGED vars
  BY <1>19 DEF vars, process, directory
<1>20. QED
  BY <1>1, <1>2, <1>3, <1>4, <1>5, <1>6, <1>7, <1>8, <1>9, <1>10, <1>11,
     <1>12, <1>13, <1>14, <1>15, <1>16, <1>17, <1>18, <1>19 DEF Next,
     Callbacks

\* Only an archive with the right checksum is unpacked, and only what was
\* unpacked is linked.
LEMMA NothingUnverifiedKept == IInv /\ [Next]_vars => NothingUnverified'
<1> SUFFICES ASSUME IInv, [Next]_vars PROVE NothingUnverified'
  OBVIOUS
<1> USE DEF IInv, NothingUnverified
<1>1. ASSUME NEW h \in Hosts, NEW e \in Envs, Run(h, e) PROVE NothingUnverified'
  <2>1. UNCHANGED unpacked /\ built' \in {built, None}
    BY <1>1 DEF Run, RunRefused, RunThrows, RunFailsOnPurpose, RunRemote,
                RunLocal, StartBuild, StartDownload
  <2>2. QED
    BY <2>1
<1>2. CASE MirrorFails
  BY <1>2 DEF MirrorFails, NextMirror, Fails, Continues, directory
<1>3. CASE RedirectThrows
  BY <1>3 DEF RedirectThrows, Ends, process, directory
<1>4. CASE StreamStarts
  BY <1>4 DEF StreamStarts, Continues
<1>5. CASE FileFails
  BY <1>5 DEF FileFails, NextMirror, Fails, Continues, directory
<1>6. ASSUME NEW c \in {"whole", "corrupt"}, FileFinishes(c) PROVE NothingUnverified'
  BY <1>6 DEF FileFinishes, Continues
<1>7. CASE StreamCut
  BY <1>7 DEF StreamCut, Ends, process, directory
<1>8. CASE Verify
  BY <1>8 DEF Verify, Fails, Continues, directory
<1>9. CASE VerifyThrows
  BY <1>9 DEF VerifyThrows, Ends, process, directory
<1>10. CASE Extract
  BY <1>10, FilesUnpacked DEF Extract, StartBuild, Files, Continues
<1>11. CASE ExtractFails
  BY <1>11, FilesUnpacked DEF ExtractFails, Files, Fails, Continues
<1>12. CASE BuildSucceeds
  <2>1. unpacked \in Unpackings /\ UNCHANGED unpacked
    BY <1>12 DEF BuildSucceeds, Staged
  <2>2. unpacked.genuine
    BY <2>1, NoneAssumption
  <2>3. built'.files = unpacked
    BY <1>12 DEF BuildSucceeds
  <2>4. QED
    BY <2>1, <2>2, <2>3
<1>13. CASE BuildFails
  BY <1>13 DEF BuildFails, Fails, Continues, directory
<1>14. CASE DumpReport
  BY <1>14 DEF DumpReport, Ends, process
<1>15. CASE DumpReportFails
  BY <1>15 DEF DumpReportFails, Ends, process
<1>16. CASE RemoveFile
  BY <1>16 DEF RemoveFile, Continues
<1>17. CASE RemoveFileThrows
  BY <1>17 DEF RemoveFileThrows, Ends, process, directory
<1>18. CASE Killed
  BY <1>18, FilesUnpacked DEF Killed, Ends, Files, process
<1>19. CASE UNCHANGED vars
  BY <1>19 DEF vars, process, directory
<1>20. QED
  BY <1>1, <1>2, <1>3, <1>4, <1>5, <1>6, <1>7, <1>8, <1>9, <1>10, <1>11,
     <1>12, <1>13, <1>14, <1>15, <1>16, <1>17, <1>18, <1>19 DEF Next,
     Callbacks

\* While a run is under way there is a report, and it has no outcome.
LEMMA InProgress == IInv /\ pc # "ended" => report \in Reports /\ outcome # "reported"
BY DEF IInv, TypeOK, Staged

\* What catch() reports.
LEMMA FailureReported ==
  ASSUME IInv, Fails, pc # "ended", UNCHANGED <<host, env, outcome>>
  PROVE  Reported'
<1>1. report \in Reports /\ outcome # "reported"
  BY InProgress
<1>2. /\ pc' = "reporting" /\ report' = [report EXCEPT !.status = "error"]
  BY DEF Fails
<1>3. report'.status = "error" /\ report'.target = report.target
  BY <1>1, <1>2 DEF Reports
<1>4. report.target = agentTarget(host, env)
  BY DEF IInv, Reported
<1>5. QED
  BY <1>1, <1>2, <1>3, <1>4 DEF Reported, agentTarget, processTarget


\* Every step keeps the report true to the host and to the files.
LEMMA ReportedKept == IInv /\ [Next]_vars => Reported'
<1> SUFFICES ASSUME IInv, [Next]_vars PROVE Reported'
  OBVIOUS
<1> USE DEF IInv, Reported, FilesReported
<1>1. ASSUME NEW h \in Hosts, NEW e \in Envs, Run(h, e) PROVE Reported'
  <2>1. host' = h /\ env' = e /\ UNCHANGED unpacked
    BY <1>1 DEF Run
  <2>2. CASE RunRefused(h, e) \/ RunThrows(h, e)
    BY <2>2 DEF RunRefused, RunThrows, Ends
  <2>3. CASE RunFailsOnPurpose(h, e)
    <3>1. PICK source \in {"local", "remote"} :
            report' = [createReport(h, e, source) EXCEPT !.status = "error"]
      BY <2>3 DEF RunFailsOnPurpose
    <3>2. report'.status = "error" /\ report'.target = agentTarget(h, e)
      BY <3>1, ReportCreated DEF Reports
    <3>3. QED
      BY <2>1, <2>3, <3>2 DEF RunFailsOnPurpose
  <2>4. CASE RunRemote(h, e)
    BY <2>1, <2>4, ReportCreated DEF RunRemote, StartDownload
  <2>5. CASE RunLocal(h, e)
    <3>1. report' = [createReport(h, e, "local") EXCEPT !.status = "unknown"]
          /\ pc' = "building" /\ outcome' = "running"
      BY <2>5 DEF RunLocal, StartBuild
    <3>2. report'.source = "local" /\ report'.target = agentTarget(h, e)
      BY <3>1, ReportCreated DEF Reports
    <3>3. QED
      BY <2>1, <3>1, <3>2
  <2>6. QED
    BY <1>1, <2>2, <2>3, <2>4, <2>5 DEF Run
<1>2. CASE MirrorFails
  BY <1>2, FailureReported, InProgress
     DEF MirrorFails, NextMirror, Continues
<1>3. CASE RedirectThrows
  BY <1>3 DEF RedirectThrows, Ends, process, directory
<1>4. CASE StreamStarts
  BY <1>4 DEF StreamStarts, Continues
<1>5. CASE FileFails
  BY <1>5, FailureReported, InProgress
     DEF FileFails, NextMirror, Continues
<1>6. ASSUME NEW c \in {"whole", "corrupt"}, FileFinishes(c) PROVE Reported'
  BY <1>6, InProgress DEF FileFinishes, Continues, Reports
<1>7. CASE StreamCut
  BY <1>7 DEF StreamCut, Ends, process, directory
<1>8. CASE Verify
  <2>1. CASE Fails
    BY <1>8, <2>1, FailureReported DEF Verify, Continues
  <2>2. CASE pc' = "extracting" /\ report' = [report EXCEPT !.checksum = "verified"]
    BY <1>8, <2>2, InProgress DEF Verify, Continues, Reports
  <2>3. QED
    BY <1>8, <2>1, <2>2 DEF Verify
<1>9. CASE VerifyThrows
  BY <1>9 DEF VerifyThrows, Ends, process, directory
<1>10. CASE Extract
  <2>1. unpacked'.of[2] = report.target /\ report.checksum = "verified"
    BY <1>10, FilesUnpacked DEF Extract, Staged
  <2>2. /\ report'.target = report.target /\ report'.checksum = report.checksum
        /\ report'.source = report.source
    BY <1>10, InProgress DEF Extract, Reports
  <2>3. QED
    BY <1>10, <2>1, <2>2, InProgress DEF Extract, StartBuild, Continues
<1>11. CASE ExtractFails
  BY <1>11, FailureReported DEF ExtractFails, Continues
<1>12. CASE BuildSucceeds
  <2>1. /\ report'.target = report.target /\ report'.checksum = report.checksum
        /\ report'.source = report.source /\ report'.status = "success"
    BY <1>12, InProgress DEF BuildSucceeds, Reports
  <2>2. unpacked \in Unpackings /\ host \in Hosts
    BY <1>12 DEF BuildSucceeds, Staged, TypeOK
  <2>3. QED
    BY <1>12, <2>1, <2>2, InProgress DEF BuildSucceeds, Continues
<1>13. CASE BuildFails
  BY <1>13, FailureReported DEF BuildFails, Continues
<1>14. CASE DumpReport
  BY <1>14 DEF DumpReport, Ends, process
<1>15. CASE DumpReportFails
  BY <1>15 DEF DumpReportFails, Ends, process
<1>16. CASE RemoveFile
  BY <1>16 DEF RemoveFile, Continues
<1>17. CASE RemoveFileThrows
  BY <1>17 DEF RemoveFileThrows, Ends, process, directory
<1>18. CASE Killed
  BY <1>18 DEF Killed, Ends, Files, process
<1>19. CASE UNCHANGED vars
  BY <1>19 DEF vars, process, directory
<1>20. QED
  BY <1>1, <1>2, <1>3, <1>4, <1>5, <1>6, <1>7, <1>8, <1>9, <1>10, <1>11,
     <1>12, <1>13, <1>14, <1>15, <1>16, <1>17, <1>18, <1>19 DEF Next,
     Callbacks

-----------------------------------------------------------------------------
(* The mirrors                                                              *)

LEMMA MirrorsListed ==
  /\ MIRRORS \in Seq(Mirrors) /\ MIRRORS # <<>>
  /\ None \notin Mirrors
BY MirrorsAssumption DEF Mirrors

LEMMA HeadMoved ==
  ASSUME NEW S, NEW a \in Seq(S), NEW m \in Seq(S), m # <<>>
  PROVE  /\ Append(a, Head(m)) \in Seq(S) /\ Append(a, Head(m)) # <<>>
         /\ Tail(m) \in Seq(S)
         /\ Append(a, Head(m)) \o Tail(m) = a \o m
<1>1. Head(m) \in S /\ Tail(m) \in Seq(S) /\ Len(Tail(m)) = Len(m) - 1 /\ Len(m) > 0
  OBVIOUS
<1>2. Append(a, Head(m)) \in Seq(S) /\ Len(Append(a, Head(m))) = Len(a) + 1
  BY <1>1
<1>3. Append(a, Head(m)) \o Tail(m) \in Seq(S) /\ a \o m \in Seq(S)
  BY <1>1, <1>2
<1>4. Len(Append(a, Head(m)) \o Tail(m)) = Len(a \o m)
  BY <1>1, <1>2
<1>5. ASSUME NEW i \in 1..Len(a \o m)
      PROVE  (Append(a, Head(m)) \o Tail(m))[i] = (a \o m)[i]
  BY <1>1, <1>2
<1>6. Append(a, Head(m)) \o Tail(m) = a \o m
  BY <1>3, <1>4, <1>5
<1>7. QED
  BY <1>1, <1>2, <1>6

LEMMA AllMoved ==
  ASSUME NEW S, NEW a \in Seq(S), a \o <<>> = MIRRORS
  PROVE  a = MIRRORS
OBVIOUS

\* The next mirror is asked, or all of them were.
LEMMA NextAsked ==
  ASSUME IInv, NextMirror, pc \in {"downloading", "saving"}, UNCHANGED env
  PROVE  Asked'
<1> USE DEF IInv, Asked
<1>1. CASE mirrors = <<>> /\ Fails /\ UNCHANGED <<mirrors, asked>>
  <2>1. asked = MIRRORS
    BY <1>1, AllMoved
  <2>2. QED
    BY <1>1, <2>1 DEF Fails
<1>2. CASE /\ mirrors # <<>>
           /\ pc' = "downloading"
           /\ asked' = Append(asked, Head(mirrors))
           /\ mirrors' = Tail(mirrors)
  <2>1. asked \in Seq(Mirrors) /\ mirrors \in Seq(Mirrors) /\ asked \o mirrors = MIRRORS
    OBVIOUS
  <2>2. /\ asked' \in Seq(Mirrors) /\ asked' # <<>>
        /\ mirrors' \in Seq(Mirrors)
        /\ asked' \o mirrors' = MIRRORS
    <3> HIDE DEF IInv, Asked
    <3>1. /\ Append(asked, Head(mirrors)) \in Seq(Mirrors)
          /\ Append(asked, Head(mirrors)) # <<>>
          /\ Tail(mirrors) \in Seq(Mirrors)
          /\ Append(asked, Head(mirrors)) \o Tail(mirrors) = asked \o mirrors
      BY <1>2, <2>1, HeadMoved, Zenon
    <3>2. QED
      BY <1>2, <2>1, <3>1, Zenon
  <2>3. QED
    BY <1>2, <2>2
<1>3. QED
  BY <1>1, <1>2 DEF NextMirror

\* Every step keeps account of the mirrors.
LEMMA AskedKept == IInv /\ [Next]_vars => Asked'
<1> SUFFICES ASSUME IInv, [Next]_vars PROVE Asked'
  OBVIOUS
<1> USE DEF IInv, Asked
<1>1. ASSUME NEW h \in Hosts, NEW e \in Envs, Run(h, e) PROVE Asked'
  <2>1. env' = e
    BY <1>1 DEF Run
  <2>2. CASE RunRefused(h, e) \/ RunThrows(h, e)
    BY <2>2 DEF RunRefused, RunThrows, Ends
  <2>3. CASE RunFailsOnPurpose(h, e)
    BY <2>1, <2>3 DEF RunFailsOnPurpose
  <2>4. CASE RunRemote(h, e)
    <3>1. <<Head(MIRRORS)>> = Append(<<>>, Head(MIRRORS)) /\ <<>> \o MIRRORS = MIRRORS
          /\ <<>> \in Seq(Mirrors)
      BY MirrorsListed
    <3>2. QED
      BY <2>4, <3>1, MirrorsListed, HeadMoved DEF RunRemote, StartDownload
  <2>5. CASE RunLocal(h, e)
    <3>1. report' = [createReport(h, e, "local") EXCEPT !.status = "unknown"]
          /\ pc' = "building" /\ UNCHANGED <<mirrors, asked>>
      BY <2>5 DEF RunLocal, StartBuild
    <3>2. report'.source = "local"
      BY <3>1, ReportCreated DEF Reports
    <3>3. QED
      BY <3>1, <3>2
  <2>6. QED
    BY <1>1, <2>2, <2>3, <2>4, <2>5 DEF Run
<1>2. CASE MirrorFails
  BY <1>2, NextAsked DEF MirrorFails, Continues
<1>3. CASE RedirectThrows
  BY <1>3 DEF RedirectThrows, Ends, process, directory
<1>4. CASE StreamStarts
  BY <1>4 DEF StreamStarts, Continues
<1>5. CASE FileFails
  BY <1>5, NextAsked DEF FileFails, Continues
<1>6. ASSUME NEW c \in {"whole", "corrupt"}, FileFinishes(c) PROVE Asked'
  <2>1. report'.download_url = asked[Len(asked)]
    BY <1>6, InProgress DEF FileFinishes, Reports
  <2>2. report'.download_url # None
    BY <1>6, <2>1, MirrorAsked, MirrorsListed DEF FileFinishes
  <2>3. QED
    BY <1>6, <2>2 DEF FileFinishes, Continues
<1>7. CASE StreamCut
  BY <1>7 DEF StreamCut, Ends, process, directory
<1>8. CASE Verify
  <2>1. report'.download_url = report.download_url
    BY <1>8, InProgress DEF Verify, Fails, Reports
  <2>2. QED
    BY <1>8, <2>1 DEF Verify, Fails, Continues, directory
<1>9. CASE VerifyThrows
  BY <1>9 DEF VerifyThrows, Ends, process, directory
<1>10. CASE Extract
  <2>1. report'.download_url = report.download_url
    BY <1>10, InProgress DEF Extract, Reports
  <2>2. QED
    BY <1>10, <2>1 DEF Extract, StartBuild, Continues
<1>11. CASE ExtractFails
  <2>1. report'.download_url = report.download_url
    BY <1>11, InProgress DEF ExtractFails, Fails, Reports
  <2>2. QED
    BY <1>11, <2>1 DEF ExtractFails, Fails, Continues
<1>12. CASE BuildSucceeds
  <2>1. report'.status = "success"
    BY <1>12, InProgress DEF BuildSucceeds, Reports
  <2>2. QED
    BY <1>12, <2>1 DEF BuildSucceeds, Continues
<1>13. CASE BuildFails
  <2>1. report'.download_url = report.download_url /\ report'.source = report.source
    BY <1>13, InProgress DEF BuildFails, Fails, Reports
  <2>2. QED
    BY <1>13, <2>1 DEF BuildFails, Fails, Continues, directory
<1>14. CASE DumpReport
  BY <1>14 DEF DumpReport, Ends, process
<1>15. CASE DumpReportFails
  BY <1>15 DEF DumpReportFails, Ends, process
<1>16. CASE RemoveFile
  BY <1>16 DEF RemoveFile, Continues
<1>17. CASE RemoveFileThrows
  BY <1>17 DEF RemoveFileThrows, Ends, process, directory
<1>18. CASE Killed
  BY <1>18 DEF Killed, Ends, Files, process
<1>19. CASE UNCHANGED vars
  BY <1>19 DEF vars, process, directory
<1>20. QED
  BY <1>1, <1>2, <1>3, <1>4, <1>5, <1>6, <1>7, <1>8, <1>9, <1>10, <1>11,
     <1>12, <1>13, <1>14, <1>15, <1>16, <1>17, <1>18, <1>19 DEF Next,
     Callbacks

-----------------------------------------------------------------------------
(* The theorems                                                             *)

LEMMA InitiallyInv == Init => IInv
<1> SUFFICES ASSUME Init PROVE IInv
  OBVIOUS
<1>1. TypeOK
  <2>1. 0 \in 0..MaxRuns
    BY RunsAssumption
  <2>2. QED
    BY <2>1 DEF Init, TypeOK
<1>2. Staged
  BY DEF Init, Staged, Downloads
<1>3. Reported
  BY DEF Init, Reported
<1>4. NothingUnverified
  BY DEF Init, NothingUnverified
<1>5. Asked
  <2>1. <<>> \in Seq(Mirrors)
    OBVIOUS
  <2>2. QED
    BY <2>1 DEF Init, Asked
<1>6. QED
  BY <1>1, <1>2, <1>3, <1>4, <1>5 DEF IInv

LEMMA InvAlways == Spec => []IInv
<1>1. IInv /\ [Next]_vars => IInv'
  BY TypeKept, StagedKept, ReportedKept, NothingUnverifiedKept, AskedKept DEF IInv
<1>2. QED
  BY InitiallyInv, <1>1, PTL DEF Spec

\* The type of every variable of the installer.
THEOREM InstallerTyped == Spec => []TypeOK
<1>1. IInv => TypeOK
  BY DEF IInv
<1>2. QED
  BY InvAlways, <1>1, PTL

\* Nothing is unpacked into ext/ or linked that did not have the right
\* checksum, over any number of runs that end anywhere.
THEOREM OnlyVerified == Spec => []NothingUnverified
<1>1. IInv => NothingUnverified
  BY DEF IInv
<1>2. QED
  BY InvAlways, <1>1, PTL

\* The report in ext/install.report is that of the run that wrote it.
THEOREM ReportIsTrue == Spec => []ReportTellsTruth
<1>1. IInv => ReportTellsTruth
  BY DEF IInv, Reported, ReportTellsTruth
<1>2. QED
  BY InvAlways, <1>1, PTL

\* A remote installation that reports success loads on its host.
THEOREM SuccessLoads == Spec => []RemoteInstallLoads
<1>1. IInv => RemoteInstallLoads
  <2> SUFFICES ASSUME IInv, outcome = "reported", disk.status = "success",
                      disk.source = "remote", env \cap {"musl", "linux arm"} = {}
               PROVE  disk.checksum = "verified" /\ isLoaded(host)
    BY DEF RemoteInstallLoads
  <2>1. /\ disk = report /\ built = [files |-> unpacked, host |-> host]
        /\ unpacked \in Unpackings /\ host \in Hosts
        /\ unpacked.of[2] = report.target /\ report.checksum = "verified"
        /\ report.target = agentTarget(host, env)
    BY DEF IInv, Reported, FilesReported
  <2>2. agentTarget(host, env) = processTarget(host)
    BY DEF agentTarget
  <2>3. [files |-> unpacked, host |-> host] \in Builds
    BY <2>1 DEF Builds
  <2>4. QED
    BY <2>1, <2>2, <2>3, NoneAssumption DEF isLoaded
<1>2. QED
  BY InvAlways, <1>1, PTL

\* No mirror is left out before the installer gives up.
THEOREM AllMirrorsAsked == Spec => []GivesUpLast
<1>1. IInv => GivesUpLast
  BY DEF IInv, Asked, GivesUpLast
<1>2. QED
  BY InvAlways, <1>1, PTL

-----------------------------------------------------------------------------
(* The end of a run                                                        *)

\* The callbacks a run waits for at most: two for each mirror that is left, and
\* one for each of the stages that follow.
CallbacksLeft ==
  CASE pc = "downloading" -> 2 * Len(mirrors) + 6
    [] pc = "saving" -> 2 * Len(mirrors) + 5
    [] pc = "verifying" -> 4
    [] pc = "extracting" -> 3
    [] pc = "building" -> 2
    [] pc = "reporting" -> 1
    [] OTHER -> 0

\* Whichever mirrors fail and at whatever point, a mirror that failed is followed
\* by one of fewer.
LEMMA FewerMirrors ==
  ASSUME mirrors \in Seq(Mirrors), NextMirror
  PROVE  \/ pc' = "reporting"
         \/ pc' = "downloading" /\ Len(mirrors') = Len(mirrors) - 1 /\ Len(mirrors) > 0
<1>1. CASE mirrors = <<>>
  BY <1>1 DEF NextMirror, Fails
<1>2. CASE mirrors # <<>>
  <2>1. pc' = "downloading" /\ mirrors' = Tail(mirrors)
    BY <1>2 DEF NextMirror
  <2>2. Len(mirrors) > 0 /\ Len(Tail(mirrors)) = Len(mirrors) - 1
    BY <1>2
  <2> QED
    BY <2>1, <2>2
<1> QED
  BY <1>1, <1>2

\* The installer does not go on for ever: each callback leaves fewer to wait for,
\* however many mirrors there are and whichever of them fail.
THEOREM EveryCallbackCounts ==
  Spec => [](CallbacksLeft \in Nat)
            /\ [][Callbacks => CallbacksLeft' < CallbacksLeft]_vars
<1>1. IInv => CallbacksLeft \in Nat /\ mirrors \in Seq(Mirrors) /\ Len(mirrors) \in Nat
  <2> SUFFICES ASSUME IInv
               PROVE  /\ CallbacksLeft \in Nat
                      /\ mirrors \in Seq(Mirrors) /\ Len(mirrors) \in Nat
    OBVIOUS
  <2>1. mirrors \in Seq(Mirrors)
    BY DEF IInv, Asked
  <2>2. Len(mirrors) \in Nat
    BY <2>1
  <2> QED
    BY <2>1, <2>2 DEF CallbacksLeft
<1>2. IInv => [Callbacks => CallbacksLeft' < CallbacksLeft]_vars
  <2> SUFFICES ASSUME IInv, Callbacks PROVE CallbacksLeft' < CallbacksLeft
    OBVIOUS
  <2>1. mirrors \in Seq(Mirrors) /\ Len(mirrors) \in Nat
    BY <1>1
  <2>2. CASE MirrorFails \/ FileFails
    <3>1. pc \in {"downloading", "saving"} /\ NextMirror
      BY <2>2 DEF MirrorFails, FileFails
    <3>2. \/ pc' = "reporting"
          \/ pc' = "downloading" /\ Len(mirrors') = Len(mirrors) - 1 /\ Len(mirrors) > 0
      BY <2>1, <3>1, FewerMirrors
    <3> QED
      BY <2>1, <3>1, <3>2 DEF CallbacksLeft
  <2>3. CASE StreamStarts
    <3>1. pc = "downloading" /\ pc' = "saving" /\ mirrors' = mirrors
      BY <2>3 DEF StreamStarts
    <3> QED
      BY <2>1, <3>1 DEF CallbacksLeft
  <2>4. ASSUME NEW c \in {"whole", "corrupt"}, FileFinishes(c)
        PROVE  CallbacksLeft' < CallbacksLeft
    <3>1. pc = "saving" /\ pc' = "verifying"
      BY <2>4 DEF FileFinishes
    <3> QED
      BY <2>1, <3>1 DEF CallbacksLeft
  <2>5. CASE Verify \/ Extract \/ ExtractFails
    <3>1. \/ pc = "verifying" /\ pc' \in {"extracting", "reporting"}
          \/ pc = "extracting" /\ pc' \in {"building", "reporting"}
      BY <2>5 DEF Verify, Extract, ExtractFails, StartBuild, Fails
    <3> QED
      BY <3>1 DEF CallbacksLeft
  <2>6. CASE BuildSucceeds \/ BuildFails
    <3>1. pc = "building" /\ pc' = "reporting"
      BY <2>6 DEF BuildSucceeds, BuildFails, Fails
    <3> QED
      BY <3>1 DEF CallbacksLeft
  <2>7. CASE RedirectThrows \/ StreamCut \/ VerifyThrows \/ DumpReport
               \/ DumpReportFails
    <3>1. /\ pc \in {"downloading", "saving", "verifying", "reporting"}
          /\ pc' = "ended"
      BY <2>7 DEF RedirectThrows, StreamCut, VerifyThrows, DumpReport,
                  DumpReportFails, Ends
    <3> QED
      BY <2>1, <3>1 DEF CallbacksLeft
  <2> QED
    BY <2>2, <2>3, <2>4, <2>5, <2>6, <2>7 DEF Callbacks
<1> QED
  BY <1>1, <1>2, InvAlways, PTL DEF Spec
=============================================================================
