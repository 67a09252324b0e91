----------------------------- MODULE Installer -----------------------------
(***************************************************************************)
(* The installer of scripts/extension/extension.js, which npm runs as the  *)
(* "install" script of the package, with its report (report.js) and its    *)
(* idea of the platform (support/helpers.js, support/constants.js).        *)
(*                                                                         *)
(* A run is one process.  run() goes as far as its first promise in one    *)
(* action; every callback of a request, a stream, a child process or a     *)
(* file operation after that is an action of its own.  The directory of    *)
(* the package outlives the process: the next run, perhaps of another host *)
(* that mounts the same directory, finds what the last one left.           *)
(***************************************************************************)
EXTENDS Sequences, Naturals

CONSTANTS MIRRORS,   \* the mirrors, in the order they are tried
          Hosts,     \* the hosts npm may run the installer on
          Envs,      \* the settings of environment variables it may run under
          None,      \* undefined, or no such file
          MaxRuns    \* bound: runs of the installer in the same directory

ASSUME MirrorsAssumption ==
  /\ MIRRORS \in Seq({MIRRORS[i] : i \in DOMAIN MIRRORS}) \ {<<>>}
  /\ \A i \in DOMAIN MIRRORS : MIRRORS[i] # None
ASSUME HostsAssumption ==
  Hosts \subseteq [arch : STRING, platform : STRING, musl : BOOLEAN]
ASSUME EnvsAssumption == Envs \subseteq SUBSET {"skip", "fail", "musl", "linux arm"}
ASSUME RunsAssumption == MaxRuns \in Nat

VARIABLES
  pc,        \* what the process waits for, "ended" when there is none
  host, env, \* where it runs, and the variables that are set
  mirrors,   \* what is left of MIRRORS, which download() shifts
  asked,     \* history: the mirrors this run has requested the archive from
  report,    \* the report being made
  archive,   \* the downloaded file: None, "partial", "corrupt" or "whole"
  removing,  \* has removeFile() yet to be carried out?
  unpacked,  \* the files of the archive in ext/
  built,     \* build/Release/extension.node, and what it was linked from
  disk,      \* ext/install.report
  outcome,   \* history: how the last run ended
  runs       \* history: number of runs

process == <<host, env, mirrors, asked, report>>
directory == <<archive, unpacked, built, disk>>
vars == <<pc, process, directory, removing, outcome, runs>>

-----------------------------------------------------------------------------
(* The platform (support/helpers.js, support/constants.js, report.js)      *)

TRIPLES ==
  {<<"x86_64", "darwin">>, <<"universal", "darwin">>, <<"aarch64", "darwin">>,
   <<"arm64", "darwin">>, <<"arm", "darwin">>, <<"aarch64", "linux">>,
   <<"i686", "linux">>, <<"x86", "linux">>, <<"x86_64", "linux">>,
   <<"x86_64", "linux-musl">>, <<"aarch64", "linux-musl">>,
   <<"x86_64", "freebsd">>, <<"amd64", "freebsd">>}

hasSupportedArchitecture(arch) == arch \in {"x32", "x64", "arm64"}

hasSupportedOs(os) == os \in {"darwin", "freebsd", "linux"}

processTarget(h) ==
  IF h.platform = "linux" /\ h.musl THEN "linux-musl" ELSE h.platform

\* Slip: the libc of the host is not asked about.
agentTargetOfPlatform(h, e) ==
  CASE "linux arm" \in e                 -> "linux"
    [] "linux arm" \notin e /\ "musl" \in e -> "linux-musl"
    [] OTHER                             -> h.platform

agentTarget(h, e) ==
  CASE "linux arm" \in e                 -> "linux"
    [] "linux arm" \notin e /\ "musl" \in e -> "linux-musl"
    [] OTHER                             -> processTarget(h)

agentArchitecture(h, e) == IF "linux arm" \in e THEN "arm64" ELSE h.arch

\* mapArchitecture, without its process.exit(0) for the other architectures.
mapArchitecture ==
  [a \in {"x64", "x86", "arm64"} |->
     CASE a = "x64" -> "x86_64" [] a = "x86" -> "i686" [] a = "arm64" -> "aarch64"]

\* The key that getMetadataForTarget looks up.
Triple(r) == <<mapArchitecture[r.architecture], r.target>>

\* "ext/" holds the agent, its library and its header.
hasLocalBuild == unpacked # None

createReport(h, e, source) ==
  [status |-> "incomplete", checksum |-> "unverified", download_url |-> None,
   architecture |-> agentArchitecture(h, e), target |-> agentTarget(h, e),
   source |-> source]

-----------------------------------------------------------------------------
Init ==
  /\ pc = "ended"
  /\ host \in Hosts
  /\ env \in Envs
  /\ mirrors = <<>>
  /\ asked = <<>>
  /\ report = None
  /\ archive = None
  /\ removing = FALSE
  /\ unpacked = None
  /\ built = None
  /\ disk = None
  /\ outcome = "not run"
  /\ runs = 0

\* The process is gone, and with it whatever it had under way.
Ends(how) ==
  /\ pc' = "ended"
  /\ outcome' = how
  /\ removing' = FALSE

\* The catch() handler of run(): the report becomes that of an error, and is
\* handed to dumpReport().  No error that gets here carries a downloadUrl:
\* download() replaces those of the mirrors by one that has none.
Fails ==
  /\ pc' = "reporting"
  /\ report' = [report EXCEPT !.status = "error"]

-----------------------------------------------------------------------------
(* run(), up to its first promise                                          *)

\* Nothing is installed and nothing is reported, and npm goes on.
Refused(h, e) ==
  \/ "skip" \in e
  \/ /\ ~hasLocalBuild
     /\ \/ ~hasSupportedArchitecture(h.arch)
        \/ ~hasSupportedOs(h.platform)
        \/ agentArchitecture(h, e) \notin DOMAIN mapArchitecture

\* TRIPLES has no entry for a platform that passed the two checks: reading
\* metadata.filename throws, outside any promise.
Unknown(h, e) ==
  /\ ~hasLocalBuild
  /\ Triple(createReport(h, e, "remote")) \notin TRIPLES

\* node-gyp rebuild removes the build before it makes a new one.  Where node-gyp
\* cannot be started, or is stopped before that, the earlier build stays.
StartBuild ==
  /\ pc' = "building"
  /\ built' \in {built, None}

StartDownload ==
  /\ pc' = "downloading"
  /\ mirrors' = Tail(MIRRORS)
  /\ asked' = <<Head(MIRRORS)>>
  /\ UNCHANGED built

RunRefused(h, e) ==
  /\ Refused(h, e)
  /\ Ends("refused")
  /\ report' = None
  /\ UNCHANGED <<built, mirrors, asked>>

RunThrows(h, e) ==
  /\ ~Refused(h, e)
  /\ Unknown(h, e)
  /\ Ends("threw")
  /\ report' = None
  /\ UNCHANGED <<built, mirrors, asked>>

RunFailsOnPurpose(h, e) ==
  /\ ~Refused(h, e) /\ ~Unknown(h, e)
  /\ "fail" \in e
  /\ pc' = "reporting"
  /\ report' = [createReport(h, e, IF hasLocalBuild THEN "local" ELSE "remote")
                  EXCEPT !.status = "error"]
  /\ outcome' = "running"
  /\ UNCHANGED <<built, mirrors, asked, removing>>

RunRemote(h, e) ==
  /\ ~Refused(h, e) /\ ~Unknown(h, e)
  /\ "fail" \notin e
  /\ ~hasLocalBuild
  /\ StartDownload
  /\ report' = createReport(h, e, "remote")
  /\ outcome' = "running"
  /\ UNCHANGED removing

\* The files an earlier run unpacked are a local build like any other.
RunLocal(h, e) ==
  /\ ~Refused(h, e)
  /\ "fail" \notin e
  /\ hasLocalBuild
  /\ StartBuild
  /\ report' = [createReport(h, e, "local") EXCEPT !.status = "unknown"]
  /\ outcome' = "running"
  /\ UNCHANGED <<mirrors, asked, removing>>

Run(h, e) ==
  /\ pc = "ended"
  /\ runs < MaxRuns
  /\ runs' = runs + 1
  /\ host' = h
  /\ env' = e
  /\ \/ RunRefused(h, e)
     \/ RunThrows(h, e)
     \/ RunFailsOnPurpose(h, e)
     \/ RunRemote(h, e)
     \/ RunLocal(h, e)
  /\ UNCHANGED <<archive, unpacked, disk>>

-----------------------------------------------------------------------------
(* download() and downloadFromMirror()                                     *)

\* Slip: the error of the first mirror ends the installation.
NextMirrorNever ==
  /\ Fails
  /\ UNCHANGED <<mirrors, asked>>

\* Slip: the mirror that failed is not taken off the list.
NextMirrorSame ==
  /\ pc' = "downloading"
  /\ UNCHANGED <<mirrors, asked, report>>

\* A mirror that failed is followed by the next one, if there is any.
NextMirror ==
  \/ /\ mirrors = <<>>
     /\ Fails
     /\ UNCHANGED <<mirrors, asked>>
  \/ /\ mirrors # <<>>
     /\ pc' = "downloading"
     /\ asked' = Append(asked, Head(mirrors))
     /\ mirrors' = Tail(mirrors)
     /\ UNCHANGED report

Continues == UNCHANGED <<host, env, outcome, runs>>

\* Another status than 200, no connection, or a file that cannot be opened.
MirrorFails ==
  /\ pc = "downloading"
  /\ NextMirror
  /\ Continues /\ UNCHANGED <<directory, removing>>

\* A redirect to something that is not a URL throws in a callback.
RedirectThrows ==
  /\ pc = "downloading"
  /\ Ends("threw")
  /\ UNCHANGED <<process, directory, runs>>

\* The response is piped to the file, which is truncated.
StreamStarts ==
  /\ pc = "downloading"
  /\ pc' = "saving"
  /\ archive' = "partial"
  /\ Continues
  /\ UNCHANGED <<mirrors, asked, report, unpacked, built, disk, removing>>

FileFails ==
  /\ pc = "saving"
  /\ NextMirror
  /\ Continues /\ UNCHANGED <<directory, removing>>

\* "finish": all of the response is in the file, whatever the mirror sent.
FileFinishes(content) ==
  /\ pc = "saving"
  /\ pc' = "verifying"
  /\ archive' = content
  /\ report' = [report EXCEPT !.download_url = asked[Len(asked)]]
  /\ Continues
  /\ UNCHANGED <<mirrors, asked, unpacked, built, disk, removing>>

\* The connection is lost: nothing listens to the "aborted" of the response,
\* the file is never finished, and a process with nothing to wait for exits.
StreamCut ==
  /\ pc = "saving"
  /\ Ends("drained")
  /\ UNCHANGED <<process, directory, runs>>

-----------------------------------------------------------------------------
(* verify(), extract() and removeFile()                                    *)

\* Slip: the checksum is noted and not compared.
VerifyAnything ==
  /\ pc = "verifying"
  /\ pc' = "extracting"
  /\ report' = [report EXCEPT !.checksum = "verified"]
  /\ Continues /\ UNCHANGED <<mirrors, asked, directory, removing>>

Verify ==
  /\ pc = "verifying"
  /\ \/ /\ archive = "whole"
        /\ pc' = "extracting"
        /\ report' = [report EXCEPT !.checksum = "verified"]
     \/ /\ archive # "whole"
        /\ Fails
  /\ Continues /\ UNCHANGED <<mirrors, asked, directory, removing>>

\* Nothing listens to the "error" of the stream that reads the archive.
VerifyThrows ==
  /\ pc = "verifying"
  /\ Ends("threw")
  /\ UNCHANGED <<process, directory, runs>>

\* What tar makes of the archive: all of its files, or some of each of the
\* files hasLocalBuild looks for.
Files(whole) ==
  [of |-> Triple(report), whole |-> whole, genuine |-> archive = "whole"]

Extract ==
  /\ pc = "extracting"
  /\ unpacked' = Files(TRUE)
  /\ removing' = TRUE
  /\ report' = [report EXCEPT !.status = "unknown"]
  /\ StartBuild
  /\ Continues /\ UNCHANGED <<mirrors, asked, archive, disk>>

ExtractFails ==
  /\ pc = "extracting"
  /\ unpacked' \in {unpacked, Files(FALSE)}
  /\ Fails
  /\ Continues /\ UNCHANGED <<mirrors, asked, archive, built, disk, removing>>

\* removeFile() returns no promise: the installation goes on meanwhile.
RemoveFile ==
  /\ removing
  /\ removing' = FALSE
  /\ archive' = None
  /\ Continues
  /\ UNCHANGED <<pc, mirrors, asked, report, unpacked, built, disk>>

\* So nothing handles its rejection either, and Node.js ends the process.
RemoveFileThrows ==
  /\ removing
  /\ Ends("threw")
  /\ UNCHANGED <<process, directory, runs>>

-----------------------------------------------------------------------------
(* install() and dumpReport()                                              *)

\* External: the linker wants a library for the machine it links on, but does
\* not tell one libc from another.
Links(files, h) ==
  /\ files.whole
  /\ files.of[1] = mapArchitecture[h.arch]
  /\ \/ files.of[2] = h.platform
     \/ h.platform = "linux" /\ files.of[2] = "linux-musl"

BuildSucceeds ==
  /\ pc = "building"
  /\ host.arch \in DOMAIN mapArchitecture
  /\ Links(unpacked, host)
  /\ built' = [files |-> unpacked, host |-> host]
  /\ report' = [report EXCEPT !.status = "success"]
  /\ pc' = "reporting"
  /\ Continues /\ UNCHANGED <<mirrors, asked, archive, unpacked, disk, removing>>

\* Slip: the error of node-gyp is not passed on.
BuildFailsUnnoticed ==
  /\ pc = "building"
  /\ pc' = "reporting"
  /\ Continues /\ UNCHANGED <<mirrors, asked, report, directory, removing>>

BuildFails ==
  /\ pc = "building"
  /\ Fails
  /\ Continues /\ UNCHANGED <<mirrors, asked, directory, removing>>

\* process.exit(0) does not wait for a removal that is under way.
DumpReport ==
  /\ pc = "reporting"
  /\ disk' = report
  /\ Ends("reported")
  /\ UNCHANGED <<process, archive, unpacked, built, runs>>

\* The error of writeFile() is ignored; the file is as it was, or truncated.
DumpReportFails ==
  /\ pc = "reporting"
  /\ disk' \in {disk, None}
  /\ Ends("unwritten")
  /\ UNCHANGED <<process, archive, unpacked, built, runs>>

\* The process is killed: tar and node-gyp with it.
Killed ==
  /\ pc # "ended"
  /\ Ends("killed")
  /\ \/ pc = "extracting" /\ unpacked' \in {unpacked, Files(FALSE)}
     \/ pc # "extracting" /\ UNCHANGED unpacked
  /\ UNCHANGED <<process, archive, built, disk, runs>>

-----------------------------------------------------------------------------
Callbacks ==
  \/ MirrorFails \/ RedirectThrows \/ StreamStarts
  \/ FileFails \/ (\E c \in {"whole", "corrupt"} : FileFinishes(c)) \/ StreamCut
  \/ Verify \/ VerifyThrows
  \/ Extract \/ ExtractFails
  \/ BuildSucceeds \/ BuildFails
  \/ DumpReport \/ DumpReportFails

Next ==
  \/ \E h \in Hosts, e \in Envs : Run(h, e)
  \/ Callbacks
  \/ RemoveFile \/ RemoveFileThrows
  \/ Killed

Spec == Init /\ [][Next]_vars

\* Every request, stream and child process calls back in the end, or the
\* process is left with nothing to wait for.
FairSpec == Spec /\ WF_vars(Callbacks)
-----------------------------------------------------------------------------
(* What there may be on the disk                                           *)

Unpackings == [of : TRIPLES, whole : BOOLEAN, genuine : BOOLEAN]

Builds == [files : Unpackings, host : Hosts]

ASSUME NoneAssumption == None \notin Unpackings /\ None \notin Builds

-----------------------------------------------------------------------------
(* extension_wrapper.ts                                                    *)

\* External: the extension can be required where the host and the libc are
\* those it was built for.
isLoaded(h) ==
  /\ built # None
  /\ built.host.arch = h.arch /\ built.host.platform = h.platform
  /\ built.files.of[2] = processTarget(h)

-----------------------------------------------------------------------------
(* Safety                                                                  *)

Reports ==
  [status : {"incomplete", "unknown", "success", "error"},
   checksum : {"unverified", "verified"},
   download_url : {MIRRORS[i] : i \in DOMAIN MIRRORS} \cup {None},
   architecture : {h.arch : h \in Hosts} \cup {"arm64"},
   target : {h.platform : h \in Hosts} \cup {"linux", "linux-musl"},
   source : {"local", "remote"}]

\* The type of every variable: there is a report from the moment run() has
\* found something to install.
TypeOK ==
  /\ pc \in {"downloading", "saving", "verifying", "extracting", "building",
             "reporting", "ended"}
  /\ host \in Hosts
  /\ env \in Envs
  /\ report \in Reports \/ (pc = "ended" /\ report = None)
  /\ archive \in {None, "partial", "corrupt", "whole"}
  /\ removing \in BOOLEAN
  /\ removing => pc # "ended"
  /\ unpacked \in Unpackings \cup {None}
  /\ built \in Builds \cup {None}
  /\ disk \in Reports \cup {None}
  /\ outcome \in {"not run", "running", "refused", "threw", "drained",
                  "reported", "unwritten", "killed"}
  /\ runs \in 0..MaxRuns

\* What a run reports is its outcome, and not how far it had come: "success"
\* when the extension was linked on this host from the files in ext/.
ReportTellsTruth ==
  outcome = "reported" =>
    /\ disk.status \in {"success", "error"}
    /\ disk.status = "success" => built = [files |-> unpacked, host |-> host]

\* After a successful installation from a mirror, with no override, the
\* extension loads where it was installed.
RemoteInstallLoads ==
  /\ outcome = "reported"
  /\ disk.status = "success" /\ disk.source = "remote"
  /\ env \cap {"musl", "linux arm"} = {}
  => disk.checksum = "verified" /\ isLoaded(host)

\* Whatever the mirrors send and wherever earlier runs were interrupted, what
\* is unpacked and linked comes from archives with the right checksum.
NothingUnverified ==
  /\ unpacked # None => unpacked.genuine
  /\ built # None => built.files.genuine

\* An installation from the mirrors that fails with nothing downloaded has
\* asked each of them, once and in turn.
GivesUpLast ==
  pc = "reporting" /\ report.source = "remote" /\ report.status = "error"
    /\ report.download_url = None /\ "fail" \notin env
  => asked = MIRRORS

-----------------------------------------------------------------------------
(* Liveness                                                                *)

\* The installer does not hold up npm for ever, whichever mirrors fail.
InstallEnds == pc # "ended" ~> pc = "ended"
=============================================================================
