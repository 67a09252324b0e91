---------------------------- MODULE MCInstaller ----------------------------
(***************************************************************************)
(* Instances of Installer for TLC: one directory, hosts that differ in     *)
(* what the installer looks at, and two mirrors.                           *)
(***************************************************************************)
EXTENDS Installer

CONSTANTS fastly, cloudfront

TwoMirrors == <<cloudfront, fastly>>

Host(arch, platform, musl) ==
  [arch |-> arch, platform |-> platform, musl |-> musl]

\* Two on which everything works but that differ in their libc, another
\* architecture, and three that are turned away at the different checks.
SixHosts ==
  {Host("x64", "linux", FALSE), Host("x64", "linux", TRUE),
   Host("arm64", "linux", FALSE), Host("x32", "linux", FALSE),
   Host("ia32", "linux", FALSE), Host("x64", "win32", FALSE)}

\* FreeBSD on a 64-bit ARM passes the checks and has no archive.
WithFreeBSD == SixHosts \cup {Host("arm64", "freebsd", FALSE)}

AllEnvs == {{}, {"skip"}, {"fail"}, {"musl"}, {"linux arm"}, {"musl", "linux arm"}}
=============================================================================
