----------------------------- MODULE MCTracing -----------------------------
(* The instances of Tracing that TLC checks: an API of one version, of two  *)
(* minor versions with the newer or the older one at the top of the tree    *)
(* and the other nested in a library or in this package, and of two that    *)
(* differ in the patch; with a package of OpenTelemetry and another of      *)
(* which two versions are installed, one of them at the top or not, or both *)
(* under two names.                                                         *)
EXTENDS Tracing

MCApi == "@opentelemetry/api"
Core == "@opentelemetry/core"

MCOpenTelemetry == {MCApi, Core}

Copy(path, name, minor, patch) ==
  [path |-> path, name |-> name, version |-> <<1, minor, patch>>]

Top(name, minor, patch) == Copy(<<name>>, name, minor, patch)
Nested(dep, name, minor, patch) == Copy(<<dep, name>>, name, minor, patch)

Hoisted == Top(MCApi, 9, 1)

\* Two versions at the top, one of them under another name.
Aliases == {Hoisted, Top(Core, 2, 0), Copy(<<"core-1">>, Core, 1, 0)}

MCTrees ==
  {{Hoisted, Top(Core, 2, 0), Nested("old", Core, 0, 0)},
   {Hoisted, Nested("lib", Core, 1, 0), Nested("app", Core, 2, 0)},
   {Hoisted, Nested("lib", MCApi, 8, 0), Top("debug", 2, 0), Nested("lib", "debug", 1, 0)},
   {Hoisted, Nested("lib", MCApi, 10, 0)},
   {Hoisted, Nested("@appsignal/nodejs", MCApi, 10, 0)},
   {Hoisted, Nested("lib", MCApi, 9, 0), Top("debug", 2, 0), Nested("lib", "debug", 1, 0)},
   Aliases \cup {Nested("old", Core, 1, 0)}}

MCAllowed == {[package |-> Core, cause |-> "old"]}
=============================================================================
