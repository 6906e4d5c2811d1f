----------------------------- MODULE Confinement -----------------------------
(***************************************************************************)
(* What a command may read and write under each backend of                 *)
(* ironclad/tool_runtime/backends (bwrap.py, seatbelt.py, docker.py), and  *)
(* when a backend counts as ready; and which spellings of a path the file  *)
(* tools take for a protected one (files.py).                              *)
(*                                                                         *)
(* Nothing here has a state: a disk is what the mounts of one command      *)
(* find.  A place stands for everything below it.                          *)
(***************************************************************************)
EXTENDS Naturals

Backend == {"bwrap", "seatbelt", "docker"}
Named == {"git", "nedster"}  \* PROTECTED: .git and .nedster of the root
Nested == {"nested"}  \* what has one of their names further down, such as a submodule's .git
\* in the project, too: the directory a .git file names, the common directory of a worktree, and
\* where a dangling .git or .nedster leads
Project == Named \cup Nested \cup {"source", "gitdir", "common", "target"}
\* elsewhere: a gitdir or a common directory outside the project
Home == {"home", "toolchain", "credentials", "elsewhere"}
Place == Project \cup Home \cup {"temp", "private", "system", "devices", "image"}

\* link: dangling; named: what a .git file names as its gitdir, if anything; there: that exists;
\* common: the common directory that a gitdir names, if it does
Disk == [git : {"none", "dir", "file", "link"}, nedster : {"none", "dir", "file", "link"},
         named : {"none", "gitdir", "elsewhere"}, there : BOOLEAN,
         common : {"none", "common", "elsewhere"}]

Pointed(d) == IF d.git = "file" THEN {d.named} \ {"none"} ELSE {}

-----------------------------------------------------------------------------
(* The mounts of bwrap and docker *)

\* protected_paths
ProtectedPaths(d) ==
  {n \in Named : d[n] = "dir"} \cup {n \in {"git"} : d[n] = "file"}
    \cup IF d.there THEN Pointed(d) ELSE {}

\* protected_mounts makes a missing .nedster, which may fail
Prepared(d) == IF d.nedster = "none" THEN {d, [d EXCEPT !.nedster = "dir"]} ELSE {d}

\* the places mounted read-only: a file as it is, over a missing one an empty directory.  Neither
\* the common directory of a worktree is among them, nor a gitdir that is yet to be made.
ProtectedMounts(d) == ProtectedPaths(d) \cup Named

\* a dangling link cannot be covered: ValueError, and the command is not run
Uncoverable(d) == \E n \in Named : d[n] = "link"

\* a later mount covers an earlier one; the interpreter's prefix may be below the home directory
BwrapGrant(d) ==
  [read |-> {"system", "devices", "temp", "toolchain"} \cup Project \cup ProtectedMounts(d),
   write |-> (Project \cup {"temp", "devices"}) \ ProtectedMounts(d)]

\* names of the container's paths that a mount of p covers, on a host that folds case or not
Aliases(p, folds) == IF folds /\ p \in Named THEN {"own", "other"} ELSE {"own"}

\* /workspace and a temp directory of its own; a gitdir outside is not mounted at all.  A host
\* that folds case reaches a place by another spelling, too.
DockerGrant(d, folds) ==
  LET Open(p, spelling) ==
        p \in Project /\ ~(p \in ProtectedMounts(d) /\ spelling \in Aliases(p, folds))
  IN [read |-> Project \cup {"image"},
      write |-> {p \in Project : Open(p, "own") \/ (folds /\ Open(p, "other"))}]

-----------------------------------------------------------------------------
(* The profile of Seatbelt: of the rules that match, the last one counts *)

\* the denials are about the paths themselves: where a dangling link leads to stays writable
SeatbeltGrant(d) ==
  [read |-> ((Place \ Home) \cup Project \cup {"temp", "toolchain"}) \ {"credentials"},
   write |-> (Project \cup {"temp", "devices"}) \ (ProtectedPaths(d) \cup Named)]

\* wrap: every grant a command can be started with, none if it is refused
Wrapped(b, d, folds) ==
  CASE b = "seatbelt" -> {SeatbeltGrant(d)}
    [] b = "bwrap" /\ ~Uncoverable(d) -> {BwrapGrant(e) : e \in Prepared(d)}
    [] b = "docker" /\ ~Uncoverable(d) -> {DockerGrant(e, folds) : e \in Prepared(d)}
    [] OTHER -> {}

-----------------------------------------------------------------------------
(* The probes.  A host tells its system, which backends' binaries are      *)
(* found outside the project and whose trial run (docker: the daemon's     *)
(* answer) ends well in time, whether docker's image is there and whether  *)
(* a mount option can carry the root's name.                               *)

Host == [system : {"Linux", "Darwin", "Windows"}, found : SUBSET Backend, answers : SUBSET Backend,
         image : BOOLEAN, plainRoot : BOOLEAN]

BwrapReady(h) == h.system = "Linux" /\ "bwrap" \in h.found \cap h.answers
SeatbeltReady(h) == h.system = "Darwin" /\ "seatbelt" \in h.found \cap h.answers
PlainRoot(h) == h.plainRoot  \* mount_safe: no comma, quote or line break in the root's name
DockerReady(h) == PlainRoot(h) /\ "docker" \in h.found \cap h.answers /\ h.image

-----------------------------------------------------------------------------
(* The file tools *)

\* metadata_targets: what the two names, the .git file and the gitdir lead to, existing or not
MetadataTargets(d) ==
  {n \in Named : d[n] \in {"dir", "file"}}
    \cup (IF \E n \in Named : d[n] = "link" THEN {"target"} ELSE {})
    \cup Pointed(d)
    \cup (IF Pointed(d) # {} /\ d.there THEN {d.common} \ {"none"} ELSE {})

\* where a write may end: is_protected refuses the two names at any depth and under every spelling
\* (other case, trailing dots or blanks, NAME:stream, a short name such as NEDSTE~1), on every system
FileToolsWrite(d) == Project \ (Named \cup Nested \cup MetadataTargets(d))

-----------------------------------------------------------------------------
(* Properties *)

\* what of the metadata each backend leaves to a command: a common directory and a gitdir yet to
\* be made; under Seatbelt the target of a dangling link; under docker on a host that folds case
\* a gitdir in another spelling than the mounted one
Unkept(b, d, folds) ==
  {"common"}
    \cup (IF d.there /\ ~(b = "docker" /\ folds) THEN {} ELSE {"gitdir"})
    \cup (IF b = "seatbelt" THEN {"target"} ELSE {})

\* Whatever .git and .nedster are when a command is wrapped (missing, files, directories, a
\* worktree's pointer), no backend lets it write them or anything outside the project and its
\* own temp directory, under any spelling, or read the user's files; of what they lead to, which
\* the file tools keep, all is kept but what Unkept names.
Confines ==
  \A b \in Backend, d \in Disk, folds \in BOOLEAN : \A g \in Wrapped(b, d, folds) :
    /\ g.write \cap Named = {}
    /\ g.write \cap MetadataTargets(d) \subseteq Unkept(b, d, folds)
    /\ g.write \subseteq Project \cup {"temp", "devices"}
    /\ {"home", "credentials"} \cap g.read = {}

\* The file tools are no way around a sandbox: what they may write, a command may write, too.
\* (Not the other way round: a command may write a submodule's .git, which the tools refuse.)
FileToolsWithin ==
  \A b \in Backend, d \in Disk, folds \in BOOLEAN : \A g \in Wrapped(b, d, folds) :
    FileToolsWrite(d) \subseteq g.write
=============================================================================
