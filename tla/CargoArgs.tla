------------------------------ MODULE CargoArgs -------------------------------
(***************************************************************************)
(* The command line: what cargo-cage reads from it, what it passes on, and *)
(* what Cargo reads.  Three loops of the program look for --manifest-path  *)
(* and --target-dir on their own, and Cargo's parser is a fourth.          *)
(*                                                                         *)
(* An argument is a record: an option by itself, an option with "=" and a  *)
(* value, or any other word.  Words that begin with "-" are of kind        *)
(* "option", all others of kind "word".                                    *)
(***************************************************************************)
EXTENDS Integers, Sequences, FiniteSets

\* A path as it is written: absolute, or relative to a working directory.
Abs(p) == [root |-> TRUE, names |-> p]
Rel(p) == [root |-> FALSE, names |-> p]
Empty == Rel(<< >>)

NoPath == Rel(<<"no such path">>)
Word(w)       == [kind |-> "word", value |-> Rel(<<w>>)]
Option(w)     == [kind |-> "option", value |-> Rel(<<w>>)]
Value(v)      == [kind |-> "word", value |-> v]
TargetDir     == [kind |-> "target", value |-> NoPath]
ManifestPath  == [kind |-> "manifest", value |-> NoPath]
TargetIs(v)   == [kind |-> "target=", value |-> v]
ManifestIs(v) == [kind |-> "manifest=", value |-> v]
EndOfOptions  == [kind |-> "end", value |-> NoPath]

\* The path an argument is when an option before it takes it for its value.
AsPath(arg) ==
  CASE arg.kind = "target"   -> Rel(<<"--target-dir">>)
    [] arg.kind = "manifest" -> Rel(<<"--manifest-path">>)
    [] arg.kind = "end"      -> Rel(<<"--">>)
    [] OTHER                 -> arg.value

\* PathBuf::join with a base that is absolute
Join(base, v) == IF v.root THEN v.names ELSE base \o v.names

-----------------------------------------------------------------------------
(* parse_invocation *)

Is(args, i, w) == i <= Len(args) /\ args[i].value = Rel(<<w>>) /\
                  args[i].kind \in {"word", "option"}
Commands == {"build", "check", "test", "doc"}
From(args, i) == SubSeq(args, i, Len(args))

Usage == [is |-> "usage"]
Help == [is |-> "help"]
Doctor(verbose) == [is |-> "doctor", verbose |-> verbose]
Cargo(command, args, reuse) ==
  [is |-> "cargo", command |-> command, args |-> args, reuse |-> reuse]

\* i is where the command is expected.
Invocation(args, i, reuse) ==
  IF i > Len(args) THEN Usage
  ELSE IF Is(args, i, "--help") \/ Is(args, i, "-h") THEN Help
  ELSE IF Is(args, i, "doctor") THEN
    LET rest == From(args, i + 1) IN
    IF reuse \/ Len(rest) > 1 THEN Usage
    ELSE IF rest = << >> THEN Doctor(FALSE)
    ELSE IF Is(rest, 1, "--verbose") \/ Is(rest, 1, "-v") THEN Doctor(TRUE)
    ELSE IF Is(rest, 1, "--help") \/ Is(rest, 1, "-h") THEN Help
    ELSE Usage
  ELSE IF \E c \in Commands : Is(args, i, c)
       THEN Cargo(args[i].value.names[1], From(args, i + 1), reuse)
       ELSE Usage
parse_invocation(args) ==
  IF Is(args, 1, "cage") THEN Usage
  ELSE IF Is(args, 1, "--reuse-target") THEN Invocation(args, 2, TRUE)
  ELSE Invocation(args, 1, FALSE)

-----------------------------------------------------------------------------
(* manifest_path_arg and target_dir_arg *)

\* How a loop that knows the options in Known meets each argument: it reads
\* it, has taken it for the value of the one before, or has stopped at "--".
Roles(args, Known) ==
  LET role[i \in 0..Len(args)] ==
        IF i <= 1 THEN "read"
        ELSE IF role[i - 1] = "read" /\ args[i - 1].kind = "end" THEN "rest"
        ELSE IF role[i - 1] = "rest" THEN "rest"
        ELSE IF role[i - 1] = "read" /\ args[i - 1].kind \in Known THEN "value"
        ELSE "read"
  IN  role
ReadsAt(args, Known, i, kind) ==
  i \in DOMAIN args /\ Roles(args, Known)[i] = "read" /\ args[i].kind = kind

\* An option at the very end has no value: the loop gives up.
Lacking(args, option) == ReadsAt(args, {option}, Len(args), option)
\* The last occurrence counts.
WithEquals(option) == IF option = "target" THEN "target=" ELSE "manifest="
Occurrences(args, option) ==
  {i \in DOMAIN args : ReadsAt(args, {option}, i, option)
                         \/ ReadsAt(args, {option}, i, WithEquals(option))}
LastValue(args, option) ==
  LET last == CHOOSE i \in Occurrences(args, option) :
                \A j \in Occurrences(args, option) : j <= i
  IN  IF Occurrences(args, option) = {} THEN NoPath
      ELSE IF args[last].kind = option THEN AsPath(args[last + 1])
      ELSE args[last].value

manifest_path_arg(args) == LastValue(args, "manifest")

\* The environment's CARGO_TARGET_DIR comes second, the workspace's own last.
target_dir_arg(args, fromEnv, cwd, workspace) ==
  LET given == LastValue(args, "target") IN
  IF given # NoPath THEN Join(cwd, given)
  ELSE IF fromEnv # NoPath THEN Join(cwd, fromEnv)
  ELSE Append(workspace, "target")

-----------------------------------------------------------------------------
(* rewrite_relative_cargo_paths *)

Both == {"target", "manifest"}

\* The argument at i, given how the loop meets it.  Only a value with "=" has
\* to be longer than the option; manifest is the caller's, made absolute.
RewrittenAlways(args, i, moved, force, target, manifest) ==
  [args[i] EXCEPT !.value =
     IF args[i].kind = "target=" THEN Abs(target) ELSE @]
Rewritten(args, i, moved, force, target, manifest) ==
  LET arg == args[i]
      role == Roles(args, Both)[i]
      isValueOf(o) == role = "value" /\ args[i - 1].kind = o
  IN
  CASE isValueOf("manifest") /\ moved /\ ~AsPath(arg).root -> Value(Abs(manifest))
    [] isValueOf("target") /\ (force \/ ~AsPath(arg).root) -> Value(Abs(target))
    [] role = "read" /\ arg.kind = "manifest=" /\ moved /\ ~arg.value.root ->
         ManifestIs(Abs(manifest))
    [] role = "read" /\ arg.kind = "target=" /\ arg.value # Empty
         /\ (force \/ ~arg.value.root) -> TargetIs(Abs(target))
    [] OTHER -> arg

rewrite_relative_cargo_paths(args, cwd, sandboxCwd, target, force) ==
  LET manifest == Join(cwd, manifest_path_arg(args)) IN
  [i \in DOMAIN args |->
     Rewritten(args, i, cwd # sandboxCwd, force, target, manifest)]

-----------------------------------------------------------------------------
(* Cargo's own reading of the arguments that follow the command *)

\* An option takes its value from the next argument, which must not look like
\* an option, and may be given once.
CargoReads(args, i, kinds) ==
  Roles(args, Both)[i] = "read" /\ args[i].kind \in kinds
CargoAccepts(args) ==
  /\ \A i \in DOMAIN args :
       CargoReads(args, i, Both) => i < Len(args) /\ args[i + 1].kind = "word"
  /\ \A o \in Both :
       Cardinality({i \in DOMAIN args : CargoReads(args, i, {o, WithEquals(o)})}) <= 1
CargoValue(args, option) ==
  IF \E i \in DOMAIN args : CargoReads(args, i, {option})
  THEN args[(CHOOSE i \in DOMAIN args : CargoReads(args, i, {option})) + 1].value
  ELSE IF \E i \in DOMAIN args : CargoReads(args, i, {WithEquals(option)})
  THEN args[CHOOSE i \in DOMAIN args : CargoReads(args, i, {WithEquals(option)})].value
  ELSE NoPath
\* What Cargo leaves to the program it runs.
CargoPassesOn(args) ==
  LET ends == {i \in DOMAIN args : CargoReads(args, i, {"end"})} IN
  IF ends = {} THEN << >> ELSE From(args, CHOOSE i \in ends : TRUE)
=============================================================================
