------------------------------- MODULE Binfmt -------------------------------
(***************************************************************************)
(* Executable formats (src/binfmt.rs): the table of magic numbers, and the *)
(* way from a path through any number of scripts to the program that runs. *)
(* A path, an argument and the head of a file are sequences of characters; *)
(* a blank stands for blanks and tabs.                                     *)
(***************************************************************************)
EXTENDS Integers, FiniteSets, Sequences, SequencesExt

CONSTANTS Bytes,              \* the characters
          Magics, Handlers,   \* what register is called with
          Images,             \* the files: [executable, head], by path
          Line,               \* the words that each script's first line means
          Starts              \* the calls of route: <<path, argv>>

ASSUME ByteAssumption ==
  /\ {"E", "#", "!"} \subseteq Bytes
  /\ Magics \subseteq Seq(Bytes)
  /\ \A p \in DOMAIN Images : Images[p].head \in Seq(Bytes)

VARIABLES binfmts,            \* BINFMTS
          entries,            \* what is registered, as a function
          exec                \* the call of route under way

binVars == <<binfmts, entries, exec>>

Tree == INSTANCE Trie

NoExec == [pc |-> "idle", path |-> <<>>, argv |-> <<>>, start |-> <<>>]

-----------------------------------------------------------------------------
(* shebang_split, one character at a time *)

SplitStart == [out |-> <<>>, buf |-> <<>>, quote |-> "none", escape |-> FALSE, started |-> FALSE]

flush(s) ==
  [s EXCEPT !.out = IF s.started /\ s.buf # <<>> THEN Append(@, s.buf) ELSE @,
            !.buf = IF s.started THEN <<>> ELSE @,
            !.started = FALSE]

SplitChar(s, ch) ==
  CASE s.escape -> [s EXCEPT !.buf = Append(@, ch), !.escape = FALSE, !.started = TRUE]
    [] ~ s.escape /\ s.quote = "none" /\ ch = " " -> flush(s)
    [] ~ s.escape /\ s.quote = "none" /\ ch \in {"'", "\""} ->
         [s EXCEPT !.quote = ch, !.started = TRUE]
    [] ~ s.escape /\ s.quote = ch -> [s EXCEPT !.quote = "none"]
    [] ~ s.escape /\ s.quote # "'" /\ ch = "\\" -> [s EXCEPT !.escape = TRUE]
    [] OTHER -> [s EXCEPT !.buf = Append(@, ch), !.started = TRUE]

shebang_split(line) == flush(FoldLeft(SplitChar, SplitStart, line)).out

\* The rest of the first line.
FirstLine(s) ==
  LET k == SelectInSeq(s, LAMBDA c : c \in {"\n", "\r"}) IN IF k = 0 THEN s ELSE SubSeq(s, 1, k - 1)

-----------------------------------------------------------------------------
(* The table *)

register(magic, handler) ==
  /\ magic # <<>>
  /\ binfmts' = Tree!insert(binfmts, magic, handler)
  /\ entries' = [m \in DOMAIN entries \cup {magic} |-> IF m = magic THEN handler ELSE entries[m]]
  /\ UNCHANGED exec

unregister(magic) ==
  /\ binfmts' = Tree!remove(binfmts, magic)
  /\ entries' = [m \in DOMAIN entries \ {magic} |-> entries[m]]
  /\ UNCHANGED exec

-----------------------------------------------------------------------------
(* route *)

route(path, argv) ==
  /\ exec.pc = "idle"
  /\ exec' = [pc |-> "route", path |-> path, argv |-> argv, start |-> <<path, argv>>]
  /\ UNCHANGED <<binfmts, entries>>

Fails(error) == exec' = [exec EXCEPT !.pc = error]

\* Mutant: the first argument is kept, as if it were not the path.
exec_shebangKeeps(head) ==
  LET args == shebang_split(FirstLine(SubSeq(head, 3, Len(head))))
      argv == args \o <<exec.path>> \o exec.argv
  IN  exec' = [exec EXCEPT !.path = argv[1], !.argv = argv]

\* The interpreter of the first line and its arguments come before the path,
\* which takes the place of argv[0]; then the interpreter is routed.
exec_shebang(head) ==
  LET args == shebang_split(FirstLine(SubSeq(head, 3, Len(head))))
      argv == args \o <<exec.path>> \o Tail(exec.argv)
  IN  exec' = [exec EXCEPT !.path = argv[1], !.argv = argv]

\* route_inner: the errors, or the handler of the longest magic in the head
route_inner ==
  LET head == Images[exec.path].head
      depth == Tree!longest_prefix(binfmts, head)
      handler == binfmts.value[SubSeq(head, 1, depth)]
  IN
  /\ exec.pc = "route"
  /\ \/ exec.path \notin DOMAIN Images /\ Fails("FsError")
     \/ /\ exec.path \in DOMAIN Images
        /\ \/ ~ Images[exec.path].executable /\ Fails("NoAccess")
           \/ Images[exec.path].executable /\ depth = -1 /\ Fails("UnsupportedBinfmt")
           \/ /\ Images[exec.path].executable /\ depth # -1
              /\ \/ handler = "elf" /\ exec' = [exec EXCEPT !.pc = "run"]
                 \/ handler = "shebang" /\ exec_shebang(head)
  /\ UNCHANGED <<binfmts, entries>>

\* The call returns.
Routed ==
  /\ exec.pc \notin {"idle", "route"}
  /\ exec' = NoExec
  /\ UNCHANGED <<binfmts, entries>>

\* The formats that are built in.
BuiltIn == [m \in {<<"E">>, <<"#", "!">>} |-> IF m = <<"E">> THEN "elf" ELSE "shebang"]

BinInit ==
  /\ binfmts = Tree!insert(Tree!insert(Tree!new, <<"E">>, "elf"), <<"#", "!">>, "shebang")
  /\ entries = BuiltIn
  /\ exec = NoExec

BinNext ==
  \/ \E m \in Magics, h \in Handlers : register(m, h)
  \/ \E m \in Magics : unregister(m)
  \/ \E s \in Starts : route(s[1], s[2])
  \/ route_inner \/ Routed

BinSpec == BinInit /\ [][BinNext]_binVars

-----------------------------------------------------------------------------
(* Properties *)

\* The tree of the table is the function of what is registered: the counter,
\* the nodes, of which each leads to an entry, and the longest magic that a
\* file's head begins with, whatever was registered and removed before (Trie:
\* insert, remove with its pruning, longest_prefix).
TableIsMap ==
  /\ binfmts.value = entries
  /\ binfmts.len = Cardinality(DOMAIN entries)
  /\ binfmts.nodes = {<<>>} \cup UNION {Prefixes(m) : m \in DOMAIN entries}
  /\ \A p \in DOMAIN Images :
       LET head == Images[p].head
           hits == {m \in DOMAIN entries : IsPrefix(m, head)}
           depth == Tree!longest_prefix(binfmts, head)
       IN  IF hits = {} THEN depth = -1
           ELSE SubSeq(head, 1, depth) \in hits /\ \A m \in hits : Len(m) =< depth

=============================================================================
