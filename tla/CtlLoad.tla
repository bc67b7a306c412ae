------------------------------- MODULE CtlLoad -------------------------------
(***************************************************************************)
(* tool/iwordctl.c, the command `load', in front of iword_load (HashList). *)
(* With one argument the file is loaded as it is.  With more, options like *)
(* -2 or -spam set the key for the files that come after them, and all     *)
(* files are copied into one temporary file, with the key put behind every *)
(* line.  Nobody else sees that file, so it is made in the initial state.  *)
(* A file that cannot be opened ends the command: that is HashList's Fail. *)
(***************************************************************************)
EXTENDS HashList, SequencesExt

CONSTANTS
  Commands,           \* arguments of load: sequences of [file], [key] and [other] options
  KeyChar             \* the character q + '0' of each key q

IsFile(a) == "file" \in DOMAIN a
IsKey(a)  == "key" \in DOMAIN a         \* -spam is 2, -adult 1, -word 9

ASSUME CtlAssumption ==
  /\ \A q \in DOMAIN KeyChar : KeyChar[q] \in DOMAIN Low /\ Low[KeyChar[q]] = q % 16
  /\ DEFAULT \in DOMAIN KeyChar
  /\ \A c \in Commands :
       /\ c \in Seq(ToSet(c))
       /\ \A n \in DOMAIN c :
            /\ IsFile(c[n]) => c[n].file \in Seq(DOMAIN Low)
            /\ IsKey(c[n]) => c[n].key \in DOMAIN KeyChar

VARIABLE args

\* q when argument n is reached; other options leave it alone.
KeyFor(command, n) ==
  LET ks == {m \in 1 .. n - 1 : IsKey(command[m])}
  IN  IF ks = {} THEN DEFAULT ELSE command[Max(ks)].key

\* Fault: the key is put behind the newline.
MarkedBehind(f, q) ==
  FlattenSeq([k \in DOMAIN f |-> IF f[k] = Newline THEN <<Newline, Tab, KeyChar[q]>> ELSE <<f[k]>>])

\* A copy of a file, where every newline has the key in front.
Marked(f, q) ==
  FlattenSeq([k \in DOMAIN f |-> IF f[k] = Newline THEN <<Tab, KeyChar[q], Newline>> ELSE <<f[k]>>])

Joined(command) ==
  FlattenSeq([n \in DOMAIN command |->
                IF IsFile(command[n])
                THEN Append(Marked(command[n].file, KeyFor(command, n)), Newline) ELSE <<>>])

Loaded(command) == IF Len(command) = 1 THEN command[1].file ELSE Joined(command)

\* What is loaded is a file as HashList has them.
ASSUME LoadAssumption == \A c \in Commands : Loaded(c) \in Files

CtlInit ==
  /\ args \in Commands
  /\ data = Loaded(args)
  /\ Init

CtlSpec == CtlInit /\ [][Next /\ UNCHANGED args]_<<vars, args>> /\ WF_vars(Next)

-----------------------------------------------------------------------------
(* Properties                                                              *)

\* Where the lines of a file begin that are not blank.
FileStarts(f) ==
  {p \in DOMAIN f : (p = 1 \/ f[p - 1] = Newline) /\ f[p] \notin {Tab, Newline}}

FileArgs == {n \in DOMAIN args : IsFile(args[n])}

\* The lines of all files, as the number of the argument and the place in its file,
\* and those that come before one of them.
AllLines == UNION {{n} \X FileStarts(args[n].file) : n \in FileArgs}

LineNumber(n, p) == Cardinality({l \in AllLines : l[1] < n \/ (l[1] = n /\ l[2] < p)})

\* Files that are joined keep their words apart and in order, and each word has
\* the key its file was given.  Only a word with a tab of its own, one whose line
\* is not ended by a newline, and one of a file whose key makes a newline, as 218
\* does, has another.  (A line that begins with `#' is a line with a word.)
CategoriesKept ==
  phase \notin {"parse", "failed"} /\ Len(args) > 1 =>
    \A n \in FileArgs :
      LET f == args[n].file
          q == KeyFor(args, n)
      IN  \A p \in FileStarts(f) :
            LET x == list[LineNumber(n, p) + 1]
                e == p + Len(x.word)
            IN  /\ e <= Len(f) + 1 /\ x.word = SubSeq(f, p, e - 1)
                /\ \A k \in p .. e - 1 : f[k] \notin {Tab, Newline}
                /\ e <= Len(f) => f[e] \in {Tab, Newline}
                /\ e <= Len(f) /\ f[e] = Newline /\ KeyChar[q] # Newline => x.key = q % 16
                /\ e = Len(f) + 1 => x.key = DEFAULT
=============================================================================
