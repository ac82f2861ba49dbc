------------------------------- MODULE FileUtil -------------------------------
(***************************************************************************)
(* CreateDirectory (base/file/file_util.cpp), with which SqliteHelper and  *)
(* Log make their directories: the path is split into components, and      *)
(* every missing directory on the way is made.  Other processes create and *)
(* remove files and directories meanwhile, and opendir and mkdir may fail  *)
(* for other reasons (no permission, no descriptor left).  A path is a C   *)
(* string: the characters after its NUL belong to something else.          *)
(***************************************************************************)
EXTENDS Naturals, Sequences

CONSTANTS Names,      \* the characters of names
          MaxPath,    \* bound: length of a path
          MaxOthers,  \* bound: changes made by other processes
          MaxErrors   \* bound: failures of opendir and mkdir

VARIABLES path,       \* the argument
          beyond,     \* what follows its NUL in memory
          dirs,       \* locations that are directories
          files,      \* locations that are files
          at,         \* index of the prefix being made, 0 before the call
          step,       \* "exist", "mkdir", "again" or "returned"
          result,
          made,       \* history: directories that this call made
          others, errors

fileVars == <<path, beyond, dirs, files, at, step, result, made, others, errors>>

Sep == "/"
Nul == "NUL"

ASSUME FileAssumption ==
    /\ Sep \notin Names /\ Nul \notin Names
    /\ MaxPath \in Nat /\ MaxOthers \in Nat /\ MaxErrors \in Nat

-----------------------------------------------------------------------------
\* ParsePathComponents: a component runs to the next separator or NUL; then
\* one character is skipped, whichever of the two it is, and all separators
\* after it.  Memory past what is modelled holds NULs.

Memory == path \o << Nul >> \o beyond
CharAt(i) == IF i <= Len(Memory) THEN Memory[i] ELSE Nul
FirstFrom(i, stop) == CHOOSE j \in i .. Len(Memory) + 2 :
                          stop[j] /\ \A k \in i .. j - 1 : ~stop[k]
Positions == 1 .. Len(Memory) + 2
Stops == [j \in Positions |-> CharAt(j) \in {Sep, Nul}]
Others == [j \in Positions |-> CharAt(j) # Sep]

\* One turn of the loop: the component that begins at next.
Turn(t) ==
    LET e == FirstFrom(t.next, Stops)
        name == SubSeq(Memory, t.next, e - 1)
    IN  IF CharAt(t.next) = Nul THEN t
        ELSE [next |-> FirstFrom(e + 1, Others),
              components |-> Append(t.components,
                                    IF CharAt(e) = Sep THEN Append(name, Sep) ELSE name)]

Turns(n) ==
    LET t[k \in 0 .. n] ==
            IF k = 0 THEN [next |-> 1, components |-> << >>] ELSE Turn(t[k - 1])
    IN  t[n]

Components == Turns(Len(Memory)).components

\* The first n of the components, joined.
Joined(components, n) ==
    LET j[k \in 0 .. n] == IF k = 0 THEN << >> ELSE j[k - 1] \o components[k]
    IN  j[n]

\* What CreateDirectory passes to opendir and mkdir.
Subpaths == [n \in DOMAIN Components |-> Joined(Components, n)]

-----------------------------------------------------------------------------
\* The file system: the place a path names, as the names it passes through.

\* Where one character more leads: a separator leads nowhere, but for the
\* first, which is the root; behind one a name begins, and others lengthen it.
Further(l, p, n) ==
    IF p[n] = Sep THEN IF n = 1 THEN << <<Sep>> >> ELSE l
    ELSE IF n = 1 \/ p[n - 1] = Sep THEN Append(l, <<p[n]>>)
    ELSE [l EXCEPT ![Len(l)] = Append(@, p[n])]

Passed(p, n) ==
    LET l[k \in 0 .. n] == IF k = 0 THEN << >> ELSE Further(l[k - 1], p, k)
    IN  l[n]

Location(p) == Passed(p, Len(p))

\* Every directory on the way to location l, l included.
Ways(l) == {SubSeq(l, 1, n) : n \in 1 .. Len(l)}
Exists(l) == l \in dirs \cup files
ParentIsDir(l) == Len(l) <= 1 \/ SubSeq(l, 1, Len(l) - 1) \in dirs

Paths == UNION {[1 .. n -> Names \cup {Sep}] : n \in 0 .. MaxPath}
Beyonds == {<<Nul>>} \cup {<<c, Nul>> : c \in Names \cup {Sep}}

FileInit ==
    /\ path \in Paths
    /\ beyond \in Beyonds
    /\ files \in {{}} \cup {{<< <<c>> >>} : c \in Names}
    /\ dirs = {<< <<Sep>> >>}
    /\ at = 0 /\ step = "exist" /\ result = FALSE
    /\ made = {}
    /\ others = 0 /\ errors = 0

Here == Location(Subpaths[at])
Return(r) == step' = "returned" /\ result' = r /\ UNCHANGED at
Continue ==
    IF at = Len(Subpaths) THEN Return(TRUE)
    ELSE at' = at + 1 /\ step' = "exist" /\ UNCHANGED result

\* CreateDirectory is called: nothing to do for an empty path.
Split ==
    /\ at = 0 /\ step = "exist"
    /\ IF Subpaths = << >> THEN Return(FALSE)
       ELSE at' = 1 /\ UNCHANGED <<step, result>>
    /\ UNCHANGED <<path, beyond, dirs, files, made, others, errors>>

\* FilePathIsExist(i, true): opendir succeeds, which it does only on a
\* directory; that it cannot open one that is there is an error.
Opened == Here \in dirs /\ Continue /\ UNCHANGED errors
NotOpened ==
    \/ Here \notin dirs /\ UNCHANGED errors
    \/ Here \in dirs /\ errors < MaxErrors /\ errors' = errors + 1

Exist ==
    /\ at > 0 /\ step = "exist"
    /\ \/ Opened
       \/ NotOpened /\ step' = "mkdir" /\ UNCHANGED <<at, result>>
    /\ UNCHANGED <<path, beyond, dirs, files, made, others>>

Mkdir ==
    /\ step = "mkdir"
    /\ IF ~Exists(Here) /\ ParentIsDir(Here)
       THEN \/ /\ dirs' = dirs \cup {Here}
               /\ made' = made \cup {Here}
               /\ Continue
               /\ UNCHANGED errors
            \/ /\ errors < MaxErrors
               /\ errors' = errors + 1
               /\ step' = "again"
               /\ UNCHANGED <<dirs, made, at, result>>
       ELSE step' = "again" /\ UNCHANGED <<dirs, made, at, result, errors>>
    /\ UNCHANGED <<path, beyond, files, others>>

\* Seeded fault: mkdir's failure is not looked into.
AgainFails ==
    /\ step = "again"
    /\ Return(FALSE)
    /\ UNCHANGED <<path, beyond, dirs, files, made, others, errors>>

\* mkdir failed: it does not matter if the directory is there now.
Again ==
    /\ step = "again"
    /\ Opened \/ (NotOpened /\ Return(FALSE))
    /\ UNCHANGED <<path, beyond, dirs, files, made, others>>

\* Another process makes a directory or a file on the way, or removes one.
Other(l) ==
    /\ step # "returned"
    /\ others < MaxOthers
    /\ others' = others + 1
    /\ Len(l) > 0 /\ l # << <<Sep>> >>
    /\ \/ ~Exists(l) /\ ParentIsDir(l) /\ dirs' = dirs \cup {l}
          /\ UNCHANGED files
       \/ ~Exists(l) /\ ParentIsDir(l) /\ files' = files \cup {l}
          /\ UNCHANGED dirs
       \/ Exists(l) /\ (\A m \in dirs \cup files : l \in Ways(m) => m = l)
          /\ dirs' = dirs \ {l} /\ files' = files \ {l}
    /\ UNCHANGED <<path, beyond, at, step, result, made, errors>>

FileNext ==
    \/ Split \/ Exist \/ Mkdir \/ Again
    \/ \E l \in Ways(Location(path)) : Other(l)

FileSpec == FileInit /\ [][FileNext]_fileVars

-----------------------------------------------------------------------------
\* A path that ends in its separator makes the directories on its way and no
\* others.  Without one the split steps over the NUL ("logs", which Log asks
\* for, is such a path): directories elsewhere come from a character there.
\* True is returned only when every directory of the path is there, unless
\* another process interfered; false only for an empty path, an error, an
\* interference, a file in the way or a character past the end.
PathMade ==
    LET own == Ways(Location(path))
        overread == path # << >> /\ path[Len(path)] # Sep /\ beyond[1] # Nul
    IN  /\ ~overread => made \subseteq own
        /\ step = "returned" /\ result /\ others = 0 => own \subseteq dirs
        /\ step = "returned" /\ ~result =>
              \/ path = << >> \/ overread \/ errors > 0
              \/ others > 0 /\ (own \ dirs # {})
              \/ files \cap own # {}
==============================================================================
