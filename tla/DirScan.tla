------------------------------ MODULE DirScan ------------------------------
(***************************************************************************)
(* The directory scanner (ffsys/dirscan.h): ffdirscan_open() reads all     *)
(* entries, filters and sorts them; ffdirscanx_open() asks for each entry  *)
(* whether it is a directory and sorts again; ffdirscan_next() walks the   *)
(* result.                                                                 *)
(***************************************************************************)
EXTENDS Sequences, Integers, FiniteSets

CONSTANTS
  Spelling,  \* the bytes of each name: "A".."Z" are 65..90, "a".."z" are 97..122
  Collation, \* all names in the order that a user expects
  Matching,  \* the names that match the wildcard
  ScanFlags  \* what a user may give for flags, and "x": for ffdirscanx_open()

VARIABLES
  scan,    \* "none", "reading", "info", "listed", "walked", "failed", "closed"
  icase,   \* FFPATH_ICASE: Windows
  flags,   \* of FFDIRSCAN_F
  steady,  \* the names that have existed since the scan began, not read yet
  entries, \* the names read and not filtered out, in the order of readdir()
  list,    \* the result
  subdirs, \* the entries that are marked as directories
  cur      \* how many entries were returned

scanVars == <<scan, icase, flags, steady, entries, list, subdirs, cur>>

Dots == {".", ".."}
Elements(s) == {s[k] : k \in DOMAIN s}
ASSUME NamesAssumption ==
  /\ Collation \in Seq(DOMAIN Spelling) /\ Dots \subseteq Elements(Collation)
  /\ \A n \in Elements(Collation) : Spelling[n] \in Seq(1..255)
  /\ \A m, n \in Elements(Collation) : Spelling[m] = Spelling[n] => m = n

ScanInit ==
  /\ scan = "none" /\ icase \in BOOLEAN /\ flags \in ScanFlags /\ steady = {} /\ entries = <<>> /\ list = <<>>
  /\ subdirs = {} /\ cur = 0

ScanTypeOK ==
  /\ scan \in {"none", "reading", "info", "listed", "walked", "failed", "closed"} /\ icase \in BOOLEAN
  /\ cur \in 0..Len(list) /\ Len(list) <= Len(Collation)

-----------------------------------------------------------------------------
\* Where two names with their final zeros differ in more than case, and where they differ.
\* The mutant does not look at case.
FoldNot(c) == c
Fold(c) == IF c \in 65..90 THEN c + 32 ELSE c

Both(m, n) == DOMAIN Append(Spelling[m], 0) \cap DOMAIN Append(Spelling[n], 0)
Differ(m, n) == {k \in Both(m, n) : Append(Spelling[m], 0)[k] # Append(Spelling[n], 0)[k]}
Apart(m, n) == {k \in Both(m, n) : Fold(Append(Spelling[m], 0)[k]) # Fold(Append(Spelling[n], 0)[k])}

\* ffsz_icmp(): the first letter that is not the same decides.
Icmp(m, n) ==
  LET k == CHOOSE k \in Apart(m, n) : \A j \in Apart(m, n) : k <= j IN
  Apart(m, n) # {} /\ Fold(Append(Spelling[m], 0)[k]) < Fold(Append(Spelling[n], 0)[k])

\* _ffdirscan_filename_cmpz(): if there is none, the last letter that differs in case decides
\* (though the code calls it first_diff), "a" before "A".
Less(m, n) ==
  LET k == CHOOSE k \in Differ(m, n) : \A j \in Differ(m, n) : k >= j IN
  IF Apart(m, n) # {} THEN Icmp(m, n)
  ELSE Differ(m, n) # {} /\ Append(Spelling[m], 0)[k] > Append(Spelling[n], 0)[k]

\* _ffdirscan_cmpname()
LessOpen(m, n) == IF icase THEN Icmp(m, n) ELSE Less(m, n)

\* _ffdsx_open_cmp(), on all systems: with FFDIRSCANX_SORT_DIRS directories come first.
LessX(m, n) ==
  IF "dirs" \notin flags \/ (m \in subdirs <=> n \in subdirs) THEN Less(m, n) ELSE m \in subdirs

\* ffsort(): each entry comes after those that are less.
Sorted(s, Op(_, _)) ==
  [i \in DOMAIN s |-> CHOOSE n \in Elements(s) : Cardinality({m \in Elements(s) : Op(m, n)}) = i - 1]

-----------------------------------------------------------------------------
\* opendir(), FindFirstFile(), of a path: FFDIRSCAN_USEFD, which Windows does not support and
\* answers with an empty list, is left out.  Windows has no two names in a directory that
\* differ only in case.
Unlike(E) == \A m, n \in E : m # n => Apart(m, n) # {}

ScanOpen(present) ==
  /\ icase => Unlike(present)
  /\ scan = "none" /\ scan' = "reading" /\ steady' = present
  /\ UNCHANGED <<icase, flags, entries, list, subdirs, cur>>

\* readdir() returns the names in any order: those which are there all the time, and others
\* as it likes.
Skipped(n) == (n \in Dots /\ "dot" \notin flags) \/ ("wildcard" \in flags /\ n \notin Matching)

ScanRead(n) ==
  /\ scan = "reading" /\ n \notin Elements(entries)
  /\ icase => Unlike(Elements(entries) \cup {n})
  /\ entries' = IF Skipped(n) THEN entries ELSE Append(entries, n)
  /\ steady' = steady \ {n}
  /\ UNCHANGED <<scan, icase, flags, list, subdirs, cur>>

\* The end of the directory.  ffdirscanx_open() does not let ffdirscan_open() sort.
ScanEnd ==
  /\ scan = "reading" /\ steady = {}
  /\ scan' = IF "x" \in flags THEN "info" ELSE "listed"
  /\ list' = IF flags \cap {"x", "nosort"} # {} THEN entries ELSE Sorted(entries, LessOpen)
  /\ UNCHANGED <<icase, flags, steady, entries, subdirs, cur>>

\* A read error, or no memory: nothing is returned.
ScanFails ==
  /\ (scan = "reading" \/ (scan = "info" /\ cur = 0)) /\ scan' = "failed"
  /\ UNCHANGED <<icase, flags, steady, entries, list, subdirs, cur>>

\* ffdirscanx_open(): fffile_info_path() of the next entry (isdir is FALSE also if it fails,
\* because the entry is not there any more), and the end of the loop.
ScanInfo(isdir) ==
  /\ scan = "info" /\ cur < Len(list) /\ cur' = cur + 1
  /\ subdirs' = IF isdir THEN subdirs \cup {list[cur + 1]} ELSE subdirs
  /\ UNCHANGED <<scan, icase, flags, steady, entries, list>>
ScanInfoEnd ==
  /\ scan = "info" /\ cur = Len(list) /\ scan' = "listed" /\ cur' = 0
  /\ list' = Sorted(list, LessX)
  /\ UNCHANGED <<icase, flags, steady, entries, subdirs>>

\* ffdirscan_next() and ffdirscanx_next(), ffdirscan_reset(), ffdirscan_close()
ScanNext ==
  /\ scan = "listed" /\ cur < Len(list) /\ cur' = cur + 1
  /\ UNCHANGED <<scan, icase, flags, steady, entries, list, subdirs>>
ScanDone ==
  /\ scan = "listed" /\ cur = Len(list) /\ scan' = "walked"
  /\ UNCHANGED <<icase, flags, steady, entries, list, subdirs, cur>>
ScanReset ==
  /\ scan = "walked" /\ scan' = "listed" /\ cur' = 0
  /\ UNCHANGED <<icase, flags, steady, entries, list, subdirs>>
ScanClose ==
  /\ scan = "walked" /\ scan' = "closed" /\ list' = <<>> /\ cur' = 0
  /\ UNCHANGED <<icase, flags, steady, entries, subdirs>>

-----------------------------------------------------------------------------
Rank(n) == CHOOSE k \in DOMAIN Collation : Collation[k] = n
MoreCases(m, n) == Apart(m, n) = {} /\ \E j, k \in Differ(m, n) : j # k
Before(m, n) ==
  IF "dirs" \in flags /\ ~(m \in subdirs <=> n \in subdirs) THEN m \in subdirs
  ELSE Rank(m) < Rank(n) \/ MoreCases(m, n)

\* The list has every entry once and, unless the user wants none, the order that he expects:
\* case only matters between names that are otherwise equal, and directories come first if he
\* says so.  What is a directory is decided once, although it may change meanwhile.  Which of
\* two names comes first that differ in the case of several letters is left open: by its name
\* "first_diff" it should be the first of these that decides, and the code takes the last.
ListIsSorted ==
  scan \in {"listed", "walked"} =>
    /\ Elements(list) = Elements(entries) /\ Len(list) = Len(entries)
    /\ "nosort" \notin flags => \A i, j \in DOMAIN list : i < j => Before(list[i], list[j])
=============================================================================
