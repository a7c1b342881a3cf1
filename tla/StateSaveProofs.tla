-------------------------- MODULE StateSaveProofs --------------------------
(***************************************************************************)
(* Proofs about module StateSave, for any kinds of state, any file size    *)
(* and any number of changes and faults: the save thread forgets no        *)
(* request, the shutdown saves everything, and after the first crash the   *)
(* last complete save is found, at whichever step the crash came.          *)
(***************************************************************************)
EXTENDS StateSave, SequenceTheorems, TLAPS

\* Where the save thread is while it dumps a kind, and has packed it.
Packed == {"create", "write", "unlink_old", "link_old", "unlink_reg", "link_reg", "unlink_new"}
Dumping == Packed \cup {"pack"}

Version == Nat \cup {lost}
File == [names : (SUBSET Name) \ {{}}, v : Version, bytes : Seq(Int)]

TypeInv ==
    /\ up \in BOOLEAN /\ mem \in [Kind -> Version]
    /\ changed \subseteq Kind /\ save \subseteq Kind /\ run_save_thread \in BOOLEAN
    /\ saver \in {"test", "waiting", "exited", "take"} \cup Dumping
    /\ at \in 1 .. Len(Kinds) /\ next \in 1 .. Len(Kinds)
    /\ buf \in Version /\ pos \in Int /\ nwrite \in Int
    /\ disk \in [Kind -> SUBSET File]
    /\ bg \in {"run", "periodic", "last", "ended", "stopped"}
    /\ faults \in [crash : Nat, error : Nat, interrupt : Nat]
    /\ asked \in [Kind -> Version] /\ saved \in [Kind -> Version] /\ final \in [Kind -> Version]
    /\ failed \subseteq Kind

\* The requests.  What shutdown asked for was asked for, and nothing is asked
\* for that is newer than the state.
Ordered ==
    /\ \A k \in Kind : final[k] <= asked[k] /\ asked[k] <= mem[k]
    /\ ~up => \A k \in Kind : asked[k] = lost

\* A kind that is not to be saved and is not being saved is saved.
Kept ==
    \A k \in Kind \ (save \cup failed) :
        asked[k] <= saved[k] \/ (k = k0 /\ saver \in Dumping)

\* What is asked for after the state was packed is asked for again.
AskedAgain == saver \in Packed => k0 \in save \/ asked[k0] <= buf

\* The thread ends after save_all_state has made its requests, and all that
\* shutdown asked for is saved then.
Ended ==
    /\ ~run_save_thread \/ saver = "exited" => bg = "stopped"
    /\ saver = "exited" => \A k \in Kind \ failed : final[k] <= saved[k]

KeptInv == Ordered /\ Kept /\ AskedAgain /\ Ended

-----------------------------------------------------------------------------
\* The files, in the first life of slurmctld with no write interrupted.
Written(n) == [j \in 1 .. n |-> j - 1]
Whole(f) == f.bytes = Written(FileSize)

\* A file that is called new, while a kind is dumped.
NewFile(f) ==
    /\ f.v = buf
    /\ \/ saver = "write" /\ f.names = {"new"} /\ f.bytes = Written(pos)
       \/ /\ saver \in {"unlink_old", "link_old", "unlink_reg", "link_reg"}
          /\ f.names = {"new"} /\ Whole(f)
       \/ saver = "unlink_new" /\ f.names = {"new", "reg"} /\ Whole(f)

\* What holds of each file of kind k.
FileInv(k, f) ==
    /\ "reg" \in f.names => Whole(f) /\ f.v >= saved[k]
    /\ "old" \in f.names => Whole(f) /\ f.v >= 0
    /\ "new" \in f.names => k = k0 /\ NewFile(f)
    /\ k = k0 =>
          /\ saver = "link_old" => "old" \notin f.names
          /\ saver \in {"unlink_reg", "link_reg"} /\ "old" \in f.names => f.v >= saved[k]
          /\ saver = "link_reg" => "reg" \notin f.names
          /\ saver = "unlink_new" /\ "reg" \in f.names => "new" \in f.names

Has(k, n) == \E f \in disk[k] : n \in f.names

\* What was saved is in a file.
SavedInv(k) ==
    /\ saved[k] = 0 \/ (k = k0 /\ saver = "link_reg") \/ Has(k, "reg")
    /\ k = k0 /\ saver \in {"unlink_reg", "link_reg"} => saved[k] = 0 \/ Has(k, "old")

\* The dump under way.
DumpInv ==
    /\ saver \in Packed => saved[k0] <= buf /\ buf <= mem[k0]
    /\ saver \in Packed \ {"create"} => Has(k0, "new")
    /\ saver = "write" => pos \in 0 .. FileSize /\ nwrite = FileSize - pos

FirstLife == faults.crash = 0 /\ faults.interrupt = 0

DiskInv ==
    /\ up
    /\ \A k \in Kind :
           /\ 0 <= saved[k] /\ saved[k] <= mem[k]
           /\ SavedInv(k)
           /\ \A f \in disk[k] : FileInv(k, f)
    /\ DumpInv

Loadable(k) == Load(k) # lost /\ Load(k) >= saved[k]

CrashInv ==
    /\ FirstLife => DiskInv
    /\ faults.crash = 1 /\ faults.interrupt = 0 /\ ~up => \A k \in Kind : Loadable(k)

IInv == TypeInv /\ KeptInv /\ CrashInv

-----------------------------------------------------------------------------
(***************************************************************************)
(* The kinds the thread and save_all_state come to are kinds.              *)
(***************************************************************************)
LEMMA KindAt == TypeInv => k0 \in Kind /\ Kinds[next] \in Kind
BY Zenon DEF TypeInv, Kind, k0

(***************************************************************************)
(* Versions of the state are compared as integers.                         *)
(***************************************************************************)
LEMMA VersionInt ==
    ASSUME TypeInv
    PROVE  /\ buf \in Int
           /\ \A k \in Kind : mem[k] \in Int /\ saved[k] \in Int
           /\ \A k \in Kind : \A f \in disk[k] : f.v \in Int
<1>1. \A v \in Version : v \in Int
  BY DEF Version, lost
<1>2. buf \in Version /\ \A k \in Kind : mem[k] \in Version /\ saved[k] \in Version
  BY Zenon DEF TypeInv
<1>3. \A k \in Kind : \A f \in disk[k] : f.v \in Version
  BY DEF TypeInv, File
<1> QED BY <1>1, <1>2, <1>3, Zenon

\* f is the file g with the names ns.
Renamed(f, g, ns) == f.names = ns /\ f.v = g.v /\ f.bytes = g.bytes

(***************************************************************************)
(* unlink takes a name from the file that has it, and the file goes when   *)
(* it was the last name.                                                   *)
(***************************************************************************)
LEMMA Removed ==
    ASSUME TypeInv, NEW n \in Name, Remove(n)
    PROVE  /\ disk' \in [Kind -> SUBSET File]
           /\ \A k \in Kind \ {k0} : disk'[k] = disk[k]
           /\ \A f \in disk'[k0] : \E g \in disk[k0] : Renamed(f, g, g.names \ {n})
           /\ \A g \in disk[k0] : g.names \ {n} # {} =>
                  \E f \in disk'[k0] : Renamed(f, g, g.names \ {n})
<1> DEFINE less(g) == [g EXCEPT !.names = @ \ {n}]
           old == Named(k0, n)
           new == {f \in {less(g) : g \in old} : f.names # {}}
<1>1. k0 \in Kind /\ disk[k0] \subseteq File
  BY KindAt, Zenon DEF TypeInv
<1>2. \A g \in File : Renamed(less(g), g, g.names \ {n})
  BY Zenon DEF Renamed, File
<1>3. \A g \in File : less(g).names # {} => less(g) \in File
  BY Zenon DEF File
<1>4. disk' = [disk EXCEPT ![k0] = (@ \ old) \cup new]
  BY Zenon DEF Remove, Replace
<1>5. old = {g \in disk[k0] : n \in g.names}
  BY Zenon DEF Named
<1> HIDE DEF less
<1>6. new \subseteq File
  BY <1>1, <1>3, <1>5, Zenon
<1> HIDE DEF new
<1>7. disk'[k0] = (disk[k0] \ old) \cup new /\ \A k \in Kind \ {k0} : disk'[k] = disk[k]
  BY <1>1, <1>4, Zenon DEF TypeInv
<1>8. disk' \in [Kind -> SUBSET File]
  BY <1>1, <1>4, <1>6, Zenon DEF TypeInv
<1>9. \A f \in new : \E g \in disk[k0] : Renamed(f, g, g.names \ {n})
  BY <1>1, <1>2, <1>5, Zenon DEF new
<1>10. \A g \in disk[k0] \ old : Renamed(g, g, g.names \ {n})
  BY <1>5, Zenon DEF Renamed
<1>11. ASSUME NEW g \in old, g.names \ {n} # {}
       PROVE  \E f \in new : Renamed(f, g, g.names \ {n})
  <2>1. g \in File
    BY <1>1, <1>5, Zenon
  <2>2. less(g) \in new
    BY <1>2, <1>11, <2>1, Zenon DEF new, Renamed
  <2> QED BY <1>2, <2>1, <2>2, Zenon
<1> HIDE DEF old
<1> QED BY <1>7, <1>8, <1>9, <1>10, <1>11, Zenon

\* The names of g after link(from, to).
WithLink(g, from, to) == IF from \in g.names THEN g.names \cup {to} ELSE g.names

(***************************************************************************)
(* link gives the file that has one name another one.                      *)
(***************************************************************************)
LEMMA Linked ==
    ASSUME TypeInv, NEW from \in Name, NEW to \in Name,
           Replace(Named(k0, from), {[f EXCEPT !.names = @ \cup {to}] : f \in Named(k0, from)})
    PROVE  /\ disk' \in [Kind -> SUBSET File]
           /\ \A k \in Kind \ {k0} : disk'[k] = disk[k]
           /\ \A f \in disk'[k0] : \E g \in disk[k0] : Renamed(f, g, WithLink(g, from, to))
           /\ \A g \in disk[k0] : \E f \in disk'[k0] : Renamed(f, g, WithLink(g, from, to))
<1> DEFINE more(g) == [g EXCEPT !.names = @ \cup {to}]
           old == Named(k0, from)
           new == {more(g) : g \in old}
<1>1. k0 \in Kind /\ disk[k0] \subseteq File
  BY KindAt, Zenon DEF TypeInv
<1>2. \A g \in File : Renamed(more(g), g, g.names \cup {to}) /\ more(g) \in File
  BY Zenon DEF Renamed, File
<1>3. disk' = [disk EXCEPT ![k0] = (@ \ old) \cup new]
  BY Zenon DEF Replace
<1>4. old = {g \in disk[k0] : from \in g.names}
  BY Zenon DEF Named
<1> HIDE DEF more
<1>5. new \subseteq File
  BY <1>1, <1>2, <1>4, Zenon
<1>6. \A f \in new : \E g \in disk[k0] : Renamed(f, g, WithLink(g, from, to))
  BY <1>1, <1>2, <1>4, Zenon DEF WithLink
<1>7. \A g \in old : \E f \in new : Renamed(f, g, WithLink(g, from, to))
  BY <1>1, <1>2, <1>4, Zenon DEF WithLink
<1>8. \A g \in disk[k0] \ old : Renamed(g, g, WithLink(g, from, to))
  BY <1>4, Zenon DEF WithLink, Renamed
<1> HIDE DEF new, old
<1>9. disk'[k0] = (disk[k0] \ old) \cup new /\ \A k \in Kind \ {k0} : disk'[k] = disk[k]
  BY <1>1, <1>3, Zenon DEF TypeInv
<1>10. disk' \in [Kind -> SUBSET File]
  BY <1>1, <1>3, <1>5, Zenon DEF TypeInv
<1> QED BY <1>6, <1>7, <1>8, <1>9, <1>10, Zenon

(***************************************************************************)
(* The bytes that the write loop writes, one part after the other.         *)
(***************************************************************************)
LEMMA WrittenSeq ==
    ASSUME NEW n \in Nat, NEW p \in Int
    PROVE  /\ [j \in 1 .. n |-> p + j - 1] \in Seq(Int)
           /\ Len([j \in 1 .. n |-> p + j - 1]) = n
           /\ Written(n) \in Seq(Int) /\ Len(Written(n)) = n
BY DEF Written

(***************************************************************************)
(* A part that follows what is written makes more of the same.             *)
(***************************************************************************)
LEMMA WrittenMore ==
    ASSUME NEW p \in Nat, NEW n \in Nat
    PROVE  Written(p) \o [j \in 1 .. n |-> p + j - 1] = Written(p + n)
<1> DEFINE s == [j \in 1 .. n |-> p + j - 1]
           w == Written(p)
           c == w \o s
           t == Written(p + n)
<1>1. s \in Seq(Int) /\ Len(s) = n /\ w \in Seq(Int) /\ Len(w) = p
  BY WrittenSeq
<1>2. t \in Seq(Int) /\ Len(t) = p + n
  BY WrittenSeq
<1>3. /\ \A j \in 1 .. n : s[j] = p + j - 1
      /\ \A j \in 1 .. p : w[j] = j - 1
      /\ \A j \in 1 .. p + n : t[j] = j - 1
  BY Zenon DEF Written
<1> HIDE DEF s, w, t
<1>4. /\ c \in Seq(Int) /\ Len(c) = Len(w) + Len(s)
      /\ \A j \in 1 .. Len(w) + Len(s) : c[j] = IF j <= Len(w) THEN w[j] ELSE s[j - Len(w)]
  BY <1>1, ConcatProperties, Zenon
<1> HIDE DEF c
<1>5. \A j \in 1 .. p + n : c[j] = t[j]
  <2> SUFFICES ASSUME NEW j \in 1 .. p + n PROVE c[j] = j - 1
    BY <1>3, Zenon
  <2>1. c[j] = IF j <= p THEN w[j] ELSE s[j - p]
    BY <1>1, <1>4, Zenon
  <2>2. CASE j <= p
    BY <1>3, <2>1, <2>2
  <2>3. CASE j > p
    <3>1. j - p \in 1 .. n
      BY <2>3
    <3>2. s[j - p] = p + (j - p) - 1
      BY <1>3, <3>1, Zenon
    <3> QED BY <2>1, <2>3, <3>2
  <2> QED BY <2>2, <2>3
<1>6. c = t
  BY <1>1, <1>2, <1>4, <1>5, SeqEqual, Zenon
<1> QED BY <1>6, Zenon DEF c, s, w, t

(***************************************************************************)
(* creat truncates the file that is called new, or makes it.               *)
(***************************************************************************)
LEMMA Created ==
    ASSUME TypeInv, Create
    PROVE  /\ disk' \in [Kind -> SUBSET File]
           /\ \A k \in Kind \ {k0} : disk'[k] = disk[k]
           /\ ~Has(k0, "new") =>
                  disk'[k0] = disk[k0] \cup {[names |-> {"new"}, v |-> buf, bytes |-> Written(0)]}
<1> DEFINE old == Named(k0, "new")
           new == [names |-> {"new"} \cup UNION {f.names : f \in old}, v |-> buf, bytes |-> << >>]
<1>1. k0 \in Kind /\ disk[k0] \subseteq File
  BY KindAt, Zenon DEF TypeInv
<1>2. old \subseteq File
  BY <1>1, Zenon DEF Named
<1>3. {"new"} \cup UNION {f.names : f \in old} \in (SUBSET Name) \ {{}}
  BY <1>2, Zenon DEF File, Name
<1>4. new \in File
  BY <1>3 DEF File, TypeInv
<1>5. disk' = [disk EXCEPT ![k0] = (@ \ old) \cup {new}]
  BY Zenon DEF Create, Replace
<1>6. ~Has(k0, "new") => old = {} /\ new = [names |-> {"new"}, v |-> buf, bytes |-> << >>]
  BY Zenon DEF Has, Named
<1>7. Written(0) = << >>
  BY DEF Written
<1> HIDE DEF old, new
<1>8. disk'[k0] = (disk[k0] \ old) \cup {new} /\ \A k \in Kind \ {k0} : disk'[k] = disk[k]
  BY <1>1, <1>5, Zenon DEF TypeInv
<1>9. disk' \in [Kind -> SUBSET File]
  BY <1>1, <1>4, <1>5, Zenon DEF TypeInv
<1> QED BY <1>6, <1>7, <1>8, <1>9, Zenon

(***************************************************************************)
(* write appends to the file that is called new.                           *)
(***************************************************************************)
LEMMA Wrote ==
    ASSUME TypeInv, NEW amount \in Int, Write(amount)
    PROVE  /\ disk' \in [Kind -> SUBSET File]
           /\ \A k \in Kind \ {k0} : disk'[k] = disk[k]
           /\ Has(k0, "new") => Has(k0, "new")'
           /\ \A f \in disk'[k0] : \E g \in disk[k0] :
                  /\ f.names = g.names /\ f.v = g.v
                  /\ "new" \notin g.names => f = g
                  /\ "new" \in g.names /\ amount > 0 =>
                         f.bytes = g.bytes \o [j \in 1 .. amount |-> pos + j - 1]
           /\ \A g \in disk[k0] : "new" \notin g.names => g \in disk'[k0]
<1> DEFINE part == [j \in 1 .. Max({amount, 0}) |-> pos + j - 1]
           more(g) == [g EXCEPT !.bytes = @ \o part]
           old == Named(k0, "new")
           new == {more(g) : g \in old}
<1>1. k0 \in Kind /\ disk[k0] \subseteq File
  BY KindAt, Zenon DEF TypeInv
<1>2. Max({amount, 0}) \in Nat /\ (amount > 0 => Max({amount, 0}) = amount)
  <2>1. \E x \in {amount, 0} : \A y \in {amount, 0} : x >= y
    OBVIOUS
  <2> QED BY <2>1 DEF Max
<1>3. part \in Seq(Int)
  BY <1>2, WrittenSeq, Zenon DEF TypeInv
<1>4. amount > 0 => part = [j \in 1 .. amount |-> pos + j - 1]
  BY <1>2, Zenon
<1>5. disk' = [disk EXCEPT ![k0] = (@ \ old) \cup new]
  BY Zenon DEF Write, Replace
<1> HIDE DEF part
<1>6. \A g \in File : /\ more(g) \in File /\ more(g).names = g.names /\ more(g).v = g.v
                      /\ more(g).bytes = g.bytes \o part
  <2> SUFFICES ASSUME NEW g \in File
               PROVE  /\ more(g) \in File /\ more(g).names = g.names /\ more(g).v = g.v
                      /\ more(g).bytes = g.bytes \o part
    BY Zenon
  <2>1. g.bytes \o part \in Seq(Int)
    BY <1>3, ConcatProperties, Zenon DEF File
  <2> DEFINE b == g.bytes \o part
  <2>2. more(g) = [g EXCEPT !.bytes = b]
    BY Zenon
  <2> HIDE DEF b
  <2>3. /\ [g EXCEPT !.bytes = b].names = g.names /\ [g EXCEPT !.bytes = b].v = g.v
        /\ [g EXCEPT !.bytes = b].bytes = b
    BY Zenon DEF File
  <2>4. b \in Seq(Int)
    BY <2>1, Zenon DEF b
  <2>5. [g EXCEPT !.bytes = b] \in File
    BY <2>4, Zenon DEF File
  <2> HIDE DEF more
  <2> QED BY <2>2, <2>3, <2>5, Zenon DEF b
<1>7. old = {g \in disk[k0] : "new" \in g.names}
  BY Zenon DEF Named
<1> HIDE DEF more
<1>8. new \subseteq File
  BY <1>1, <1>6, <1>7, Zenon
<1>9. /\ \A f \in new : \E g \in old : f.names = g.names /\ f.v = g.v /\ f.bytes = g.bytes \o part
      /\ \A g \in old : \E f \in new : f.names = g.names
  BY <1>1, <1>6, <1>7
<1> HIDE DEF new, old
<1>10. disk'[k0] = (disk[k0] \ old) \cup new /\ \A k \in Kind \ {k0} : disk'[k] = disk[k]
  BY <1>1, <1>5, Zenon DEF TypeInv
<1>11. disk' \in [Kind -> SUBSET File]
  BY <1>1, <1>5, <1>8, Zenon DEF TypeInv
<1>12. k0' = k0
  BY Zenon DEF Write, k0
<1>13. \A f \in disk'[k0] : \E g \in disk[k0] :
           /\ f.names = g.names /\ f.v = g.v
           /\ "new" \notin g.names => f = g
           /\ "new" \in g.names /\ amount > 0 =>
                  f.bytes = g.bytes \o [j \in 1 .. amount |-> pos + j - 1]
  BY <1>4, <1>7, <1>9, <1>10, Zenon
<1>14. Has(k0, "new") => Has(k0, "new")'
  BY <1>7, <1>9, <1>10, <1>12 DEF Has
<1>15. \A g \in disk[k0] : "new" \notin g.names => g \in disk'[k0]
  BY <1>7, <1>10, Zenon
<1> QED BY <1>10, <1>11, <1>13, <1>14, <1>15, Zenon

-----------------------------------------------------------------------------
(***************************************************************************)
(* What is read from a state file is a version of the state, or lost.      *)
(***************************************************************************)
LEMMA LoadType == ASSUME TypeInv, NEW k \in Kind PROVE Load(k) \in Version
<1> DEFINE good == {f \in Named(k, "reg") : Len(f.bytes) >= TooSmall}
           from == IF good # {} THEN good ELSE Named(k, "old")
           whole == {f \in from : f.bytes = [j \in 1 .. FileSize |-> j - 1]}
<1>1. from \subseteq disk[k]
  BY Zenon DEF Named
<1>2. whole \subseteq File
  BY <1>1, Zenon DEF TypeInv
<1>3. Load(k) = IF from = {} THEN 0 ELSE IF whole = {} THEN lost ELSE (CHOOSE f \in whole : TRUE).v
  BY Zenon DEF Load
<1> HIDE DEF from, whole
<1>4. whole # {} => (CHOOSE f \in whole : TRUE) \in File
  BY <1>2, Zenon
<1> DEFINE c == CHOOSE f \in whole : TRUE
<1>5. whole # {} => c.v \in Version
  <2> HIDE DEF c
  <2>1. c \in File => c.v \in Version
    BY Zenon DEF File
  <2> QED BY <1>4, <2>1, Zenon DEF c
<1> QED BY <1>3, <1>5 DEF Version

(***************************************************************************)
(* A fault is counted.                                                     *)
(***************************************************************************)
LEMMA FaultCounted ==
    ASSUME TypeInv
    PROVE  /\ Fault("crash") \/ Fault("error") \/ Fault("interrupt") =>
                  faults' \in [crash : Nat, error : Nat, interrupt : Nat]
           /\ Fault("crash") =>
                  faults'.crash = faults.crash + 1 /\ faults'.interrupt = faults.interrupt
           /\ Fault("interrupt") => faults'.interrupt > 0
           /\ Fault("error") =>
                  faults'.crash = faults.crash /\ faults'.interrupt = faults.interrupt
<1> DEFINE F == [crash : Nat, error : Nat, interrupt : Nat]
<1>1. faults \in F
  BY Zenon DEF TypeInv
<1>2. ASSUME Fault("crash")
      PROVE  faults' \in F /\ faults'.crash = faults.crash + 1 /\ faults'.interrupt = faults.interrupt
  BY <1>1, <1>2 DEF Fault
<1>3. ASSUME Fault("interrupt") PROVE faults' \in F /\ faults'.interrupt > 0
  BY <1>1, <1>3 DEF Fault
<1>4. ASSUME Fault("error")
      PROVE  faults' \in F /\ faults'.crash = faults.crash /\ faults'.interrupt = faults.interrupt
  BY <1>1, <1>4 DEF Fault
<1> QED BY <1>2, <1>3, <1>4, Zenon

(***************************************************************************)
(* The variables keep their types.                                         *)
(***************************************************************************)
LEMMA TypeStep == TypeInv /\ [Next]_vars => TypeInv'
<1> SUFFICES ASSUME TypeInv, [Next]_vars PROVE TypeInv'
  BY Zenon
<1>0. k0 \in Kind /\ Kinds[next] \in Kind /\ Len(Kinds) \in Nat /\ Len(Kinds) >= 1
  BY KindAt, StateSaveAssumption
<1> USE DEF Packed, Dumping, requests, dump, history
<1>1. ASSUME NEW k \in Kind, Change(k) PROVE TypeInv'
  <2>1. mem' \in [Kind -> Version]
    BY <1>1 DEF Change, TypeInv, Version
  <2> QED BY <1>1, <2>1, Zenon DEF Change, TypeInv
<1>2. ASSUME NEW k \in Kind, Schedule(k) PROVE TypeInv'
  BY <1>2, Zenon DEF Schedule, Ask, Broadcast, TypeInv
<1>3. CASE Periodic \/ Shutdown
  BY <1>0, <1>3 DEF Periodic, Shutdown, TypeInv
<1>4. CASE Save_all_state
  <2>1. next' \in 1 .. Len(Kinds) /\ bg' \in {"run", "periodic", "last", "ended", "stopped"}
    BY <1>0, <1>4 DEF Save_all_state, TypeInv
  <2>2. /\ changed' \subseteq Kind /\ save' \subseteq Kind /\ asked' \in [Kind -> Version]
        /\ saver' \in {"test", "waiting", "exited", "take"} \cup Dumping
    BY <1>0, <1>4, Zenon DEF Save_all_state, Ask, Broadcast, TypeInv
  <2>3. final' \in [Kind -> Version]
    BY <1>0, <1>4, Zenon DEF Save_all_state, TypeInv
  <2> QED BY <1>4, <2>1, <2>2, <2>3, Zenon DEF Save_all_state, TypeInv
<1>5. CASE Shutdown_state_save
  BY <1>5, Zenon DEF Shutdown_state_save, Broadcast, TypeInv
<1>6. CASE Tick \/ StartWork \/ Exit \/ Wait
  <2>1. ASSUME Tick PROVE TypeInv'
    BY <2>1, Zenon DEF Tick, TypeInv
  <2>2. ASSUME StartWork PROVE TypeInv'
    BY <1>0, <2>2 DEF StartWork, TypeInv
  <2>3. ASSUME Exit PROVE TypeInv'
    BY <2>3, Zenon DEF Exit, TypeInv
  <2>4. ASSUME Wait PROVE TypeInv'
    BY <2>4, Zenon DEF Wait, TypeInv
  <2> QED BY <1>6, <2>1, <2>2, <2>3, <2>4, Zenon
<1>7. CASE Take
  BY <1>0, <1>7 DEF Take, NextKind, TypeInv
<1>8. CASE Pack
  BY <1>0, <1>8, Zenon DEF Pack, TypeInv
<1>9. CASE Create
  <2>1. disk' \in [Kind -> SUBSET File]
    BY <1>9, Created, Zenon
  <2> QED BY <1>9, <2>1, StateSaveAssumption DEF Create, TypeInv
<1>10. ASSUME NEW amount \in Int, Write(amount),
              faults' \in [crash : Nat, error : Nat, interrupt : Nat]
       PROVE  TypeInv'
  <2>1. disk' \in [Kind -> SUBSET File]
    BY <1>10, Wrote, Zenon
  <2> QED BY <1>10, <2>1 DEF Write, TypeInv
<1>11. CASE WriteSome
  <2>1. PICK amount \in 1 .. nwrite : Write(amount)
    BY <1>11, Zenon DEF WriteSome
  <2>2. amount \in Int
    BY DEF TypeInv
  <2>3. faults' \in [crash : Nat, error : Nat, interrupt : Nat]
    BY <1>11, Zenon DEF WriteSome, TypeInv
  <2> QED BY <1>10, <2>1, <2>2, <2>3, Zenon
<1>12. CASE Interrupted
  <2>1. faults' \in [crash : Nat, error : Nat, interrupt : Nat]
    BY <1>12, FaultCounted, Zenon DEF Interrupted
  <2> QED BY <1>10, <1>12, <2>1 DEF Interrupted
<1>13. CASE Synced
  BY <1>13, Zenon DEF Synced, TypeInv
<1>14. CASE DumpFails
  <2>1. disk' \in [Kind -> SUBSET File]
    BY <1>14, Removed, Zenon DEF DumpFails, Name
  <2>2. faults' \in [crash : Nat, error : Nat, interrupt : Nat]
    BY <1>14, FaultCounted, Zenon DEF DumpFails
  <2>3. at' \in 1 .. Len(Kinds) /\ saver' \in {"test", "take"}
    BY <1>0, <1>14 DEF DumpFails, EndDump, NextKind, TypeInv
  <2> QED BY <1>0, <1>14, <2>1, <2>2, <2>3 DEF DumpFails, EndDump, TypeInv, Version
<1>15. ASSUME NEW n \in Name, NEW here, NEW then \in Dumping, Unlink(n, here, then)
       PROVE  TypeInv'
  <2>1. disk' \in [Kind -> SUBSET File]
    BY <1>15, Removed, Zenon DEF Unlink
  <2> QED BY <1>15, <2>1, Zenon DEF Unlink, TypeInv
<1>16. ASSUME NEW n \in Name, NEW m \in Name, NEW here, NEW then \in Dumping, Link(n, m, here, then)
       PROVE  TypeInv'
  <2>1. disk' \in [Kind -> SUBSET File]
    BY <1>16, Linked, Zenon DEF Link
  <2> QED BY <1>16, <2>1, Zenon DEF Link, TypeInv
<1>17. CASE Shuffle
  BY <1>15, <1>16, <1>17, Zenon DEF Shuffle, Name
<1>18. CASE DumpDone
  <2>1. disk' \in [Kind -> SUBSET File]
    BY <1>18, Removed, Zenon DEF DumpDone, Name
  <2>2. at' \in 1 .. Len(Kinds) /\ saver' \in {"test", "take"}
    BY <1>0, <1>18 DEF DumpDone, EndDump, NextKind, TypeInv
  <2>3. asked' \in [Kind -> Version] /\ final' \in [Kind -> Version]
    BY <1>0, <1>18, Zenon DEF DumpDone, Pending, TypeInv, Version
  <2>4. saved' \in [Kind -> Version] /\ failed' \subseteq Kind
    BY <1>0, <1>18, Zenon DEF DumpDone, TypeInv
  <2>5. buf' \in Version /\ pos' \in Int /\ nwrite' \in Int
    BY <1>18 DEF DumpDone, EndDump, Version
  <2>6. UNCHANGED <<up, mem, changed, save, run_save_thread, bg, next, faults>>
    BY <1>18, Zenon DEF DumpDone
  <2> QED BY <2>1, <2>2, <2>3, <2>4, <2>5, <2>6, Zenon DEF TypeInv
<1>19. CASE Crash
  <2>1. faults' \in [crash : Nat, error : Nat, interrupt : Nat]
    BY <1>19, FaultCounted, Zenon DEF Crash
  <2>2. mem' \in [Kind -> Version] /\ asked' \in [Kind -> Version] /\ final' \in [Kind -> Version]
    BY <1>19, Zenon DEF Crash, Zero, Nothing, Version
  <2>3. buf' \in Version /\ pos' \in Int /\ nwrite' \in Int
    BY <1>19 DEF Crash, Version
  <2>4. at' \in 1 .. Len(Kinds) /\ next' \in 1 .. Len(Kinds)
    BY <1>0, <1>19 DEF Crash
  <2>5. UNCHANGED <<disk, saved>>
    BY <1>19, Zenon DEF Crash
  <2>6. /\ up' = FALSE /\ run_save_thread' = TRUE /\ saver' = "test" /\ bg' = "run"
        /\ changed' = {} /\ save' = {} /\ failed' = {}
    BY <1>19, Zenon DEF Crash
  <2> QED BY <2>1, <2>2, <2>3, <2>4, <2>5, <2>6, Zenon DEF TypeInv
<1>20. CASE Restart
  <2>1. mem' \in [Kind -> Version]
    BY <1>20, LoadType, Zenon DEF Restart
  <2> QED BY <1>20, <2>1, Zenon DEF Restart, TypeInv
<1>21. CASE UNCHANGED vars
  BY <1>21, Zenon DEF vars, TypeInv
<1> QED
  BY <1>1, <1>2, <1>3, <1>4, <1>5, <1>6, <1>7, <1>8, <1>9, <1>11, <1>12, <1>13, <1>14, <1>17,
     <1>18, <1>19, <1>20, <1>21, Zenon
  DEF Next, Saver

-----------------------------------------------------------------------------
(***************************************************************************)
(* A request: the kind is to be saved from now on, and what is asked for   *)
(* is the state as it is.                                                  *)
(***************************************************************************)
LEMMA AskKeeps ==
    ASSUME TypeInv, KeptInv, NEW k \in Kind, Ask(k),
           up, UNCHANGED <<up, mem, at, buf, saved, failed, run_save_thread>>,
           \/ UNCHANGED <<final, bg>>
           \/ /\ bg = "last" /\ bg' \in {"last", "ended"}
              /\ final' = [final EXCEPT ![k] = mem[k]]
           \/ bg = "periodic" /\ bg' \in {"periodic", "run"} /\ UNCHANGED final
    PROVE  KeptInv'
<1> USE DEF Packed, Dumping
<1>1. /\ saver' = saver \/ (saver = "waiting" /\ saver' = "test")
      /\ k0' = k0 /\ save' = save \cup {k}
  BY Zenon DEF Ask, Broadcast, k0
<1>2. /\ \A i \in Kind : mem[i] \in Int /\ asked[i] \in Int /\ final[i] \in Int
      /\ asked'[k] = mem[k] /\ \A i \in Kind \ {k} : asked'[i] = asked[i]
  BY DEF Ask, TypeInv, Version, lost
<1>3. /\ \A i \in Kind \ {k} : final'[i] = final[i]
      /\ final'[k] \in {final[k], mem[k]}
  BY Zenon DEF TypeInv
<1>4. Ordered'
  BY <1>2, <1>3 DEF Ordered, KeptInv
<1>5. Kept'
  BY <1>1, <1>2, Zenon DEF Kept, KeptInv
<1>6. AskedAgain'
  <2>1. k0 \in Kind
    BY KindAt, Zenon
  <2> QED BY <1>1, <1>2, <2>1, Zenon DEF AskedAgain, KeptInv
<1>7. Ended'
  <2>1. CASE UNCHANGED <<final, bg>>
    BY <1>1, <2>1, Zenon DEF Ended, KeptInv
  <2>2. CASE ~UNCHANGED <<final, bg>>
    <3>1. bg # "stopped"
      BY <2>2, Zenon
    <3>2. run_save_thread /\ saver # "exited"
      BY <3>1, Zenon DEF Ended, KeptInv
    <3> QED BY <1>1, <3>2, Zenon DEF Ended
  <2> QED BY <2>1, <2>2, Zenon
<1> QED BY <1>4, <1>5, <1>6, <1>7, Zenon DEF KeptInv

(***************************************************************************)
(* Every step keeps KeptInv.                                               *)
(***************************************************************************)
LEMMA KeptStep == TypeInv /\ TypeInv' /\ KeptInv /\ [Next]_vars => KeptInv'
<1> SUFFICES ASSUME TypeInv, TypeInv', KeptInv, [Next]_vars PROVE KeptInv'
  BY Zenon
<1>0. /\ k0 \in Kind /\ Kinds[next] \in Kind
      /\ buf \in Int /\ buf >= lost /\ lost \in Int
      /\ \A k \in Kind : /\ mem[k] \in Int /\ asked[k] \in Int /\ final[k] \in Int /\ saved[k] \in Int
                         /\ mem[k] >= lost /\ saved[k] >= lost
                         /\ mem'[k] \in Int /\ mem'[k] >= lost
  <2>1. \A v \in Version : v \in Int /\ v >= lost
    BY DEF Version, lost
  <2>2. k0 \in Kind /\ Kinds[next] \in Kind
    BY KindAt, Zenon
  <2>3. lost \in Int
    BY DEF lost
  <2>4. /\ buf \in Version
        /\ \A k \in Kind : /\ mem[k] \in Version /\ asked[k] \in Version /\ final[k] \in Version
                           /\ saved[k] \in Version /\ mem'[k] \in Version
    BY Zenon DEF TypeInv
  <2> QED BY <2>1, <2>2, <2>3, <2>4, Zenon
<1> USE DEF Packed, Dumping, requests, dump, history
<1>1. ASSUME NEW k \in Kind, Change(k) PROVE KeptInv'
  <2>1. \A i \in Kind : mem[i] <= mem'[i]
    <3>1. mem'[k] = mem[k] + 1 /\ \A i \in Kind \ {k} : mem'[i] = mem[i]
      BY <1>1, Zenon DEF Change, TypeInv
    <3> QED BY <1>0, <3>1
  <2>2. Ordered'
    BY <1>0, <1>1, <2>1 DEF Change, Ordered, KeptInv
  <2> QED BY <1>1, <2>2, Zenon DEF Change, Kept, AskedAgain, Ended, KeptInv, k0
<1>2. ASSUME NEW k \in Kind, Schedule(k) PROVE KeptInv'
  BY <1>2, AskKeeps, Zenon DEF Schedule
<1>3. CASE Periodic \/ Shutdown
  <2>1. bg = "run" /\ UNCHANGED <<up, mem, save, run_save_thread, saver, at, buf, history>>
    BY <1>3, Zenon DEF Periodic, Shutdown
  <2> QED BY <2>1, Zenon DEF Ordered, Kept, AskedAgain, Ended, KeptInv, k0
<1>4. CASE Save_all_state
  <2>1. Ask(Kinds[next]) /\ up /\ UNCHANGED <<up, mem, at, buf, saved, failed, run_save_thread>>
    BY <1>4, Zenon DEF Save_all_state
  <2>2. CASE bg = "last"
    <3>1. bg' \in {"last", "ended"} /\ final' = [final EXCEPT ![Kinds[next]] = mem[Kinds[next]]]
      BY <1>4, <2>2, Zenon DEF Save_all_state
    <3> QED BY <1>0, <2>1, <2>2, <3>1, AskKeeps, Zenon
  <2>3. CASE bg = "periodic"
    <3>1. bg' \in {"periodic", "run"} /\ UNCHANGED final
      BY <1>4, <2>3, Zenon DEF Save_all_state
    <3> QED BY <1>0, <2>1, <2>3, <3>1, AskKeeps, Zenon
  <2> QED BY <1>4, <2>2, <2>3, Zenon DEF Save_all_state
<1>5. CASE Shutdown_state_save
  BY <1>5, Zenon DEF Shutdown_state_save, Broadcast, Ordered, Kept, AskedAgain, Ended, KeptInv, k0
<1>6. CASE Tick
  BY <1>6, Zenon DEF Tick, Ordered, Kept, AskedAgain, Ended, KeptInv, k0
<1>7. CASE StartWork \/ Wait
  <2>1. /\ saver = "test" /\ saver' \in {"take", "waiting"}
        /\ UNCHANGED <<up, mem, save, run_save_thread, bg, history>>
    BY <1>7, Zenon DEF StartWork, Wait
  <2> QED BY <2>1, Zenon DEF Ordered, Kept, AskedAgain, Ended, KeptInv
<1>8. CASE Exit
  <2>1. \A k \in Kind \ failed : final[k] <= saved[k]
    BY <1>0, <1>8 DEF Exit, Kept, Ordered, KeptInv
  <2> QED BY <1>8, <2>1, Zenon DEF Exit, Ordered, Kept, AskedAgain, Ended, KeptInv, k0
<1>9. CASE Take
  <2>1. /\ saver = "take" /\ saver' \in {"take", "test", "pack"}
        /\ UNCHANGED <<up, mem, run_save_thread, bg, history>>
    BY <1>9, Zenon DEF Take, NextKind
  <2>2. Kept'
    <3>1. CASE k0 \in save
      BY <1>9, <2>1, <3>1, Zenon DEF Take, Kept, KeptInv, k0
    <3>2. CASE k0 \notin save
      BY <1>9, <2>1, <3>2, Zenon DEF Take, Kept, KeptInv, k0
    <3> QED BY <3>1, <3>2, Zenon
  <2> QED BY <2>1, <2>2, Zenon DEF Ordered, AskedAgain, Ended, KeptInv
<1>10. CASE Pack
  <2>1. /\ saver = "pack" /\ saver' = "create" /\ buf' = mem[k0] /\ k0' = k0
        /\ UNCHANGED <<up, mem, save, run_save_thread, bg, history>>
    BY <1>10, Zenon DEF Pack, k0
  <2>2. AskedAgain'
    BY <1>0, <2>1, Zenon DEF AskedAgain, Ordered, KeptInv
  <2> QED BY <2>1, <2>2, Zenon DEF Ordered, Kept, Ended, KeptInv
<1>11. ASSUME saver \in Packed, saver' \in Packed, UNCHANGED <<up, mem, requests, at, buf, history>>
       PROVE  KeptInv'
  BY <1>11, Zenon DEF Ordered, Kept, AskedAgain, Ended, KeptInv, k0
<1>12. CASE Create \/ WriteSome \/ Interrupted \/ Synced \/ Shuffle
  BY <1>11, <1>12, Zenon DEF Create, WriteSome, Interrupted, Write, Synced, Shuffle, Unlink, Link
<1>13. CASE DumpFails
  <2>1. /\ saver \in Packed /\ saver' \in {"take", "test"}
        /\ failed' = failed \cup {k0}
        /\ UNCHANGED <<up, mem, save, run_save_thread, bg, asked, saved, final>>
    BY <1>13, Zenon DEF DumpFails, EndDump, NextKind
  <2> QED BY <2>1, Zenon DEF Ordered, Kept, AskedAgain, Ended, KeptInv
<1>14. CASE DumpDone
  <2>1. /\ saver \in Packed /\ saver' \in {"take", "test"}
        /\ failed' = failed \ {k0} /\ saved' = [saved EXCEPT ![k0] = buf]
        /\ asked' = Pending(asked) /\ final' = Pending(final)
        /\ UNCHANGED <<up, mem, save, run_save_thread, bg>>
    BY <1>14, Zenon DEF DumpDone, EndDump, NextKind
  <2>2. /\ \A k \in Kind \ {k0} : asked'[k] = asked[k] /\ final'[k] = final[k] /\ saved'[k] = saved[k]
        /\ asked'[k0] = IF asked[k0] <= buf THEN lost ELSE asked[k0]
        /\ final'[k0] = IF final[k0] <= buf THEN lost ELSE final[k0]
        /\ saved'[k0] = buf
    BY <1>0, <2>1, Zenon DEF Pending, TypeInv
  <2>3. Ordered'
    BY <1>0, <2>1, <2>2 DEF Ordered, KeptInv
  <2>4. Kept'
    BY <1>0, <2>1, <2>2 DEF Kept, AskedAgain, KeptInv
  <2> QED BY <2>1, <2>3, <2>4, Zenon DEF AskedAgain, Ended, KeptInv
<1>15. CASE Crash
  <2>1. /\ saver' = "test" /\ run_save_thread' /\ UNCHANGED saved
        /\ \A k \in Kind : asked'[k] = lost /\ final'[k] = lost /\ mem'[k] = 0
    BY <1>15, Zenon DEF Crash, Nothing, Zero
  <2> QED BY <1>0, <2>1 DEF Ordered, Kept, AskedAgain, Ended, KeptInv, lost
<1>16. CASE Restart
  <2>1. ~up /\ up' /\ UNCHANGED <<requests, saver, at, buf, history>>
    BY <1>16, Zenon DEF Restart
  <2>2. Ordered'
    BY <1>0, <2>1, Zenon DEF Ordered, KeptInv
  <2> QED BY <2>1, <2>2, Zenon DEF Kept, AskedAgain, Ended, KeptInv, k0
<1>17. CASE UNCHANGED vars
  BY <1>17, Zenon DEF vars, Ordered, Kept, AskedAgain, Ended, KeptInv, k0
<1> QED
  BY <1>1, <1>2, <1>3, <1>4, <1>5, <1>6, <1>7, <1>8, <1>9, <1>10, <1>12, <1>13, <1>14, <1>15, <1>16,
     <1>17, Zenon
  DEF Next, Saver

-----------------------------------------------------------------------------
(***************************************************************************)
(* With the files as DiskInv says, load_all_job_state finds the last save  *)
(* or a newer one, whatever the save thread was doing.                     *)
(***************************************************************************)
LEMMA FindsTheSave == ASSUME TypeInv, DiskInv, NEW k \in Kind PROVE Loadable(k)
<1> DEFINE good == {f \in Named(k, "reg") : Len(f.bytes) >= TooSmall}
           from == IF good # {} THEN good ELSE Named(k, "old")
           whole == {f \in from : f.bytes = [j \in 1 .. FileSize |-> j - 1]}
           c == CHOOSE f \in whole : TRUE
<1>1. Load(k) = IF from = {} THEN 0 ELSE IF whole = {} THEN lost ELSE c.v
  BY Zenon DEF Load
<1>2. whole = {f \in from : Whole(f)}
  BY Zenon DEF Whole, Written
<1>3. /\ \A f \in disk[k] : FileInv(k, f) /\ f.v \in Int
      /\ SavedInv(k) /\ saved[k] \in Int /\ 0 <= saved[k]
  <2>1. \A f \in disk[k] : f.v \in Version
    BY DEF TypeInv, File
  <2>2. saved[k] \in Version
    BY Zenon DEF TypeInv
  <2> QED BY <2>1, <2>2 DEF DiskInv, Version, lost
<1>4. \A f \in disk[k] : Whole(f) => Len(f.bytes) >= TooSmall
  <2>1. FileSize \in Nat /\ TooSmall \in Nat /\ TooSmall <= FileSize
    BY StateSaveAssumption
  <2>2. Len(Written(FileSize)) = FileSize
    BY <2>1, WrittenSeq
  <2> QED BY <2>1, <2>2, Zenon DEF Whole
<1>5. /\ \A f \in Named(k, "reg") : f \in disk[k] /\ "reg" \in f.names
      /\ \A f \in Named(k, "old") : f \in disk[k] /\ "old" \in f.names
      /\ \A f \in disk[k] : "reg" \in f.names => f \in Named(k, "reg")
      /\ \A f \in disk[k] : "old" \in f.names => f \in Named(k, "old")
  BY Zenon DEF Named
<1>6. good = Named(k, "reg")
  BY <1>3, <1>4, <1>5, Zenon DEF FileInv
<1>7. ASSUME NEW f \in from PROVE Whole(f) /\ f.v >= saved[k] /\ f.v \in Int
  <2>1. CASE good # {}
    BY <1>3, <1>5, <1>6, <2>1, Zenon DEF FileInv
  <2>2. CASE good = {}
    <3>1. f \in disk[k] /\ "old" \in f.names
      BY <1>5, <2>2, Zenon
    <3>2. ~Has(k, "reg")
      BY <1>5, <1>6, <2>2, Zenon DEF Has
    <3> QED BY <1>3, <3>1, <3>2, Zenon DEF FileInv, SavedInv
  <2> QED BY <2>1, <2>2, Zenon
<1>8. from = {} => saved[k] = 0
  <2> SUFFICES ASSUME from = {} PROVE saved[k] = 0
    BY Zenon
  <2>1. ~Has(k, "reg") /\ ~Has(k, "old")
    BY <1>5, <1>6, Zenon DEF Has
  <2> QED BY <1>3, <2>1, Zenon DEF SavedInv
<1> HIDE DEF from
<1>9. from # {} => whole # {} /\ \A f \in whole : f.v >= saved[k] /\ f.v \in Int
  BY <1>2, <1>7, Zenon
<1> HIDE DEF whole
<1>10. from # {} => c \in whole
  BY <1>9, Zenon
<1> HIDE DEF c
<1> QED BY <1>1, <1>3, <1>8, <1>9, <1>10 DEF Loadable, lost

(***************************************************************************)
(* Steps outside a dump, or that leave the dump where it is.               *)
(***************************************************************************)
LEMMA DiskIdle ==
    ASSUME DiskInv, up', UNCHANGED <<disk, saved>>, TypeInv, TypeInv',
           \A k \in Kind : mem[k] <= mem'[k],
           \/ saver \notin Packed /\ saver' \notin Packed
           \/ UNCHANGED <<saver, at, buf, pos, nwrite>>
    PROVE  DiskInv'
<1> USE DEF Packed
<1>1. \A k \in Kind : mem[k] \in Int /\ mem'[k] \in Int /\ saved[k] \in Int
  <2>1. \A v \in Version : v \in Int
    BY DEF Version, lost
  <2>2. \A k \in Kind : mem[k] \in Version /\ mem'[k] \in Version /\ saved[k] \in Version
    BY Zenon DEF TypeInv
  <2> QED BY <2>1, <2>2, Zenon
<1>2. \A k \in Kind : 0 <= saved[k] /\ saved[k] <= mem'[k]
  BY <1>1 DEF DiskInv
<1>3. CASE saver \notin Packed /\ saver' \notin Packed
  <2>1. ASSUME NEW k \in Kind PROVE SavedInv(k)'
    <3>1. SavedInv(k)
      BY Zenon DEF DiskInv
    <3> QED BY <1>3, <3>1, Zenon DEF SavedInv, Has
  <2>2. ASSUME NEW k \in Kind, NEW f \in disk[k] PROVE FileInv(k, f)'
    <3>1. FileInv(k, f)
      BY Zenon DEF DiskInv
    <3> QED BY <1>3, <3>1, Zenon DEF FileInv, NewFile, Whole
  <2>3. DumpInv'
    BY <1>3, Zenon DEF DumpInv
  <2> QED BY <1>2, <2>1, <2>2, <2>3, Zenon DEF DiskInv
<1>4. CASE UNCHANGED <<saver, at, buf, pos, nwrite>>
  <2>1. k0' = k0 /\ k0 \in Kind
    BY <1>4, KindAt, Zenon DEF k0
  <2>2. ASSUME NEW k \in Kind PROVE SavedInv(k)'
    <3>1. SavedInv(k)
      BY Zenon DEF DiskInv
    <3> QED BY <1>4, <2>1, <3>1, Zenon DEF SavedInv, Has
  <2>3. ASSUME NEW k \in Kind, NEW f \in disk[k] PROVE FileInv(k, f)'
    <3>1. FileInv(k, f)
      BY Zenon DEF DiskInv
    <3> QED BY <1>4, <2>1, <3>1, Zenon DEF FileInv, NewFile, Whole
  <2>4. DumpInv'
    <3>1. buf \in Int
      BY DEF TypeInv, Version, lost
    <3> QED BY <1>1, <1>4, <2>1, <3>1 DEF DumpInv, DiskInv, Has
  <2> QED BY <1>2, <2>2, <2>3, <2>4, Zenon DEF DiskInv
<1> QED BY <1>3, <1>4, Zenon

(***************************************************************************)
(* Steps within the dump of a kind leave the files of the others alone.    *)
(***************************************************************************)
LEMMA DiskDumped ==
    ASSUME TypeInv, DiskInv, UNCHANGED <<up, mem, saved, at>>,
           saver \in Dumping, saver' \in Packed,
           \A k \in Kind \ {k0} : disk'[k] = disk[k],
           DumpInv', SavedInv(k0)', \A f \in disk'[k0] : FileInv(k0, f)'
    PROVE  DiskInv'
<1>1. k0' = k0 /\ k0 \in Kind
  BY KindAt, Zenon DEF k0
<1>2. ASSUME NEW k \in Kind \ {k0} PROVE SavedInv(k)'
  <2>1. SavedInv(k)
    BY Zenon DEF DiskInv
  <2> QED BY <1>1, <2>1, Zenon DEF SavedInv, Has
<1>3. ASSUME NEW k \in Kind \ {k0}, NEW f \in disk'[k] PROVE FileInv(k, f)'
  <2>1. FileInv(k, f)
    BY Zenon DEF DiskInv
  <2> QED BY <1>1, <2>1, Zenon DEF FileInv, Whole
<1> QED BY <1>1, <1>2, <1>3, Zenon DEF DiskInv

(***************************************************************************)
(* The file that is called new is made and written.                        *)
(***************************************************************************)
LEMMA DiskWritten ==
    ASSUME TypeInv, TypeInv', DiskInv, Pack \/ Create \/ WriteSome \/ Synced
    PROVE  DiskInv'
<1> USE DEF Packed, Dumping, dump, history
<1>1. k0 \in Kind /\ FileSize \in Nat /\ pos \in Int /\ nwrite \in Int
  BY KindAt, StateSaveAssumption, Zenon DEF TypeInv
<1>2. SavedInv(k0) /\ DumpInv /\ (\A f \in disk[k0] : FileInv(k0, f)) /\ saved[k0] <= mem[k0]
  BY <1>1, Zenon DEF DiskInv
<1>3. ASSUME Pack PROVE DiskInv'
  <2>1. /\ saver = "pack" /\ saver' = "create" /\ buf' = mem[k0] /\ k0' = k0
        /\ UNCHANGED <<up, mem, saved, at, disk>>
    BY <1>3, Zenon DEF Pack, k0
  <2>2. DumpInv'
    BY <1>1, <1>2, <2>1, VersionInt DEF DumpInv
  <2>3. SavedInv(k0)'
    BY <1>2, <2>1, Zenon DEF SavedInv, Has
  <2>4. \A f \in disk'[k0] : FileInv(k0, f)'
    BY <1>2, <2>1, Zenon DEF FileInv, NewFile, Whole
  <2> QED BY <2>1, <2>2, <2>3, <2>4, DiskDumped, Zenon
<1>4. ASSUME Create PROVE DiskInv'
  <2> DEFINE new == [names |-> {"new"}, v |-> buf, bytes |-> Written(0)]
  <2>1. /\ saver = "create" /\ saver' = "write" /\ k0' = k0 /\ pos' = 0 /\ nwrite' = FileSize
        /\ UNCHANGED <<up, mem, saved, at, buf>>
    BY <1>4, Zenon DEF Create, k0
  <2>2. ~Has(k0, "new")
    BY <1>2, <2>1, Zenon DEF Has, FileInv, NewFile
  <2>3. (\A k \in Kind \ {k0} : disk'[k] = disk[k]) /\ disk'[k0] = disk[k0] \cup {new}
    BY <1>4, <2>2, Created, Zenon
  <2>4. new.names = {"new"} /\ new.v = buf /\ new.bytes = Written(0)
    BY Zenon
  <2> HIDE DEF new
  <2>5. DumpInv'
    BY <1>1, <1>2, <2>1, <2>3, <2>4 DEF DumpInv, Has
  <2>6. SavedInv(k0)'
    BY <1>2, <2>1, <2>3, Zenon DEF SavedInv, Has
  <2>7. \A f \in disk'[k0] : FileInv(k0, f)'
    BY <1>2, <2>1, <2>2, <2>3, <2>4 DEF FileInv, NewFile, Whole, Has
  <2> QED BY <2>1, <2>3, <2>5, <2>6, <2>7, DiskDumped, Zenon
<1>5. ASSUME WriteSome PROVE DiskInv'
  <2>1. PICK amount \in 1 .. nwrite : Write(amount)
    BY <1>5, Zenon DEF WriteSome
  <2>2. /\ saver = "write" /\ saver' = "write" /\ k0' = k0
        /\ nwrite' = nwrite - amount /\ pos' = pos + amount
        /\ UNCHANGED <<up, mem, saved, at, buf>>
    BY <2>1, Zenon DEF Write, k0
  <2>3. amount \in Nat /\ amount > 0 /\ pos \in Nat /\ pos' \in 0 .. FileSize /\ nwrite' = FileSize - pos'
    BY <1>1, <1>2, <2>2 DEF DumpInv
  <2>4. /\ \A k \in Kind \ {k0} : disk'[k] = disk[k]
        /\ Has(k0, "new") => Has(k0, "new")'
        /\ \A f \in disk'[k0] : \E g \in disk[k0] :
               /\ f.names = g.names /\ f.v = g.v
               /\ "new" \notin g.names => f = g
               /\ "new" \in g.names =>
                      f.bytes = g.bytes \o [j \in 1 .. amount |-> pos + j - 1]
        /\ \A g \in disk[k0] : "new" \notin g.names => g \in disk'[k0]
    <3> DEFINE part == [j \in 1 .. amount |-> pos + j - 1]
    <3>1. amount \in Int /\ amount > 0
      BY <2>3
    <3>2. /\ \A k \in Kind \ {k0} : disk'[k] = disk[k]
          /\ Has(k0, "new") => Has(k0, "new")'
          /\ \A f \in disk'[k0] : \E g \in disk[k0] :
                 /\ f.names = g.names /\ f.v = g.v
                 /\ "new" \notin g.names => f = g
                 /\ "new" \in g.names /\ amount > 0 => f.bytes = g.bytes \o part
          /\ \A g \in disk[k0] : "new" \notin g.names => g \in disk'[k0]
      BY <2>1, <3>1, Wrote, Zenon
    <3> HIDE DEF part
    <3>3. \A f \in disk'[k0] : \E g \in disk[k0] :
                 /\ f.names = g.names /\ f.v = g.v
                 /\ "new" \notin g.names => f = g
                 /\ "new" \in g.names => f.bytes = g.bytes \o part
      BY <3>1, <3>2, Zenon
    <3> QED BY <3>2, <3>3, Zenon DEF part
  <2>5. DumpInv'
    BY <1>2, <2>2, <2>3, <2>4, Zenon DEF DumpInv
  <2>6. SavedInv(k0)'
    <3>1. \A f \in disk[k0] : "reg" \in f.names => "new" \notin f.names
      BY <1>2, <2>2 DEF FileInv, NewFile
    <3> QED BY <1>2, <2>2, <2>4, <3>1, Zenon DEF SavedInv, Has
  <2>7. ASSUME NEW f \in disk'[k0] PROVE FileInv(k0, f)'
    <3>1. PICK g \in disk[k0] :
               /\ f.names = g.names /\ f.v = g.v
               /\ "new" \notin g.names => f = g
               /\ "new" \in g.names => f.bytes = g.bytes \o [j \in 1 .. amount |-> pos + j - 1]
      BY <2>4, Zenon
    <3>2. FileInv(k0, g)
      BY <1>2, Zenon
    <3>3. CASE "new" \notin g.names
      BY <2>2, <3>1, <3>2, <3>3, Zenon DEF FileInv, Whole
    <3>4. CASE "new" \in g.names
      <4>1. g.names = {"new"} /\ g.v = buf /\ g.bytes = Written(pos)
        BY <2>2, <3>2, <3>4, Zenon DEF FileInv, NewFile
      <4>2. f.bytes = Written(pos')
        BY <2>2, <2>3, <3>1, <3>4, <4>1, WrittenMore, Zenon
      <4> QED BY <2>2, <3>1, <4>1, <4>2 DEF FileInv, NewFile
    <3> QED BY <3>3, <3>4, Zenon
  <2> QED BY <2>2, <2>4, <2>5, <2>6, <2>7, DiskDumped, Zenon
<1>6. ASSUME Synced PROVE DiskInv'
  <2>1. /\ saver = "write" /\ saver' = "unlink_old" /\ nwrite = 0 /\ k0' = k0
        /\ UNCHANGED <<up, mem, saved, at, buf, pos, disk>>
    BY <1>6, Zenon DEF Synced, k0
  <2>2. pos = FileSize
    BY <1>1, <1>2, <2>1 DEF DumpInv
  <2>3. DumpInv'
    BY <1>2, <2>1, Zenon DEF DumpInv, Has
  <2>4. SavedInv(k0)'
    BY <1>2, <2>1, Zenon DEF SavedInv, Has
  <2>5. \A f \in disk'[k0] : FileInv(k0, f)'
    BY <1>2, <2>1, <2>2, Zenon DEF FileInv, NewFile, Whole
  <2> QED BY <2>1, <2>3, <2>4, <2>5, DiskDumped, Zenon
<1> QED BY <1>3, <1>4, <1>5, <1>6, Zenon

(***************************************************************************)
(* The shuffle: at each of its steps the last save has a name.             *)
(***************************************************************************)
LEMMA DiskShuffled ==
    ASSUME TypeInv, TypeInv', DiskInv, Shuffle
    PROVE  DiskInv'
<1> USE DEF Packed, Dumping, Name
<1>1. k0 \in Kind
  BY KindAt, Zenon
<1>2. SavedInv(k0) /\ DumpInv /\ (\A f \in disk[k0] : FileInv(k0, f))
  BY <1>1, Zenon DEF DiskInv
<1>3. UNCHANGED <<up, mem, saved, at, buf, pos, nwrite>> /\ k0' = k0
  BY Zenon DEF Shuffle, Unlink, Link, dump, history, k0
<1>4. ASSUME Unlink("old", "unlink_old", "link_old") PROVE DiskInv'
  <2>1. saver = "unlink_old" /\ saver' = "link_old"
    BY <1>4, Zenon DEF Unlink
  <2>2. /\ \A k \in Kind \ {k0} : disk'[k] = disk[k]
        /\ \A f \in disk'[k0] : \E g \in disk[k0] : Renamed(f, g, g.names \ {"old"})
        /\ \A g \in disk[k0] : g.names \ {"old"} # {} =>
               \E f \in disk'[k0] : Renamed(f, g, g.names \ {"old"})
    BY <1>4, Removed, Zenon DEF Unlink
  <2>3. \A f \in disk'[k0] : FileInv(k0, f)'
    <3> SUFFICES ASSUME NEW f \in disk'[k0] PROVE FileInv(k0, f)'
      BY Zenon
    <3>1. PICK g \in disk[k0] : Renamed(f, g, g.names \ {"old"})
      BY <2>2, Zenon
    <3>2. FileInv(k0, g)
      BY <1>2, Zenon
    <3> QED BY <1>3, <2>1, <3>1, <3>2, Zenon DEF Renamed, FileInv, NewFile, Whole
  <2>4. SavedInv(k0)'
    BY <1>2, <1>3, <2>1, <2>2 DEF SavedInv, Has, Renamed
  <2>5. DumpInv'
    BY <1>2, <1>3, <2>1, <2>2 DEF DumpInv, Has, Renamed
  <2> QED BY <1>3, <2>1, <2>2, <2>3, <2>4, <2>5, DiskDumped, Zenon
<1>5. ASSUME Link("reg", "old", "link_old", "unlink_reg") PROVE DiskInv'
  <2>1. saver = "link_old" /\ saver' = "unlink_reg"
    BY <1>5, Zenon DEF Link
  <2>2. /\ \A k \in Kind \ {k0} : disk'[k] = disk[k]
        /\ \A f \in disk'[k0] : \E g \in disk[k0] : Renamed(f, g, WithLink(g, "reg", "old"))
        /\ \A g \in disk[k0] : \E f \in disk'[k0] : Renamed(f, g, WithLink(g, "reg", "old"))
    BY <1>5, Linked, Zenon DEF Link
  <2>3. \A f \in disk'[k0] : FileInv(k0, f)'
    <3> SUFFICES ASSUME NEW f \in disk'[k0] PROVE FileInv(k0, f)'
      BY Zenon
    <3>1. PICK g \in disk[k0] : Renamed(f, g, WithLink(g, "reg", "old"))
      BY <2>2, Zenon
    <3>2. FileInv(k0, g)
      BY <1>2, Zenon
    <3>3. g.v \in Int /\ saved[k0] \in Int /\ 0 <= saved[k0]
      BY <1>1, VersionInt, Zenon DEF DiskInv
    <3>4. CASE "reg" \in g.names
      BY <1>3, <2>1, <3>1, <3>2, <3>3, <3>4 DEF Renamed, WithLink, FileInv, NewFile, Whole
    <3>5. CASE "reg" \notin g.names
      BY <1>3, <2>1, <3>1, <3>2, <3>5, Zenon DEF Renamed, WithLink, FileInv, NewFile, Whole
    <3> QED BY <3>4, <3>5, Zenon
  <2>4. SavedInv(k0)'
    BY <1>2, <1>3, <2>1, <2>2, Zenon DEF SavedInv, Has, Renamed, WithLink
  <2>5. DumpInv'
    BY <1>2, <1>3, <2>1, <2>2, Zenon DEF DumpInv, Has, Renamed, WithLink
  <2> QED BY <1>3, <2>1, <2>2, <2>3, <2>4, <2>5, DiskDumped, Zenon
<1>6. ASSUME Unlink("reg", "unlink_reg", "link_reg") PROVE DiskInv'
  <2>1. saver = "unlink_reg" /\ saver' = "link_reg"
    BY <1>6, Zenon DEF Unlink
  <2>2. /\ \A k \in Kind \ {k0} : disk'[k] = disk[k]
        /\ \A f \in disk'[k0] : \E g \in disk[k0] : Renamed(f, g, g.names \ {"reg"})
        /\ \A g \in disk[k0] : g.names \ {"reg"} # {} =>
               \E f \in disk'[k0] : Renamed(f, g, g.names \ {"reg"})
    BY <1>6, Removed, Zenon DEF Unlink
  <2>3. \A f \in disk'[k0] : FileInv(k0, f)'
    <3> SUFFICES ASSUME NEW f \in disk'[k0] PROVE FileInv(k0, f)'
      BY Zenon
    <3>1. PICK g \in disk[k0] : Renamed(f, g, g.names \ {"reg"})
      BY <2>2, Zenon
    <3>2. FileInv(k0, g)
      BY <1>2, Zenon
    <3> QED BY <1>3, <2>1, <3>1, <3>2, Zenon DEF Renamed, FileInv, NewFile, Whole
  <2>4. SavedInv(k0)'
    BY <1>2, <1>3, <2>1, <2>2 DEF SavedInv, Has, Renamed
  <2>5. DumpInv'
    BY <1>2, <1>3, <2>1, <2>2 DEF DumpInv, Has, Renamed
  <2> QED BY <1>3, <2>1, <2>2, <2>3, <2>4, <2>5, DiskDumped, Zenon
<1>7. ASSUME Link("new", "reg", "link_reg", "unlink_new") PROVE DiskInv'
  <2>1. saver = "link_reg" /\ saver' = "unlink_new"
    BY <1>7, Zenon DEF Link
  <2>2. /\ \A k \in Kind \ {k0} : disk'[k] = disk[k]
        /\ \A f \in disk'[k0] : \E g \in disk[k0] : Renamed(f, g, WithLink(g, "new", "reg"))
        /\ \A g \in disk[k0] : \E f \in disk'[k0] : Renamed(f, g, WithLink(g, "new", "reg"))
    BY <1>7, Linked, Zenon DEF Link
  <2>3. \A f \in disk'[k0] : FileInv(k0, f)'
    <3> SUFFICES ASSUME NEW f \in disk'[k0] PROVE FileInv(k0, f)'
      BY Zenon
    <3>1. PICK g \in disk[k0] : Renamed(f, g, WithLink(g, "new", "reg"))
      BY <2>2, Zenon
    <3>2. FileInv(k0, g)
      BY <1>2, Zenon
    <3>3. buf \in Int /\ saved[k0] \in Int /\ saved[k0] <= buf
      BY <1>1, <1>2, <2>1, VersionInt, Zenon DEF DumpInv
    <3>4. CASE "new" \in g.names
      <4>1. g.names = {"new"} /\ g.v = buf /\ Whole(g)
        BY <2>1, <3>2, <3>4, Zenon DEF FileInv, NewFile
      <4>2. f.names = {"new", "reg"} /\ f.v = buf /\ Whole(f)
        BY <3>1, <4>1, Zenon DEF Renamed, WithLink, Whole
      <4> QED BY <1>3, <2>1, <3>3, <4>2, Zenon DEF FileInv, NewFile, Whole
    <3>5. CASE "new" \notin g.names
      BY <1>3, <2>1, <3>1, <3>2, <3>5, Zenon DEF Renamed, WithLink, FileInv, NewFile, Whole
    <3> QED BY <3>4, <3>5, Zenon
  <2>4. SavedInv(k0)'
    BY <1>2, <1>3, <2>1, <2>2, Zenon DEF SavedInv, DumpInv, Has, Renamed, WithLink
  <2>5. DumpInv'
    BY <1>2, <1>3, <2>1, <2>2, Zenon DEF DumpInv, Has, Renamed, WithLink
  <2> QED BY <1>3, <2>1, <2>2, <2>3, <2>4, <2>5, DiskDumped, Zenon
<1> QED BY <1>4, <1>5, <1>6, <1>7, Zenon DEF Shuffle

(***************************************************************************)
(* The end of a dump, complete or not: no file is called new any more, and *)
(* the regular file holds what was saved last.                             *)
(***************************************************************************)
LEMMA DiskDone ==
    ASSUME TypeInv, TypeInv', DiskInv, DumpDone \/ DumpFails
    PROVE  DiskInv'
<1> USE DEF Packed, Dumping, Name
<1>1. k0 \in Kind
  BY KindAt, Zenon
<1>2. /\ DumpInv
      /\ \A k \in Kind : SavedInv(k) /\ 0 <= saved[k] /\ saved[k] <= mem[k]
      /\ \A k \in Kind : \A f \in disk[k] : FileInv(k, f)
  BY Zenon DEF DiskInv
<1>3. /\ Remove("new") /\ UNCHANGED <<up, mem>> /\ saver' \in {"test", "take"}
      /\ saver \in Packed
  BY Zenon DEF DumpDone, DumpFails, EndDump, NextKind
<1>4. /\ \A k \in Kind \ {k0} : disk'[k] = disk[k]
      /\ \A f \in disk'[k0] : \E g \in disk[k0] : Renamed(f, g, g.names \ {"new"})
      /\ \A g \in disk[k0] : g.names \ {"new"} # {} =>
             \E f \in disk'[k0] : Renamed(f, g, g.names \ {"new"})
  BY <1>3, Removed, Zenon
<1>5. /\ \A k \in Kind \ {k0} : saved'[k] = saved[k]
      /\ \/ saver = "unlink_new" /\ saved'[k0] = buf
         \/ saver \in {"create", "write"} /\ saved'[k0] = saved[k0]
  BY <1>1, Zenon DEF DumpDone, DumpFails, TypeInv
<1>6. buf \in Int /\ \A k \in Kind : mem[k] \in Int /\ saved[k] \in Int
  BY VersionInt, Zenon
<1>7. \A k \in Kind : 0 <= saved'[k] /\ saved'[k] <= mem'[k]
  <2>1. saved[k0] <= buf /\ buf <= mem[k0] /\ 0 <= saved[k0]
    BY <1>1, <1>2, <1>3, Zenon DEF DumpInv
  <2>2. 0 <= saved'[k0] /\ saved'[k0] <= mem[k0]
    <3>1. saved'[k0] \in {buf, saved[k0]}
      BY <1>5, Zenon
    <3>2. buf \in Int /\ mem[k0] \in Int /\ saved[k0] \in Int
      BY <1>1, <1>6, Zenon
    <3> QED BY ONLY <2>1, <3>1, <3>2, SMT
  <2>3. ASSUME NEW k \in Kind, k # k0 PROVE 0 <= saved'[k] /\ saved'[k] <= mem[k]
    <3>1. saved'[k] = saved[k]
      BY <1>5, <2>3, Zenon
    <3>2. 0 <= saved[k] /\ saved[k] <= mem[k]
      BY <1>2, Zenon
    <3> QED BY ONLY <3>1, <3>2, Zenon
  <2>4. mem' = mem
    BY <1>3, Zenon
  <2> QED BY ONLY <2>2, <2>3, <2>4, Zenon
<1>8. ASSUME NEW k \in Kind, NEW f \in disk'[k] PROVE FileInv(k, f)'
  <2>1. CASE k # k0
    <3>1. FileInv(k, f)
      BY <1>2, <1>4, <2>1, Zenon
    <3> QED BY <1>3, <1>5, <2>1, <3>1, Zenon DEF FileInv, Whole
  <2>2. CASE k = k0
    <3>1. PICK g \in disk[k0] : Renamed(f, g, g.names \ {"new"})
      BY <1>4, <2>2, Zenon
    <3>2. FileInv(k0, g)
      BY <1>1, <1>2, Zenon
    <3>5. f.names = g.names \ {"new"} /\ f.v = g.v /\ f.bytes = g.bytes
      BY <3>1, Zenon DEF Renamed
    <3>6. "new" \notin f.names /\ ("old" \in f.names => Whole(f) /\ f.v >= 0)
      BY <3>2, <3>5, Zenon DEF FileInv, Whole
    <3>7. saver' \notin {"link_old", "unlink_reg", "link_reg", "unlink_new"}
      BY <1>3, Zenon
    <3>3. CASE saver = "unlink_new"
      <4>1. "reg" \in g.names => Whole(g) /\ g.v = buf
        BY <3>2, <3>3, Zenon DEF FileInv, NewFile
      <4>2. saved'[k0] = buf /\ buf >= buf
        BY <1>5, <1>6, <3>3
      <4>3. "reg" \in f.names => Whole(f) /\ f.v >= saved'[k0]
        BY <3>5, <4>1, <4>2, Zenon DEF Whole
      <4> QED BY ONLY <2>2, <3>6, <3>7, <4>3, Zenon DEF FileInv, Whole
    <3>4. CASE saver \in {"create", "write"}
      <4>1. "reg" \in g.names => Whole(g) /\ g.v >= saved[k0]
        BY <3>2, Zenon DEF FileInv
      <4>2. saved'[k0] = saved[k0]
        BY <1>5, <3>4, Zenon
      <4>3. "reg" \in f.names => Whole(f) /\ f.v >= saved'[k0]
        BY <3>5, <4>1, <4>2, Zenon DEF Whole
      <4> QED BY ONLY <2>2, <3>6, <3>7, <4>3, Zenon DEF FileInv, Whole
    <3> QED BY <1>5, <3>3, <3>4, Zenon
  <2> QED BY <2>1, <2>2, Zenon
<1>9. ASSUME NEW k \in Kind PROVE SavedInv(k)'
  <2>1. SavedInv(k)
    BY <1>2, Zenon
  <2>2. CASE k # k0
    BY <1>3, <1>4, <1>5, <2>1, <2>2, Zenon DEF SavedInv, Has
  <2>3. CASE k = k0
    <3>1. CASE saver = "unlink_new"
      <4>1. PICK g \in disk[k0] : "new" \in g.names
        BY <1>2, <3>1, Zenon DEF DumpInv, Has
      <4>2. "reg" \in g.names
        BY <1>1, <1>2, <3>1, <4>1, Zenon DEF FileInv, NewFile
      <4>3. PICK f \in disk'[k0] : Renamed(f, g, g.names \ {"new"})
        BY <1>4, <4>2
      <4>4. "reg" \in f.names
        BY <4>2, <4>3, Zenon DEF Renamed
      <4> QED BY <1>3, <2>3, <4>4, Zenon DEF SavedInv, Has
    <3>2. CASE saver \in {"create", "write"}
      <4>1. saved[k0] = 0 \/ \E g \in disk[k0] : "reg" \in g.names
        BY <2>1, <2>3, <3>2, Zenon DEF SavedInv, Has
      <4>2. saved'[k0] = 0 \/ \E f \in disk'[k0] : "reg" \in f.names
        BY <1>4, <1>5, <3>2, <4>1 DEF Renamed
      <4> QED BY <1>3, <2>3, <4>2, Zenon DEF SavedInv, Has
    <3> QED BY <1>5, <3>1, <3>2, Zenon
  <2> QED BY <2>2, <2>3, Zenon
<1>10. DumpInv'
  BY <1>3, Zenon DEF DumpInv
<1> QED BY <1>3, <1>7, <1>8, <1>9, <1>10, Zenon DEF DiskInv

(***************************************************************************)
(* Every step keeps CrashInv.                                              *)
(***************************************************************************)
LEMMA CrashStep == TypeInv /\ TypeInv' /\ CrashInv /\ [Next]_vars => CrashInv'
<1> SUFFICES ASSUME TypeInv, TypeInv', CrashInv, [Next]_vars PROVE CrashInv'
  BY Zenon
<1> USE DEF Packed, Dumping, requests, dump, history
<1> DEFINE Quiet == up /\ UNCHANGED <<up, faults>>
<1>0. \A k \in Kind : mem[k] \in Int /\ faults.crash \in Nat /\ faults.interrupt \in Nat
  BY VersionInt, Zenon DEF TypeInv
<1>1. ASSUME Quiet, DiskInv => DiskInv' PROVE CrashInv'
  BY <1>1, Zenon DEF CrashInv, FirstLife
<1>2. ASSUME NEW k \in Kind, Change(k) PROVE CrashInv'
  <2>1. \A i \in Kind : mem[i] <= mem'[i]
    <3>1. mem'[k] = mem[k] + 1 /\ \A i \in Kind \ {k} : mem'[i] = mem[i]
      BY <1>2, Zenon DEF Change, TypeInv
    <3> QED BY <1>0, <3>1
  <2>2. Quiet /\ UNCHANGED <<disk, saved, saver, at, buf, pos, nwrite>>
    BY <1>2, Zenon DEF Change
  <2> QED BY <1>1, <2>1, <2>2, DiskIdle, Zenon
<1>3. ASSUME Quiet, UNCHANGED <<mem, disk, saved>>,
             \/ saver \notin Packed /\ saver' \notin Packed
             \/ UNCHANGED <<saver, at, buf, pos, nwrite>>
      PROVE  CrashInv'
  <2>1. \A i \in Kind : mem[i] <= mem'[i]
    BY <1>0, <1>3
  <2> QED BY <1>1, <1>3, <2>1, DiskIdle, Zenon
<1>4. CASE (\E k \in Kind : Schedule(k)) \/ Save_all_state \/ Shutdown_state_save
  <2>1. /\ Quiet /\ UNCHANGED <<mem, disk, saved, at, buf, pos, nwrite>>
        /\ saver' = saver \/ (saver = "waiting" /\ saver' = "test")
    BY <1>4, Zenon DEF Schedule, Save_all_state, Shutdown_state_save, Ask, Broadcast
  <2> QED BY <1>3, <2>1, Zenon
<1>5. CASE Periodic \/ Shutdown \/ Tick
  BY <1>3, <1>5, Zenon DEF Periodic, Shutdown, Tick
<1>6. CASE StartWork \/ Exit \/ Wait \/ Take
  <2>1. Quiet /\ UNCHANGED <<mem, disk, saved>> /\ saver \notin Packed /\ saver' \notin Packed
    BY <1>6, Zenon DEF StartWork, Exit, Wait, Take, NextKind
  <2> QED BY <1>3, <2>1, Zenon
<1>7. CASE Pack \/ Create \/ WriteSome \/ Synced
  <2>1. Quiet
    BY <1>7, Zenon DEF Pack, Create, WriteSome, Write, Synced
  <2> QED BY <1>1, <1>7, <2>1, DiskWritten, Zenon
<1>8. CASE Shuffle
  <2>1. Quiet
    BY <1>8, Zenon DEF Shuffle, Unlink, Link
  <2> QED BY <1>1, <1>8, <2>1, DiskShuffled, Zenon
<1>9. CASE DumpDone
  <2>1. Quiet
    BY <1>9, Zenon DEF DumpDone
  <2> QED BY <1>1, <1>9, <2>1, DiskDone, Zenon
<1>10. CASE DumpFails
  <2>1. up /\ up' /\ Fault("error")
    BY <1>10, Zenon DEF DumpFails
  <2>2. faults'.crash = faults.crash /\ faults'.interrupt = faults.interrupt
    BY <2>1, FaultCounted, Zenon
  <2> QED BY <1>10, <2>1, <2>2, DiskDone, Zenon DEF CrashInv, FirstLife
<1>11. CASE Interrupted
  <2>1. faults'.interrupt > 0
    BY <1>11, FaultCounted, Zenon DEF Interrupted
  <2> QED BY <2>1 DEF CrashInv, FirstLife
<1>12. CASE Crash
  <2>1. UNCHANGED <<disk, saved>> /\ Fault("crash")
    BY <1>12, Zenon DEF Crash
  <2>2. faults'.crash = faults.crash + 1 /\ faults'.interrupt = faults.interrupt
    BY <2>1, FaultCounted, Zenon
  <2>3. ASSUME FirstLife, NEW k \in Kind PROVE Loadable(k)'
    <3>1. Loadable(k)
      BY <2>3, FindsTheSave, Zenon DEF CrashInv
    <3> QED BY <2>1, <3>1, Zenon DEF Loadable, Load, Named
  <2>4. faults.crash \in Nat /\ faults.interrupt \in Nat
    BY Zenon DEF TypeInv
  <2> QED BY <2>2, <2>3, <2>4 DEF CrashInv, FirstLife
<1>13. CASE Restart
  <2>1. ~up /\ up' /\ UNCHANGED faults
    BY <1>13, Zenon DEF Restart
  <2> QED BY <2>1, Zenon DEF CrashInv, FirstLife, DiskInv
<1>14. CASE UNCHANGED vars
  <2>1. CASE up
    BY <1>3, <1>14, <2>1, Zenon DEF vars
  <2>2. CASE ~up
    <3>1. UNCHANGED <<up, faults, disk, saved>>
      BY <1>14, Zenon DEF vars
    <3>2. \A k \in Kind : Loadable(k) => Loadable(k)'
      BY <3>1 DEF Loadable, Load, Named
    <3> QED BY <2>2, <3>1, <3>2, Zenon DEF CrashInv, FirstLife, DiskInv
  <2> QED BY <2>1, <2>2, Zenon DEF TypeInv
<1> QED
  BY <1>2, <1>4, <1>5, <1>6, <1>7, <1>8, <1>9, <1>10, <1>11, <1>12, <1>13, <1>14, Zenon
  DEF Next, Saver

-----------------------------------------------------------------------------
(***************************************************************************)
(* IInv always holds.                                                      *)
(***************************************************************************)
LEMMA Always == Spec => []IInv
<1>1. Init => IInv
  <2> SUFFICES ASSUME Init PROVE IInv
    BY Zenon
  <2> USE DEF Packed, Dumping
  <2>1. Len(Kinds) \in Nat /\ Len(Kinds) >= 1
    BY StateSaveAssumption
  <2>2. TypeInv
    BY <2>1 DEF Init, TypeInv, Zero, Nothing, Version
  <2>3. \A k \in Kind : mem[k] = 0 /\ asked[k] = lost /\ final[k] = lost /\ saved[k] = 0 /\ disk[k] = {}
    BY Zenon DEF Init, Zero, Nothing
  <2>4. up /\ saver = "test" /\ run_save_thread
    BY Zenon DEF Init
  <2>5. KeptInv
    BY <2>3, <2>4 DEF KeptInv, Ordered, Kept, AskedAgain, Ended, lost
  <2>6. DiskInv
    BY <2>3, <2>4 DEF DiskInv, SavedInv, DumpInv
  <2> QED BY <2>2, <2>4, <2>5, <2>6, Zenon DEF IInv, CrashInv
<1>2. IInv /\ [Next]_vars => IInv'
  BY TypeStep, KeptStep, CrashStep, Zenon DEF IInv
<1> QED BY <1>1, <1>2, PTL DEF Spec

(***************************************************************************)
(* The save thread forgets no request, for any kinds and any interleaving  *)
(* of requests, dumps, failures and crashes.                               *)
(***************************************************************************)
THEOREM RequestsKept == Spec => []RequestsAreKept
<1>1. IInv => RequestsAreKept
  <2> SUFFICES ASSUME IInv, saver \in {"test", "waiting", "exited"}, NEW k \in Kind \ (save \cup failed)
               PROVE  saved[k] >= asked[k]
    BY Zenon DEF RequestsAreKept
  <2>1. asked[k] <= saved[k]
    BY Zenon DEF IInv, KeptInv, Kept, Dumping, Packed
  <2>2. saved[k] \in Version /\ asked[k] \in Version
    BY Zenon DEF IInv, TypeInv
  <2> QED BY <2>1, <2>2, Zenon DEF Version, lost
<1> QED BY <1>1, Always, PTL

(***************************************************************************)
(* When the save thread has exited, all that save_all_state asked for at   *)
(* shutdown is on disk, unless its dump failed.                            *)
(***************************************************************************)
THEOREM ShutdownSaves == Spec => []ShutdownSavesAll
<1>1. IInv => ShutdownSavesAll
  <2> SUFFICES ASSUME IInv, saver = "exited", NEW k \in Kind \ failed
               PROVE  saved[k] >= final[k]
    BY Zenon DEF ShutdownSavesAll
  <2>1. final[k] <= saved[k]
    BY Zenon DEF IInv, KeptInv, Ended
  <2>2. saved[k] \in Version /\ final[k] \in Version
    BY Zenon DEF IInv, TypeInv
  <2> QED BY <2>1, <2>2, Zenon DEF Version, lost
<1> QED BY <1>1, Always, PTL

(***************************************************************************)
(* After the first crash, with no write interrupted, load_all_job_state    *)
(* finds a whole file that is at least as new as the last complete save,   *)
(* for any file size and at whichever step of whichever dump it came.      *)
(***************************************************************************)
THEOREM LastSaveRecovered == Spec => RecoversTheLastSave
<1> DEFINE Recovered ==
        ~up /\ up' /\ faults.interrupt = 0 /\ faults.crash = 1 =>
            \A k \in Kind : mem'[k] # lost /\ mem'[k] >= saved[k]
<1>1. IInv /\ [Next]_vars => Recovered
  <2> SUFFICES ASSUME IInv, [Next]_vars, ~up, up', faults.interrupt = 0, faults.crash = 1,
                      NEW k \in Kind
               PROVE  mem'[k] # lost /\ mem'[k] >= saved[k]
    BY Zenon
  <2>1. Restart
    BY Zenon DEF Next, Saver, vars, Change, Schedule, Periodic, Shutdown, Save_all_state, Shutdown_state_save,
           Tick, StartWork, Exit, Wait, Take, Pack, Create, WriteSome, Write, Synced, Shuffle, Unlink,
           Link, DumpDone, Interrupted, DumpFails, Crash
  <2>2. mem'[k] = Load(k)
    BY <2>1, Zenon DEF Restart
  <2>3. Loadable(k)
    BY Zenon DEF IInv, CrashInv
  <2> QED BY <2>2, <2>3, Zenon DEF Loadable
<1>2. IInv /\ [Next]_vars => [Recovered]_vars
  BY <1>1, Zenon
<1>3. Spec => [][Recovered]_vars
  BY <1>2, Always, PTL DEF Spec
<1> QED BY <1>3, Zenon DEF RecoversTheLastSave
=============================================================================
