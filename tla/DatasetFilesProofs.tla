-------------------------- MODULE DatasetFilesProofs --------------------------
(***************************************************************************)
(* Proofs about DatasetFiles, for any number of requests of any kinds,     *)
(* with and without failing calls and crashes.                             *)
(*                                                                         *)
(* Every property is about a request that had the dataset for itself, so   *)
(* Inv says what such a request may rely on: it is the only one in flight  *)
(* (Solo), and each call it has made so far still has its effect, because  *)
(* nobody but itself touches the files (Effects).  That a program makes    *)
(* its calls in an order that works is a fact about the programs, read off *)
(* their lists of calls (WellFormed, Complete).                            *)
(***************************************************************************)
EXTENDS DatasetFiles, TLAPS

Calls == [do : {"absent", "present", "version", "open", "write", "rename", "remove"},
          path : Paths]

FilesTypeOK ==
  /\ files \in [Paths -> File]
  /\ tmps \in [Paths -> File]
  /\ kind \in [Requests -> AllKinds \cup {"none"}]
  /\ at \in [Requests -> Nat]
  /\ handle \in [Requests -> {"none", "tmp", "file", "gone"}]
  /\ version \in [Requests -> Nat]
  /\ result \in [Requests -> {"none", "ok", "refused", "failed", "lost"}]
  /\ spoiled \in [Requests -> BOOLEAN]
  /\ alone \in [Requests -> BOOLEAN]
  /\ wrote \in [Requests -> BOOLEAN]

\* A request in flight is at a call of its program, one that has not begun
\* or has ended is not.
Underway ==
  \A r \in Requests :
    /\ at[r] # 0 => kind[r] # "none" /\ at[r] \in 1 .. Len(Program[kind[r]])
    /\ kind[r] = "none" => ~wrote[r] /\ ~spoiled[r]
    /\ result[r] # "none" => at[r] = 0 /\ kind[r] # "none"

\* Nobody else is in flight with a request that is alone.
Solo ==
  \A r, q \in Requests : alone[r] /\ at[r] # 0 /\ at[q] # 0 => q = r

\* Request r has made a call when n calls of its program are made.
Made(r, n, do, p) == \E i \in 1 .. n : Program[kind[r]][i] = Call(do, p)

\* What r finds when n calls of its program are made.
Effects(r, n) ==
  /\ \A p \in Paths :
       /\ n > 0 /\ Program[kind[r]][n] = Call("open", p) =>
            handle[r] = "tmp" /\ tmps[p] = Partial
       /\ Made(r, n, "write", p) /\ ~Made(r, n, "rename", p) =>
            tmps[p].by = r /\ (p = "schema_meta" => tmps[p].version = version[r])
       /\ Made(r, n, "rename", p) =>
            files[p].by = r /\ (p = "schema_meta" => files[p].version = version[r])
       /\ Made(r, n, "absent", p) /\ ~Made(r, n, "rename", p) => ~Exists(p)
       /\ Made(r, n, "present", p) /\ ~Made(r, n, "remove", p) => Exists(p)
       /\ Made(r, n, "remove", p) => ~Exists(p) \/ spoiled[r]
  /\ wrote[r] => \E p \in Paths : Made(r, n, "rename", p) \/ Made(r, n, "remove", p)

Reliable ==
  \A r \in Requests, n \in Nat : alone[r] /\ at[r] = n + 1 => Effects(r, n)

Inv == FilesTypeOK /\ Underway /\ Solo /\ Reliable /\ RefusalIsClean /\ TornOnlyByOverlap

-----------------------------------------------------------------------------
(* The programs.                                                           *)

\* What is written was opened just before, what is renamed was written, and
\* nothing is opened, renamed or versioned again.
Ordered(prog) ==
  \A i \in 1 .. Len(prog), p \in Paths :
    /\ prog[i] = Call("write", p) => i > 1 /\ prog[i - 1] = Call("open", p)
    /\ prog[i] = Call("rename", p) =>
         \E j \in 1 .. (i - 1) : prog[j] = Call("write", p)
    /\ prog[i] = Call("version", p) => p = "schema_meta"

Once(prog) ==
  \A i \in 1 .. Len(prog), j \in 1 .. Len(prog), p \in Paths : j < i =>
    /\ prog[i] = Call("open", p) => prog[j] # Call("write", p)
    /\ prog[i] = Call("version", p) =>
         prog[j] # Call("write", p) /\ prog[j] # Call("rename", p)
    /\ prog[i] = Call("rename", p) =>
         prog[j] # Call("rename", p) /\ prog[j] # Call("remove", p)
    /\ prog[i] = Call("remove", p) => prog[j] # Call("rename", p)

\* Checks come before changes, but for one that was made before already.
CheckedFirst(prog) ==
  \A i \in 1 .. Len(prog), j \in 1 .. Len(prog), p \in Paths :
    j < i /\ prog[j].do \in {"rename", "remove"} =>
      /\ prog[i] # Call("present", p)
      /\ prog[i] = Call("absent", p) =>
           /\ \E l \in 1 .. (i - 1) : prog[l] = Call("absent", p)
           /\ prog[j] # Call("rename", p)

WellFormed(prog) ==
  /\ Len(prog) \in Nat \ {0}
  /\ \A i \in 1 .. Len(prog) : prog[i] \in Calls
  /\ Ordered(prog) /\ Once(prog) /\ CheckedFirst(prog)

Has(prog, do, p) == \E i \in 1 .. Len(prog) : prog[i] = Call(do, p)

\* A program makes the calls its promise needs.
Complete(k, prog) ==
  /\ k \in {"import", "import_over"} => \A p \in Core : Has(prog, "rename", p)
  /\ k \in {"put", "put_over"} =>
       \A p \in {"schema", "schema_meta"} : Has(prog, "rename", p)
  /\ k = "delete_keep" => \A p \in Core : Has(prog, "remove", p)
  /\ k \in {"delete", "delete_force"} => \A p \in Paths : Has(prog, "remove", p)
  /\ k \in Rebuilds =>
       /\ \A p \in {"metadata", "corpus", "schema"} :
            Has(prog, "present", p) /\ ~Has(prog, "remove", p)
       /\ \A p \in Outputs :
            \/ Has(prog, "remove", p)
            \/ Has(prog, "absent", p) /\ ~Has(prog, "rename", p)

\* A program is as good as the list of its calls.
LEMMA Listed ==
  ASSUME NEW prog, NEW list, Len(prog) = Len(list), Len(list) \in Nat,
         \A i \in 1 .. Len(list) : prog[i] = list[i],
         NEW k, WellFormed(list), Complete(k, list)
  PROVE  WellFormed(prog) /\ Complete(k, prog)
BY SMTT(30) DEF WellFormed, Ordered, Once, CheckedFirst, Complete, Has

LEMMA ImportCalls ==
  ASSUME NEW prog, prog = ImportSteps(FALSE)
  PROVE  WellFormed(prog) /\ Complete("import", prog)
<1> DEFINE list ==
    <<Call("absent", "corpus"), Call("absent", "schema"),
      Call("absent", "schema_meta"), Call("absent", "metadata"),
      Call("open", "corpus"), Call("write", "corpus"),
      Call("rename", "corpus"), Call("absent", "schema"),
      Call("version", "schema_meta"), Call("open", "schema"),
      Call("write", "schema"), Call("open", "schema_meta"),
      Call("write", "schema_meta"), Call("rename", "schema"),
      Call("rename", "schema_meta"), Call("open", "metadata"),
      Call("write", "metadata"), Call("rename", "metadata")>>
<1>1. Len(prog) = 18 /\ Len(list) = 18
  BY DEF ImportSteps, PutSteps, Copy, All
<1>2. \A i \in 1 .. 18 : prog[i] = list[i]
  BY DEF ImportSteps, PutSteps, Copy, All
<1>3. WellFormed(list)
  <2>1. Ordered(list)
    BY DEF Ordered, Call, Paths, Core, Outputs
  <2>2. Once(list) /\ CheckedFirst(list)
    BY DEF Once, CheckedFirst, Call
  <2>3. \A i \in 1 .. 18 : list[i] \in Calls
    BY DEF Calls, Call, Paths, Core, Outputs
  <2> QED
    BY <1>1, <2>1, <2>2, <2>3 DEF WellFormed
<1>4. Complete("import", list)
  <2>1. /\ list[7] = Call("rename", "corpus")
        /\ list[14] = Call("rename", "schema")
        /\ list[15] = Call("rename", "schema_meta")
        /\ list[18] = Call("rename", "metadata")
    BY DEF Call
  <2> QED
    BY <1>1, <2>1 DEF Complete, Has, Paths, Core, Outputs, Rebuilds
<1> HIDE DEF list
<1>5. Len(prog) = Len(list)
  BY <1>1, Zenon
<1>6. Len(list) \in Nat
  BY <1>1
<1>7. \A i \in 1 .. Len(list) : prog[i] = list[i]
  BY <1>1, <1>2
<1> QED
  BY <1>3, <1>4, <1>5, <1>6, <1>7, Listed

LEMMA ImportOverCalls ==
  ASSUME NEW prog, prog = ImportSteps(TRUE)
  PROVE  WellFormed(prog) /\ Complete("import_over", prog)
<1> DEFINE list ==
    <<Call("open", "corpus"), Call("write", "corpus"),
      Call("rename", "corpus"), Call("version", "schema_meta"),
      Call("open", "schema"), Call("write", "schema"),
      Call("open", "schema_meta"), Call("write", "schema_meta"),
      Call("rename", "schema"), Call("rename", "schema_meta"),
      Call("open", "metadata"), Call("write", "metadata"),
      Call("rename", "metadata")>>
<1>1. Len(prog) = 13 /\ Len(list) = 13
  BY DEF ImportSteps, PutSteps, Copy, All
<1>2. \A i \in 1 .. 13 : prog[i] = list[i]
  BY DEF ImportSteps, PutSteps, Copy, All
<1>3. WellFormed(list)
  <2>1. Ordered(list)
    BY DEF Ordered, Call, Paths, Core, Outputs
  <2>2. Once(list) /\ CheckedFirst(list)
    BY DEF Once, CheckedFirst, Call
  <2>3. \A i \in 1 .. 13 : list[i] \in Calls
    BY DEF Calls, Call, Paths, Core, Outputs
  <2> QED
    BY <1>1, <2>1, <2>2, <2>3 DEF WellFormed
<1>4. Complete("import_over", list)
  <2>1. /\ list[3] = Call("rename", "corpus")
        /\ list[9] = Call("rename", "schema")
        /\ list[10] = Call("rename", "schema_meta")
        /\ list[13] = Call("rename", "metadata")
    BY DEF Call
  <2> QED
    BY <1>1, <2>1 DEF Complete, Has, Paths, Core, Outputs, Rebuilds
<1> HIDE DEF list
<1>5. Len(prog) = Len(list)
  BY <1>1, Zenon
<1>6. Len(list) \in Nat
  BY <1>1
<1>7. \A i \in 1 .. Len(list) : prog[i] = list[i]
  BY <1>1, <1>2
<1> QED
  BY <1>3, <1>4, <1>5, <1>6, <1>7, Listed

LEMMA PutCalls ==
  ASSUME NEW prog, prog = PutSteps(FALSE)
  PROVE  WellFormed(prog) /\ Complete("put", prog)
<1> DEFINE list ==
    <<Call("absent", "schema"), Call("version", "schema_meta"),
      Call("open", "schema"), Call("write", "schema"),
      Call("open", "schema_meta"), Call("write", "schema_meta"),
      Call("rename", "schema"), Call("rename", "schema_meta")>>
<1>1. Len(prog) = 8 /\ Len(list) = 8
  BY DEF PutSteps
<1>2. \A i \in 1 .. 8 : prog[i] = list[i]
  BY DEF PutSteps
<1>3. WellFormed(list)
  <2>1. Ordered(list)
    BY DEF Ordered, Call, Paths, Core, Outputs
  <2>2. Once(list) /\ CheckedFirst(list)
    BY DEF Once, CheckedFirst, Call
  <2>3. \A i \in 1 .. 8 : list[i] \in Calls
    BY DEF Calls, Call, Paths, Core, Outputs
  <2> QED
    BY <1>1, <2>1, <2>2, <2>3 DEF WellFormed
<1>4. Complete("put", list)
  <2>1. /\ list[7] = Call("rename", "schema")
        /\ list[8] = Call("rename", "schema_meta")
    BY DEF Call
  <2> QED
    BY <1>1, <2>1 DEF Complete, Has, Paths, Core, Outputs, Rebuilds
<1> HIDE DEF list
<1>5. Len(prog) = Len(list)
  BY <1>1, Zenon
<1>6. Len(list) \in Nat
  BY <1>1
<1>7. \A i \in 1 .. Len(list) : prog[i] = list[i]
  BY <1>1, <1>2
<1> QED
  BY <1>3, <1>4, <1>5, <1>6, <1>7, Listed

LEMMA PutOverCalls ==
  ASSUME NEW prog, prog = PutSteps(TRUE)
  PROVE  WellFormed(prog) /\ Complete("put_over", prog)
<1> DEFINE list ==
    <<Call("version", "schema_meta"), Call("open", "schema"),
      Call("write", "schema"), Call("open", "schema_meta"),
      Call("write", "schema_meta"), Call("rename", "schema"),
      Call("rename", "schema_meta")>>
<1>1. Len(prog) = 7 /\ Len(list) = 7
  BY DEF PutSteps
<1>2. \A i \in 1 .. 7 : prog[i] = list[i]
  BY DEF PutSteps
<1>3. WellFormed(list)
  <2>1. Ordered(list)
    BY DEF Ordered, Call, Paths, Core, Outputs
  <2>2. Once(list) /\ CheckedFirst(list)
    BY DEF Once, CheckedFirst, Call
  <2>3. \A i \in 1 .. 7 : list[i] \in Calls
    BY DEF Calls, Call, Paths, Core, Outputs
  <2> QED
    BY <1>1, <2>1, <2>2, <2>3 DEF WellFormed
<1>4. Complete("put_over", list)
  <2>1. /\ list[6] = Call("rename", "schema")
        /\ list[7] = Call("rename", "schema_meta")
    BY DEF Call
  <2> QED
    BY <1>1, <2>1 DEF Complete, Has, Paths, Core, Outputs, Rebuilds
<1> HIDE DEF list
<1>5. Len(prog) = Len(list)
  BY <1>1, Zenon
<1>6. Len(list) \in Nat
  BY <1>1
<1>7. \A i \in 1 .. Len(list) : prog[i] = list[i]
  BY <1>1, <1>2
<1> QED
  BY <1>3, <1>4, <1>5, <1>6, <1>7, Listed

LEMMA DeleteCalls ==
  ASSUME NEW prog, prog = DeleteSteps(FALSE, TRUE)
  PROVE  WellFormed(prog) /\ Complete("delete", prog)
<1> DEFINE list ==
    <<Call("present", "metadata"), Call("remove", "corpus"),
      Call("remove", "schema"), Call("remove", "schema_meta"),
      Call("remove", "metadata"), Call("remove", "graph"),
      Call("remove", "chunks")>>
<1>1. Len(prog) = 7 /\ Len(list) = 7
  BY DEF DeleteSteps, All
<1>2. \A i \in 1 .. 7 : prog[i] = list[i]
  BY DEF DeleteSteps, All
<1>3. WellFormed(list)
  <2>1. Ordered(list)
    BY DEF Ordered, Call, Paths, Core, Outputs
  <2>2. Once(list) /\ CheckedFirst(list)
    BY DEF Once, CheckedFirst, Call
  <2>3. \A i \in 1 .. 7 : list[i] \in Calls
    BY DEF Calls, Call, Paths, Core, Outputs
  <2> QED
    BY <1>1, <2>1, <2>2, <2>3 DEF WellFormed
<1>4. Complete("delete", list)
  <2>1. /\ list[2] = Call("remove", "corpus")
        /\ list[3] = Call("remove", "schema")
        /\ list[4] = Call("remove", "schema_meta")
        /\ list[5] = Call("remove", "metadata")
        /\ list[6] = Call("remove", "graph")
        /\ list[7] = Call("remove", "chunks")
    BY DEF Call
  <2> QED
    BY <1>1, <2>1 DEF Complete, Has, Paths, Core, Outputs, Rebuilds
<1> HIDE DEF list
<1>5. Len(prog) = Len(list)
  BY <1>1, Zenon
<1>6. Len(list) \in Nat
  BY <1>1
<1>7. \A i \in 1 .. Len(list) : prog[i] = list[i]
  BY <1>1, <1>2
<1> QED
  BY <1>3, <1>4, <1>5, <1>6, <1>7, Listed

LEMMA DeleteKeepCalls ==
  ASSUME NEW prog, prog = DeleteSteps(FALSE, FALSE)
  PROVE  WellFormed(prog) /\ Complete("delete_keep", prog)
<1> DEFINE list ==
    <<Call("present", "metadata"), Call("remove", "corpus"),
      Call("remove", "schema"), Call("remove", "schema_meta"),
      Call("remove", "metadata")>>
<1>1. Len(prog) = 5 /\ Len(list) = 5
  BY DEF DeleteSteps, All
<1>2. \A i \in 1 .. 5 : prog[i] = list[i]
  BY DEF DeleteSteps, All
<1>3. WellFormed(list)
  <2>1. Ordered(list)
    BY DEF Ordered, Call, Paths, Core, Outputs
  <2>2. Once(list) /\ CheckedFirst(list)
    BY DEF Once, CheckedFirst, Call
  <2>3. \A i \in 1 .. 5 : list[i] \in Calls
    BY DEF Calls, Call, Paths, Core, Outputs
  <2> QED
    BY <1>1, <2>1, <2>2, <2>3 DEF WellFormed
<1>4. Complete("delete_keep", list)
  <2>1. /\ list[2] = Call("remove", "corpus")
        /\ list[3] = Call("remove", "schema")
        /\ list[4] = Call("remove", "schema_meta")
        /\ list[5] = Call("remove", "metadata")
    BY DEF Call
  <2> QED
    BY <1>1, <2>1 DEF Complete, Has, Paths, Core, Outputs, Rebuilds
<1> HIDE DEF list
<1>5. Len(prog) = Len(list)
  BY <1>1, Zenon
<1>6. Len(list) \in Nat
  BY <1>1
<1>7. \A i \in 1 .. Len(list) : prog[i] = list[i]
  BY <1>1, <1>2
<1> QED
  BY <1>3, <1>4, <1>5, <1>6, <1>7, Listed

LEMMA DeleteForceCalls ==
  ASSUME NEW prog, prog = DeleteSteps(TRUE, TRUE)
  PROVE  WellFormed(prog) /\ Complete("delete_force", prog)
<1> DEFINE list ==
    <<Call("remove", "corpus"), Call("remove", "schema"),
      Call("remove", "schema_meta"), Call("remove", "metadata"),
      Call("remove", "graph"), Call("remove", "chunks")>>
<1>1. Len(prog) = 6 /\ Len(list) = 6
  BY DEF DeleteSteps, All
<1>2. \A i \in 1 .. 6 : prog[i] = list[i]
  BY DEF DeleteSteps, All
<1>3. WellFormed(list)
  <2>1. Ordered(list)
    BY DEF Ordered, Call, Paths, Core, Outputs
  <2>2. Once(list) /\ CheckedFirst(list)
    BY DEF Once, CheckedFirst, Call
  <2>3. \A i \in 1 .. 6 : list[i] \in Calls
    BY DEF Calls, Call, Paths, Core, Outputs
  <2> QED
    BY <1>1, <2>1, <2>2, <2>3 DEF WellFormed
<1>4. Complete("delete_force", list)
  <2>1. /\ list[1] = Call("remove", "corpus")
        /\ list[2] = Call("remove", "schema")
        /\ list[3] = Call("remove", "schema_meta")
        /\ list[4] = Call("remove", "metadata")
        /\ list[5] = Call("remove", "graph")
        /\ list[6] = Call("remove", "chunks")
    BY DEF Call
  <2> QED
    BY <1>1, <2>1 DEF Complete, Has, Paths, Core, Outputs, Rebuilds
<1> HIDE DEF list
<1>5. Len(prog) = Len(list)
  BY <1>1, Zenon
<1>6. Len(list) \in Nat
  BY <1>1
<1>7. \A i \in 1 .. Len(list) : prog[i] = list[i]
  BY <1>1, <1>2
<1> QED
  BY <1>3, <1>4, <1>5, <1>6, <1>7, Listed

LEMMA RebuildCalls ==
  ASSUME NEW prog, prog = RebuildSteps(TRUE)
  PROVE  WellFormed(prog) /\ Complete("rebuild", prog)
<1> DEFINE list ==
    <<Call("present", "metadata"), Call("present", "corpus"),
      Call("present", "schema"), Call("remove", "graph"),
      Call("remove", "chunks")>>
<1>1. Len(prog) = 5 /\ Len(list) = 5
  BY DEF RebuildSteps, All
<1>2. \A i \in 1 .. 5 : prog[i] = list[i]
  BY DEF RebuildSteps, All
<1>3. WellFormed(list)
  <2>1. Ordered(list)
    BY DEF Ordered, Call, Paths, Core, Outputs
  <2>2. Once(list) /\ CheckedFirst(list)
    BY DEF Once, CheckedFirst, Call
  <2>3. \A i \in 1 .. 5 : list[i] \in Calls
    BY DEF Calls, Call, Paths, Core, Outputs
  <2> QED
    BY <1>1, <2>1, <2>2, <2>3 DEF WellFormed
<1>4. Complete("rebuild", list)
  <2>1. /\ list[1] = Call("present", "metadata")
        /\ list[2] = Call("present", "corpus")
        /\ list[3] = Call("present", "schema")
        /\ list[4] = Call("remove", "graph")
        /\ list[5] = Call("remove", "chunks")
    BY DEF Call
  <2>2. ASSUME NEW i \in 1 .. 5
        PROVE  /\ list[i].do # "rename"
               /\ list[i].do = "remove" => list[i].path \in Outputs
    BY DEF Call, Outputs
  <2>3. \A p \in Paths :
          Has(list, "rename", p) \/ Has(list, "remove", p) => p \in Outputs
    BY <1>1, <2>2 DEF Has, Call
  <2>4. \A p \in Paths : ~Has(list, "rename", p)
    BY <1>1, <2>2 DEF Has, Call
  <2> HIDE DEF list
  <2> QED
    BY <1>1, <2>1, <2>3, <2>4 DEF Complete, Has, Paths, Core, Outputs, Rebuilds
<1> HIDE DEF list
<1>5. Len(prog) = Len(list)
  BY <1>1, Zenon
<1>6. Len(list) \in Nat
  BY <1>1
<1>7. \A i \in 1 .. Len(list) : prog[i] = list[i]
  BY <1>1, <1>2
<1> QED
  BY <1>3, <1>4, <1>5, <1>6, <1>7, Listed

LEMMA RebuildKeepCalls ==
  ASSUME NEW prog, prog = RebuildSteps(FALSE)
  PROVE  WellFormed(prog) /\ Complete("rebuild_keep", prog)
<1> DEFINE list ==
    <<Call("present", "metadata"), Call("present", "corpus"),
      Call("present", "schema"), Call("absent", "graph"),
      Call("absent", "chunks")>>
<1>1. Len(prog) = 5 /\ Len(list) = 5
  BY DEF RebuildSteps, All
<1>2. \A i \in 1 .. 5 : prog[i] = list[i]
  BY DEF RebuildSteps, All
<1>3. WellFormed(list)
  <2>1. Ordered(list)
    BY DEF Ordered, Call, Paths, Core, Outputs
  <2>2. Once(list) /\ CheckedFirst(list)
    BY DEF Once, CheckedFirst, Call
  <2>3. \A i \in 1 .. 5 : list[i] \in Calls
    BY DEF Calls, Call, Paths, Core, Outputs
  <2> QED
    BY <1>1, <2>1, <2>2, <2>3 DEF WellFormed
<1>4. Complete("rebuild_keep", list)
  <2>1. /\ list[1] = Call("present", "metadata")
        /\ list[2] = Call("present", "corpus")
        /\ list[3] = Call("present", "schema")
        /\ list[4] = Call("absent", "graph")
        /\ list[5] = Call("absent", "chunks")
    BY DEF Call
  <2>2. ASSUME NEW i \in 1 .. 5
        PROVE  /\ list[i].do # "rename"
               /\ list[i].do = "remove" => list[i].path \in Outputs
    BY DEF Call, Outputs
  <2>3. \A p \in Paths :
          Has(list, "rename", p) \/ Has(list, "remove", p) => p \in Outputs
    BY <1>1, <2>2 DEF Has, Call
  <2>4. \A p \in Paths : ~Has(list, "rename", p)
    BY <1>1, <2>2 DEF Has, Call
  <2> HIDE DEF list
  <2> QED
    BY <1>1, <2>1, <2>3, <2>4 DEF Complete, Has, Paths, Core, Outputs, Rebuilds
<1> HIDE DEF list
<1>5. Len(prog) = Len(list)
  BY <1>1, Zenon
<1>6. Len(list) \in Nat
  BY <1>1
<1>7. \A i \in 1 .. Len(list) : prog[i] = list[i]
  BY <1>1, <1>2
<1> QED
  BY <1>3, <1>4, <1>5, <1>6, <1>7, Listed

LEMMA ProgramFacts ==
  \A k \in AllKinds : WellFormed(Program[k]) /\ Complete(k, Program[k])
<1> SUFFICES ASSUME NEW k \in AllKinds
             PROVE  WellFormed(Program[k]) /\ Complete(k, Program[k])
  OBVIOUS
<1> USE DEF Program, AllKinds
<1>1. CASE k = "import"
  BY <1>1, ImportCalls
<1>2. CASE k = "import_over"
  BY <1>2, ImportOverCalls
<1>3. CASE k = "put"
  BY <1>3, PutCalls
<1>4. CASE k = "put_over"
  BY <1>4, PutOverCalls
<1>5. CASE k = "delete"
  BY <1>5, DeleteCalls
<1>6. CASE k = "delete_keep"
  BY <1>6, DeleteKeepCalls
<1>7. CASE k = "delete_force"
  BY <1>7, DeleteForceCalls
<1>8. CASE k = "rebuild"
  BY <1>8, RebuildCalls
<1>9. CASE k = "rebuild_keep"
  BY <1>9, RebuildKeepCalls
<1> QED
  BY <1>1, <1>2, <1>3, <1>4, <1>5, <1>6, <1>7, <1>8, <1>9

\* Where a request in flight is.
LEMMA Flying ==
  ASSUME FilesTypeOK, Underway, NEW r \in Requests, at[r] # 0
  PROVE  /\ kind[r] \in AllKinds
         /\ at[r] \in 1 .. Len(Program[kind[r]])
         /\ WellFormed(Program[kind[r]]) /\ Complete(kind[r], Program[kind[r]])
         /\ result[r] = "none"
<1>1. kind[r] \in AllKinds
  BY DEF FilesTypeOK, Underway
<1> QED
  BY <1>1, ProgramFacts DEF FilesTypeOK, Underway

\* One call more has been made.
LEMMA MadeNow ==
  ASSUME FilesTypeOK, Underway, NEW r \in Requests, NEW n, n = at[r], NEW d, NEW c,
         Doing(r, d, c), kind' = kind
  PROVE  \A do, p : Made(r, n, do, p)' <=> Made(r, n - 1, do, p) \/ (do = d /\ p = c)
<1>1. n \in Nat \ {0} /\ Program[kind[r]][n] = Call(d, c)
  BY Flying DEF Doing, WellFormed
<1>2. \A do, p : Call(d, c) = Call(do, p) <=> do = d /\ p = c
  BY DEF Call
<1>3. \A i : i \in 1 .. n <=> i \in 1 .. (n - 1) \/ i = n
  BY <1>1
<1> QED
  BY <1>1, <1>2, <1>3 DEF Made

\* What the order of a program says of the calls made before this one.
LEMMA Past ==
  ASSUME FilesTypeOK, Underway, NEW r \in Requests, NEW n, n = at[r], NEW p \in Paths
  PROVE  /\ Doing(r, "write", p) =>
              n - 1 > 0 /\ Program[kind[r]][n - 1] = Call("open", p)
         /\ Doing(r, "rename", p) =>
              /\ Made(r, n - 1, "write", p)
              /\ ~Made(r, n - 1, "rename", p) /\ ~Made(r, n - 1, "remove", p)
         /\ Doing(r, "open", p) => ~Made(r, n - 1, "write", p)
         /\ Doing(r, "version", p) =>
              /\ p = "schema_meta"
              /\ ~Made(r, n - 1, "write", p) /\ ~Made(r, n - 1, "rename", p)
         /\ Doing(r, "remove", p) => ~Made(r, n - 1, "rename", p)
         /\ Doing(r, "present", p) =>
              \A q \in Paths : ~Made(r, n - 1, "rename", q) /\ ~Made(r, n - 1, "remove", q)
         /\ Doing(r, "absent", p) =>
              \A q \in Paths : Made(r, n - 1, "rename", q) \/ Made(r, n - 1, "remove", q) =>
                Made(r, n - 1, "absent", p) /\ ~Made(r, n - 1, "rename", p)
<1> SUFFICES ASSUME at[r] # 0
             PROVE  /\ Doing(r, "write", p) =>
                         n - 1 > 0 /\ Program[kind[r]][n - 1] = Call("open", p)
                    /\ Doing(r, "rename", p) =>
                         /\ Made(r, n - 1, "write", p)
                         /\ ~Made(r, n - 1, "rename", p) /\ ~Made(r, n - 1, "remove", p)
                    /\ Doing(r, "open", p) => ~Made(r, n - 1, "write", p)
                    /\ Doing(r, "version", p) =>
                         /\ p = "schema_meta"
                         /\ ~Made(r, n - 1, "write", p) /\ ~Made(r, n - 1, "rename", p)
                    /\ Doing(r, "remove", p) => ~Made(r, n - 1, "rename", p)
                    /\ Doing(r, "present", p) =>
                         \A q \in Paths : ~Made(r, n - 1, "rename", q) /\ ~Made(r, n - 1, "remove", q)
                    /\ Doing(r, "absent", p) =>
                         \A q \in Paths : Made(r, n - 1, "rename", q) \/ Made(r, n - 1, "remove", q) =>
                           Made(r, n - 1, "absent", p) /\ ~Made(r, n - 1, "rename", p)
  BY DEF Doing
<1> DEFINE prog == Program[kind[r]]
<1>1. /\ n \in 1 .. Len(prog) /\ Len(prog) \in Nat
      /\ Ordered(prog) /\ Once(prog) /\ CheckedFirst(prog)
  BY Flying DEF WellFormed
<1>2. \A i \in 1 .. (n - 1) : i \in 1 .. Len(prog) /\ i < n
  BY <1>1
<1>3. \A do, q : Call(do, q).do = do
  BY DEF Call
<1> HIDE DEF prog
<1>4. \A do : Doing(r, do, p) <=> prog[n] = Call(do, p)
  BY DEF Doing, prog
<1>5. \A do, q : Made(r, n - 1, do, q) <=> \E i \in 1 .. (n - 1) : prog[i] = Call(do, q)
  BY DEF Made, prog
<1>6. Doing(r, "write", p) => n - 1 > 0 /\ prog[n - 1] = Call("open", p)
  BY <1>1, <1>4 DEF Ordered
<1>7. Doing(r, "rename", p) =>
        /\ Made(r, n - 1, "write", p)
        /\ ~Made(r, n - 1, "rename", p) /\ ~Made(r, n - 1, "remove", p)
  BY SMTT(40), <1>1, <1>2, <1>4, <1>5 DEF Ordered, Once
<1>8. Doing(r, "open", p) => ~Made(r, n - 1, "write", p)
  BY <1>1, <1>2, <1>4, <1>5 DEF Once
<1>9. Doing(r, "version", p) =>
        /\ p = "schema_meta"
        /\ ~Made(r, n - 1, "write", p) /\ ~Made(r, n - 1, "rename", p)
  BY <1>1, <1>2, <1>4, <1>5 DEF Ordered, Once
<1>10. Doing(r, "remove", p) => ~Made(r, n - 1, "rename", p)
  BY <1>1, <1>2, <1>4, <1>5 DEF Once
<1>11. Doing(r, "present", p) =>
         \A q \in Paths : ~Made(r, n - 1, "rename", q) /\ ~Made(r, n - 1, "remove", q)
  <2> SUFFICES ASSUME Doing(r, "present", p), NEW q \in Paths,
                      Made(r, n - 1, "rename", q) \/ Made(r, n - 1, "remove", q)
               PROVE  FALSE
    OBVIOUS
  <2>1. PICK i \in 1 .. (n - 1) : prog[i] = Call("rename", q) \/ prog[i] = Call("remove", q)
    BY <1>5
  <2>2. i \in 1 .. Len(prog) /\ i < n /\ prog[i].do \in {"rename", "remove"}
    BY <1>2, <1>3, <2>1
  <2> QED
    BY <1>1, <1>4, <2>2 DEF CheckedFirst
<1>12. Doing(r, "absent", p) =>
         \A q \in Paths : Made(r, n - 1, "rename", q) \/ Made(r, n - 1, "remove", q) =>
           Made(r, n - 1, "absent", p) /\ ~Made(r, n - 1, "rename", p)
  BY SMTT(30), <1>1, <1>2, <1>3, <1>4, <1>5 DEF CheckedFirst
<1> QED
  BY <1>6, <1>7, <1>8, <1>9, <1>10, <1>11, <1>12 DEF prog
-----------------------------------------------------------------------------
(* What a call leaves to the request that made it, alone.                  *)

\* A step of a request that is alone, at call n.
LEMMA CheckEffects ==
  ASSUME FilesTypeOK, Underway, Solo, NEW r \in Requests, NEW n, n = at[r],
         Effects(r, n - 1), Check(r), result'[r] # "refused"
  PROVE  Effects(r, n)'
<1>1. PICK c \in Paths :
        /\ \/ Doing(r, "absent", c) /\ ~Exists(c)
           \/ Doing(r, "present", c) /\ Exists(c)
        /\ UNCHANGED <<files, tmps, kind, handle, version, spoiled, alone, wrote>>
  BY DEF Check, Ends, FilesTypeOK
<1>2. PICK d \in {"absent", "present"} : Doing(r, d, c)
  BY <1>1
<1>3. \A do, p : Made(r, n, do, p)' <=> Made(r, n - 1, do, p) \/ (do = d /\ p = c)
  <2>1. kind' = kind
    BY <1>1
  <2>2. CASE d = "absent"
    BY <1>2, <2>1, <2>2, MadeNow
  <2>3. CASE d = "present"
    BY <1>2, <2>1, <2>3, MadeNow
  <2> QED
    BY <1>2, <2>2, <2>3
<1>4. \A p : Program[kind[r]][n] # Call("open", p)
  BY <1>2 DEF Doing, Call
<1>5. d = "absent" => ~Exists(c)
  BY <1>1, <1>2 DEF Doing, Call
<1>6. d = "present" => Exists(c)
  BY <1>1, <1>2 DEF Doing, Call
<1> QED
  BY <1>1, <1>2, <1>3, <1>4, <1>5, <1>6 DEF Effects, Exists

LEMMA ReadVersionEffects ==
  ASSUME FilesTypeOK, Underway, Solo, NEW r \in Requests, NEW n, n = at[r],
         Effects(r, n - 1), ReadVersion(r)
  PROVE  Effects(r, n)'
<1>1. /\ Doing(r, "version", "schema_meta") /\ "schema_meta" \in Paths
      /\ UNCHANGED <<files, tmps, kind, handle, spoiled, alone, wrote>>
  BY DEF ReadVersion, Paths, Core
<1>2. \A do, p : Made(r, n, do, p)' <=>
        Made(r, n - 1, do, p) \/ (do = "version" /\ p = "schema_meta")
  BY <1>1, MadeNow
<1>3. \A p : Program[kind[r]][n] # Call("open", p)
  BY <1>1 DEF Doing, Call
<1>4. ~Made(r, n - 1, "write", "schema_meta") /\ ~Made(r, n - 1, "rename", "schema_meta")
  BY <1>1, Past
<1> QED
  BY <1>1, <1>2, <1>3, <1>4 DEF Effects, Exists

LEMMA OpenEffects ==
  ASSUME FilesTypeOK, Underway, Solo, NEW r \in Requests, NEW n, n = at[r],
         Effects(r, n - 1), Open(r)
  PROVE  Effects(r, n)'
<1>1. PICK c \in Paths :
        /\ Doing(r, "open", c)
        /\ tmps' = [tmps EXCEPT ![c] = Partial] /\ handle' = [handle EXCEPT ![r] = "tmp"]
        /\ UNCHANGED <<files, kind, version, spoiled, alone, wrote>>
  BY DEF Open
<1>2. \A do, p : Made(r, n, do, p)' <=> Made(r, n - 1, do, p) \/ (do = "open" /\ p = c)
  BY <1>1, MadeNow
<1>3. \A p : Program[kind[r]][n] = Call("open", p) => p = c
  BY <1>1 DEF Doing, Call
<1>4. ~Made(r, n - 1, "write", c)
  BY <1>1, Past
<1>5. handle'[r] = "tmp" /\ \A p \in Paths : tmps'[p] = IF p = c THEN Partial ELSE tmps[p]
  BY <1>1 DEF FilesTypeOK
<1> QED
  BY <1>1, <1>2, <1>3, <1>4, <1>5 DEF Effects, Exists

\* Alone, a request writes into the file it has just opened, and all of it.
LEMMA WriteAlone ==
  ASSUME FilesTypeOK, Underway, NEW r \in Requests, NEW n, n = at[r],
         Effects(r, n - 1), Write(r)
  PROVE  \E c \in Paths :
           /\ Doing(r, "write", c)
           /\ tmps' = [tmps EXCEPT ![c] =
                [by |-> r, version |-> IF c = "schema_meta" THEN version[r] ELSE 0]]
           /\ UNCHANGED <<files, kind, version, spoiled, alone, wrote>>
<1>1. PICK c \in Paths :
        /\ Doing(r, "write", c)
        /\ handle[r] = "tmp" =>
             /\ \E f \in Written(r, c, tmps[c]) : tmps' = [tmps EXCEPT ![c] = f]
             /\ UNCHANGED <<files, wrote>>
        /\ UNCHANGED <<kind, version, spoiled, alone>>
  BY DEF Write
<1>2. n - 1 > 0 /\ Program[kind[r]][n - 1] = Call("open", c)
  BY <1>1, Past
<1>3. handle[r] = "tmp" /\ tmps[c] = Partial
  BY <1>2 DEF Effects
<1> QED
  BY <1>1, <1>3 DEF Written

LEMMA WriteEffects ==
  ASSUME FilesTypeOK, Underway, Solo, NEW r \in Requests, NEW n, n = at[r],
         Effects(r, n - 1), Write(r)
  PROVE  Effects(r, n)'
<1>1. PICK c \in Paths :
        /\ Doing(r, "write", c)
        /\ tmps' = [tmps EXCEPT ![c] =
             [by |-> r, version |-> IF c = "schema_meta" THEN version[r] ELSE 0]]
        /\ UNCHANGED <<files, kind, version, spoiled, alone, wrote>>
  BY WriteAlone
<1>2. \A do, p : Made(r, n, do, p)' <=> Made(r, n - 1, do, p) \/ (do = "write" /\ p = c)
  BY <1>1, MadeNow
<1>3. \A p : Program[kind[r]][n] # Call("open", p)
  BY <1>1 DEF Doing, Call
<1>4. \A p \in Paths \ {c} : tmps'[p] = tmps[p]
  BY <1>1 DEF FilesTypeOK
<1>5. /\ tmps'[c].by = r
      /\ c = "schema_meta" => tmps'[c].version = version[r]
  BY <1>1 DEF FilesTypeOK
<1> QED
  BY <1>1, <1>2, <1>3, <1>4, <1>5 DEF Effects, Exists

\* Alone, a request renames what it has written.
LEMMA RenameAlone ==
  ASSUME FilesTypeOK, Underway, NEW r \in Requests, NEW n, n = at[r],
         Effects(r, n - 1), NEW c \in Paths, Doing(r, "rename", c)
  PROVE  /\ tmps[c].by = r
         /\ c = "schema_meta" => tmps[c].version = version[r]
BY Past DEF Effects

\* A file that a request has written is there.
LEMMA ByRequest ==
  ASSUME NEW r \in Requests, NEW f, f.by = r
  PROVE  f # NoFile /\ f # Partial /\ f # Mixed
BY DatasetFilesAssumption DEF NoFile, Partial, Mixed

LEMMA RenameEffects ==
  ASSUME FilesTypeOK, Underway, Solo, NEW r \in Requests, NEW n, n = at[r],
         Effects(r, n - 1), Rename(r)
  PROVE  Effects(r, n)'
<1>1. PICK c \in Paths :
        /\ Doing(r, "rename", c)
        /\ files' = [files EXCEPT ![c] = tmps[c]] /\ tmps' = [tmps EXCEPT ![c] = NoFile]
        /\ wrote' = [wrote EXCEPT ![r] = TRUE]
        /\ UNCHANGED <<kind, version, spoiled, alone>>
  BY DEF Rename
<1>2. \A do, p : Made(r, n, do, p)' <=> Made(r, n - 1, do, p) \/ (do = "rename" /\ p = c)
  BY <1>1, MadeNow
<1>3. \A p : Program[kind[r]][n] # Call("open", p)
  BY <1>1 DEF Doing, Call
<1>4. \A p \in Paths \ {c} : tmps'[p] = tmps[p] /\ files'[p] = files[p]
  BY <1>1 DEF FilesTypeOK
<1>5. ~Made(r, n - 1, "remove", c)
  BY <1>1, Past
<1>6. /\ files'[c].by = r /\ files'[c] # NoFile
      /\ c = "schema_meta" => files'[c].version = version[r]
  BY <1>1, RenameAlone, ByRequest DEF FilesTypeOK
<1> QED
  BY <1>1, <1>2, <1>3, <1>4, <1>5, <1>6 DEF Effects, Exists

LEMMA RemoveEffects ==
  ASSUME FilesTypeOK, Underway, Solo, NEW r \in Requests, NEW n, n = at[r],
         Effects(r, n - 1), Remove(r) \/ RemoveFails(r)
  PROVE  Effects(r, n)'
<1>1. PICK c \in Paths :
        /\ Doing(r, "remove", c)
        /\ \/ /\ files' = [files EXCEPT ![c] = NoFile] /\ UNCHANGED spoiled
           \/ /\ spoiled' = [spoiled EXCEPT ![r] = TRUE] /\ UNCHANGED files
        /\ UNCHANGED <<tmps, kind, version, alone>>
  BY DEF Remove, RemoveFails
<1>2. \A do, p : Made(r, n, do, p)' <=> Made(r, n - 1, do, p) \/ (do = "remove" /\ p = c)
  BY <1>1, MadeNow
<1>3. \A p : Program[kind[r]][n] # Call("open", p)
  BY <1>1 DEF Doing, Call
<1>4. ~Made(r, n - 1, "rename", c)
  BY <1>1, Past
<1>5. /\ \A p \in Paths \ {c} : files'[p] = files[p]
      /\ files'[c] = NoFile \/ (spoiled'[r] /\ files'[c] = files[c])
      /\ spoiled[r] => spoiled'[r]
  BY <1>1 DEF FilesTypeOK
<1> QED
  BY <1>1, <1>2, <1>3, <1>4, <1>5 DEF Effects, Exists
-----------------------------------------------------------------------------
(* Inv is inductive.                                                       *)

\* A step of a request: on to the next call, or the end.
Moves(r) ==
  \/ at' = [at EXCEPT ![r] = @ + 1] /\ ~Last(r) /\ UNCHANGED result
  \/ at' = [at EXCEPT ![r] = 0] /\ \E o : result' = [result EXCEPT ![r] = o]

\* It does not touch what other requests are.
Own(r) ==
  /\ UNCHANGED <<kind, alone>>
  /\ \A q \in Requests \ {r} : wrote'[q] = wrote[q] /\ spoiled'[q] = spoiled[q]

LEMMA StepInv ==
  ASSUME Inv, FilesTypeOK', NEW r \in Requests, NEW n, n = at[r], n # 0,
         Moves(r), Own(r),
         alone[r] /\ at'[r] # 0 => Effects(r, n)',
         result'[r] = "refused" /\ alone[r] => ~wrote'[r],
         alone[r] => \A p \in Paths : files'[p] \notin {Partial, Mixed} \/ files'[p] = files[p]
  PROVE  Inv'
<1>1. /\ kind[r] \in AllKinds /\ n \in 1 .. Len(Program[kind[r]])
      /\ Len(Program[kind[r]]) \in Nat /\ result[r] = "none"
  BY Flying DEF Inv, WellFormed
<1>2. /\ at'[r] = 0 \/ (at'[r] = n + 1 /\ n # Len(Program[kind[r]]) /\ result'[r] = "none")
      /\ \A q \in Requests \ {r} : at'[q] = at[q] /\ result'[q] = result[q]
  BY <1>1 DEF Moves, Last, Inv, FilesTypeOK
<1>3. Underway'
  <2> SUFFICES ASSUME NEW q \in Requests
               PROVE  (/\ at[q] # 0 => kind[q] # "none" /\ at[q] \in 1 .. Len(Program[kind[q]])
                       /\ kind[q] = "none" => ~wrote[q] /\ ~spoiled[q]
                       /\ result[q] # "none" => at[q] = 0 /\ kind[q] # "none")'
    BY DEF Underway
  <2>1. CASE q = r
    BY <1>1, <1>2, <2>1 DEF Own, AllKinds
  <2>2. CASE q # r
    BY <1>2, <2>2 DEF Own, Inv, Underway
  <2> QED
    BY <2>1, <2>2
<1>4. Solo'
  BY <1>2 DEF Own, Inv, Solo
<1>5. Reliable'
  <2> SUFFICES ASSUME NEW q \in Requests, NEW m \in Nat, alone'[q], at'[q] = m + 1
               PROVE  Effects(q, m)'
    BY DEF Reliable
  <2>1. q = r
    BY <1>2 DEF Own, Inv, Solo
  <2>2. m = n
    BY <1>1, <1>2, <2>1
  <2>3. Effects(r, n)'
    BY <2>1 DEF Own
  <2> QED
    BY <2>1, <2>2, <2>3
<1>6. RefusalIsClean'
  BY <1>2 DEF Own, Inv, RefusalIsClean
<1>7. TornOnlyByOverlap'
  BY DEF Own, Inv, TornOnlyByOverlap
<1> QED
  BY <1>3, <1>4, <1>5, <1>6, <1>7 DEF Inv

LEMMA AdvancesMoves ==
  ASSUME NEW r \in Requests, Advances(r)
  PROVE  Moves(r) /\ (result' = result \/ result' = [result EXCEPT ![r] = "ok"]
                        \/ result' = [result EXCEPT ![r] = "failed"])
BY DEF Advances, Ends, Moves, Last

\* The effects of the calls a request has made, if it is alone.
LEMMA AloneEffects ==
  ASSUME Inv, NEW r \in Requests, alone[r], at[r] # 0
  PROVE  Effects(r, at[r] - 1)
<1>1. at[r] - 1 \in Nat /\ at[r] = (at[r] - 1) + 1
  BY DEF Inv, FilesTypeOK
<1> QED
  BY <1>1 DEF Inv, Reliable

LEMMA CheckInv ==
  ASSUME Inv, NEW r \in Requests, Check(r)
  PROVE  Inv'
<1>1. PICK c \in Paths :
        /\ \/ Doing(r, "absent", c)
              /\ (IF Exists(c) THEN Ends(r, "refused") ELSE Advances(r))
           \/ Doing(r, "present", c)
              /\ (IF Exists(c) THEN Advances(r) ELSE Ends(r, "refused"))
        /\ UNCHANGED <<files, tmps, kind, handle, version, spoiled, alone, wrote>>
  BY DEF Check
<1>2. at[r] # 0 /\ Own(r)
  BY <1>1 DEF Doing, Own
<1>3. Moves(r) /\ FilesTypeOK'
  <2>1. Moves(r) /\ \E o \in {"ok", "failed", "refused"} :
                       result' = result \/ result' = [result EXCEPT ![r] = o]
    BY <1>1, AdvancesMoves DEF Ends, Moves
  <2> QED
    BY <1>1, <2>1 DEF Inv, FilesTypeOK, Moves
<1>4. result'[r] = "refused" =>
        \/ Doing(r, "absent", c) /\ Exists(c)
        \/ Doing(r, "present", c) /\ ~Exists(c)
  <2>1. result[r] = "none"
    BY <1>2, Flying DEF Inv
  <2>2. Advances(r) => result'[r] # "refused"
    BY <2>1, AdvancesMoves DEF Inv, FilesTypeOK
  <2> QED
    BY <1>1, <2>2
<1>5. result'[r] = "refused" /\ alone[r] => ~wrote'[r]
  <2> SUFFICES ASSUME result'[r] = "refused", alone[r], wrote[r] PROVE FALSE
    BY <1>1
  <2> DEFINE n == at[r]
  <2>1. Effects(r, n - 1)
    BY <1>2, AloneEffects
  <2>2. PICK q \in Paths : Made(r, n - 1, "rename", q) \/ Made(r, n - 1, "remove", q)
    BY <2>1 DEF Effects
  <2>3. ~Doing(r, "present", c)
    BY <2>2, Past DEF Inv
  <2>4. Doing(r, "absent", c) /\ Exists(c)
    BY <1>4, <2>3
  <2>5. Made(r, n - 1, "absent", c) /\ ~Made(r, n - 1, "rename", c)
    BY <2>2, <2>4, Past DEF Inv
  <2> QED
    BY <2>1, <2>4, <2>5 DEF Effects
<1>6. ASSUME alone[r], at'[r] # 0, NEW n, n = at[r]
      PROVE  Effects(r, n)'
  <2>1. result'[r] # "refused"
    <3>1. ~Ends(r, "refused")
      BY <1>6 DEF Ends, Inv, FilesTypeOK
    <3>2. result[r] = "none"
      BY <1>2, Flying DEF Inv
    <3> QED
      BY <1>1, <3>1, <3>2, AdvancesMoves DEF Inv, FilesTypeOK
  <2>2. Effects(r, n - 1)
    BY <1>2, <1>6, AloneEffects
  <2> QED
    BY <1>6, <2>1, <2>2, CheckEffects DEF Inv
<1> QED
  BY <1>1, <1>2, <1>3, <1>5, <1>6, StepInv

LEMMA ReadVersionInv ==
  ASSUME Inv, NEW r \in Requests, ReadVersion(r)
  PROVE  Inv'
<1>1. /\ at[r] # 0 /\ Own(r) /\ Advances(r) /\ files' = files /\ wrote' = wrote
      /\ version' = [version EXCEPT ![r] = NextVersion(files["schema_meta"])]
      /\ UNCHANGED <<tmps, handle, spoiled>>
  BY DEF ReadVersion, Doing, Own
<1>2. NextVersion(files["schema_meta"]) \in Nat
  BY DEF NextVersion, Inv, FilesTypeOK, File, Paths, Core
<1>3. Moves(r) /\ FilesTypeOK' /\ result'[r] # "refused"
  <2>1. result[r] = "none"
    BY <1>1, Flying DEF Inv
  <2> QED
    BY <1>1, <1>2, <2>1, AdvancesMoves DEF Inv, FilesTypeOK, Moves, Own
<1>4. ASSUME alone[r], NEW n, n = at[r]
      PROVE  Effects(r, n)'
  BY <1>1, <1>4, AloneEffects, ReadVersionEffects DEF Inv
<1> QED
  BY <1>1, <1>3, <1>4, StepInv

LEMMA OpenInv ==
  ASSUME Inv, NEW r \in Requests, Open(r)
  PROVE  Inv'
<1>1. /\ at[r] # 0 /\ Own(r) /\ Advances(r) /\ files' = files /\ wrote' = wrote
      /\ \E p \in Paths : tmps' = [tmps EXCEPT ![p] = Partial]
      /\ handle' = [handle EXCEPT ![r] = "tmp"]
      /\ UNCHANGED <<version, spoiled>>
  BY DEF Open, Doing, Own
<1>2. Partial \in File
  BY DEF Partial, File
<1>3. Moves(r) /\ FilesTypeOK' /\ result'[r] # "refused"
  <2>1. result[r] = "none"
    BY <1>1, Flying DEF Inv
  <2> QED
    BY <1>1, <1>2, <2>1, AdvancesMoves DEF Inv, FilesTypeOK, Moves, Own
<1>4. ASSUME alone[r], NEW n, n = at[r]
      PROVE  Effects(r, n)'
  BY <1>1, <1>4, AloneEffects, OpenEffects DEF Inv
<1> QED
  BY <1>1, <1>3, <1>4, StepInv

LEMMA WriteInv ==
  ASSUME Inv, NEW r \in Requests, Write(r)
  PROVE  Inv'
<1>1. PICK c \in Paths :
        /\ Doing(r, "write", c)
        /\ \/ /\ \E f \in Written(r, c, tmps[c]) : tmps' = [tmps EXCEPT ![c] = f]
              /\ UNCHANGED <<files, wrote>>
           \/ /\ \E f \in Written(r, c, files[c]) : files' = [files EXCEPT ![c] = f]
              /\ wrote' = [wrote EXCEPT ![r] = TRUE]
              /\ UNCHANGED tmps
           \/ UNCHANGED <<files, tmps, wrote>>
        /\ handle' = [handle EXCEPT ![r] = "none"]
        /\ Advances(r)
        /\ UNCHANGED <<kind, version, spoiled, alone>>
  BY DEF Write
<1>2. at[r] # 0 /\ Own(r)
  BY <1>1 DEF Doing, Own, Inv, FilesTypeOK
<1>3. \A f \in File : Written(r, c, f) \subseteq File
  <2>1. version[r] \in Nat
    BY DEF Inv, FilesTypeOK
  <2> QED
    BY <2>1 DEF Written, File, Mixed
<1>4. Moves(r) /\ FilesTypeOK' /\ result'[r] # "refused"
  <2>1. result[r] = "none"
    BY <1>2, Flying DEF Inv
  <2>2. files' \in [Paths -> File] /\ tmps' \in [Paths -> File]
    BY <1>1, <1>3 DEF Inv, FilesTypeOK
  <2> QED
    <3>1. handle' \in [Requests -> {"none", "tmp", "file", "gone"}]
      BY <1>1 DEF Inv, FilesTypeOK
    <3>2. wrote' \in [Requests -> BOOLEAN]
      BY <1>1 DEF Inv, FilesTypeOK
    <3>3. /\ Moves(r) /\ at' \in [Requests -> Nat] /\ result'[r] # "refused"
          /\ result' \in [Requests -> {"none", "ok", "refused", "failed", "lost"}]
      BY <1>1, <2>1, AdvancesMoves DEF Inv, FilesTypeOK, Moves
    <3> QED
      BY <1>1, <2>2, <3>1, <3>2, <3>3 DEF Inv, FilesTypeOK
<1>5. ASSUME alone[r], NEW n, n = at[r]
      PROVE  Effects(r, n)' /\ files' = files
  <2>1. Effects(r, n - 1)
    BY <1>2, <1>5, AloneEffects
  <2> QED
    BY <1>5, <2>1, WriteEffects, WriteAlone DEF Inv
<1> QED
  BY <1>1, <1>2, <1>4, <1>5, StepInv

LEMMA RenameInv ==
  ASSUME Inv, NEW r \in Requests, Rename(r)
  PROVE  Inv'
<1>1. PICK c \in Paths :
        /\ Doing(r, "rename", c)
        /\ files' = [files EXCEPT ![c] = tmps[c]]
        /\ tmps' = [tmps EXCEPT ![c] = NoFile]
        /\ handle' = Moved(c)
        /\ wrote' = [wrote EXCEPT ![r] = TRUE]
        /\ Advances(r)
        /\ UNCHANGED <<kind, version, spoiled, alone>>
  BY DEF Rename
<1>2. at[r] # 0 /\ Own(r)
  BY <1>1 DEF Doing, Own, Inv, FilesTypeOK
<1>3. NoFile \in File /\ Moved(c) \in [Requests -> {"none", "tmp", "file", "gone"}]
  BY DEF NoFile, File, Moved, Inv, FilesTypeOK
<1>4. Moves(r) /\ FilesTypeOK' /\ result'[r] # "refused"
  <2>1. result[r] = "none"
    BY <1>2, Flying DEF Inv
  <2>2. files' \in [Paths -> File] /\ tmps' \in [Paths -> File]
    BY <1>1, <1>3 DEF Inv, FilesTypeOK
  <2>3. handle' \in [Requests -> {"none", "tmp", "file", "gone"}]
    BY <1>1, <1>3
  <2>4. Moves(r) /\ at' \in [Requests -> Nat] /\ result'[r] # "refused"
        /\ result' \in [Requests -> {"none", "ok", "refused", "failed", "lost"}]
    BY <1>1, <2>1, AdvancesMoves DEF Inv, FilesTypeOK, Moves
  <2> QED
    BY <1>1, <2>2, <2>3, <2>4 DEF Inv, FilesTypeOK
<1>5. ASSUME alone[r], NEW n, n = at[r]
      PROVE  /\ Effects(r, n)'
             /\ \A p \in Paths : files'[p] \notin {Partial, Mixed} \/ files'[p] = files[p]
  <2>1. Effects(r, n - 1)
    BY <1>2, <1>5, AloneEffects
  <2>2. Effects(r, n)'
    BY <1>5, <2>1, RenameEffects DEF Inv
  <2>3. tmps[c].by = r
    BY <1>1, <1>5, <2>1, RenameAlone DEF Inv
  <2> QED
    BY <1>1, <2>2, <2>3, ByRequest DEF Inv, FilesTypeOK
<1> QED
  BY <1>2, <1>4, <1>5, StepInv

LEMMA RemoveInv ==
  ASSUME Inv, NEW r \in Requests, Remove(r) \/ RemoveFails(r)
  PROVE  Inv'
<1>1. PICK c \in Paths :
        /\ Doing(r, "remove", c)
        /\ files' = files \/ files' = [files EXCEPT ![c] = NoFile]
        /\ handle' = handle \/ handle' = Unlinked(c, "file")
        /\ wrote' = wrote \/ wrote' = [wrote EXCEPT ![r] = @ \/ Exists(c)]
        /\ spoiled' = spoiled \/ spoiled' = [spoiled EXCEPT ![r] = TRUE]
        /\ UNCHANGED <<tmps, kind, version, alone>>
  BY DEF Remove, RemoveFails
<1>2. Exists(c) \in BOOLEAN
  BY DEF Exists
<1>3. at[r] # 0 /\ Own(r)
  BY <1>1 DEF Doing, Own, Inv, FilesTypeOK
<1>4. NoFile \in File /\ Unlinked(c, "file") \in [Requests -> {"none", "tmp", "file", "gone"}]
  BY DEF NoFile, File, Unlinked, Inv, FilesTypeOK
<1>5. Moves(r) /\ (result' = result \/ result' = [result EXCEPT ![r] = "ok"]
                     \/ result' = [result EXCEPT ![r] = "failed"])
  <2>1. CASE Remove(r)
    BY <2>1, AdvancesMoves DEF Remove
  <2>2. CASE RemoveFails(r)
    BY <2>2 DEF RemoveFails, Ends, Moves, Last
  <2> QED
    BY <2>1, <2>2
<1>6. wrote' \in [Requests -> BOOLEAN]
  BY <1>1, <1>2 DEF Inv, FilesTypeOK
<1>7. FilesTypeOK' /\ result'[r] # "refused"
  <2>1. result[r] = "none"
    BY <1>3, Flying DEF Inv
  <2> QED
    <3>1. files' \in [Paths -> File]
      BY <1>1, <1>4 DEF Inv, FilesTypeOK
    <3>2. handle' \in [Requests -> {"none", "tmp", "file", "gone"}]
      BY <1>1, <1>4 DEF Inv, FilesTypeOK
    <3>3. /\ at' \in [Requests -> Nat] /\ result'[r] # "refused"
          /\ result' \in [Requests -> {"none", "ok", "refused", "failed", "lost"}]
      BY <1>5, <2>1 DEF Inv, FilesTypeOK, Moves
    <3> QED
      BY <1>1, <1>6, <3>1, <3>2, <3>3 DEF Inv, FilesTypeOK
<1>8. ASSUME alone[r], NEW n, n = at[r]
      PROVE  Effects(r, n)'
  BY <1>3, <1>8, AloneEffects, RemoveEffects DEF Inv
<1>9. \A p \in Paths : files'[p] \notin {Partial, Mixed} \/ files'[p] = files[p]
  BY <1>1 DEF Inv, FilesTypeOK, NoFile, Partial, Mixed
<1> QED
  BY <1>3, <1>5, <1>7, <1>8, <1>9, StepInv

LEMMA CallFailsInv ==
  ASSUME Inv, NEW r \in Requests, CallFails(r)
  PROVE  Inv'
<1> DEFINE gone == Discarded(Program[kind[r]][at[r]])
<1>1. /\ at[r] # 0
      /\ tmps' = [q \in Paths |-> IF q \in gone THEN NoFile ELSE tmps[q]]
      /\ handle' = [q \in Requests |->
               IF q = r THEN "none"
               ELSE IF \E d \in gone : Opened(q, d) /\ handle[q] = "tmp"
                    THEN "gone" ELSE handle[q]]
      /\ Ends(r, "failed")
      /\ UNCHANGED <<files, kind, version, spoiled, alone, wrote>>
  BY DEF CallFails, Doing
<1> HIDE DEF gone
<1>2. Own(r) /\ Moves(r) /\ at'[r] = 0 /\ result'[r] = "failed"
  BY <1>1 DEF Own, Moves, Ends, Inv, FilesTypeOK
<1>3. FilesTypeOK'
  BY <1>1 DEF Ends, Inv, FilesTypeOK, NoFile, File
<1> QED
  BY <1>1, <1>2, <1>3, StepInv

LEMMA StartInv ==
  ASSUME Inv, NEW r \in Requests, Start(r)
  PROVE  Inv'
<1>1. PICK k \in Kinds : kind' = [kind EXCEPT ![r] = k]
  BY DEF Start
<1>2. /\ kind[r] = "none" /\ at' = [at EXCEPT ![r] = 1]
      /\ alone' = [q \in Requests |-> alone[q] /\ (q \in InFlight \cup {r} => InFlight = {})]
      /\ UNCHANGED <<files, tmps, handle, version, result, spoiled, wrote>>
  BY DEF Start
<1>3. k \in AllKinds /\ WellFormed(Program[k])
  BY DatasetFilesAssumption, ProgramFacts
<1>4. at[r] = 0 /\ result[r] = "none" /\ ~wrote[r]
  BY <1>2 DEF Inv, Underway
<1>5. FilesTypeOK'
  BY <1>1, <1>2, <1>3 DEF Inv, FilesTypeOK
<1>6. Underway'
  BY <1>1, <1>2, <1>3, <1>4 DEF Inv, FilesTypeOK, Underway, WellFormed, AllKinds
<1>7. \A q \in Requests : alone'[q] /\ at'[q] # 0 => q = r /\ InFlight = {} /\ alone[r]
  BY <1>2 DEF InFlight, Inv, FilesTypeOK
<1>8. Solo'
  BY <1>2, <1>7 DEF Solo, InFlight, Inv, FilesTypeOK
<1>9. Reliable'
  <2> SUFFICES ASSUME NEW q \in Requests, NEW m \in Nat, alone'[q], at'[q] = m + 1
               PROVE  Effects(q, m)'
    BY DEF Reliable
  <2>1. q = r /\ m = 0
    BY <1>2, <1>7 DEF Inv, FilesTypeOK
  <2>2. \A do, p : ~Made(r, 0, do, p)'
    BY DEF Made
  <2>3. Effects(r, 0)'
    BY <1>2, <1>4, <2>2 DEF Effects
  <2> QED
    BY <2>1, <2>3
<1>10. RefusalIsClean' /\ TornOnlyByOverlap'
  BY <1>2 DEF Inv, RefusalIsClean, TornOnlyByOverlap
<1> QED
  BY <1>5, <1>6, <1>8, <1>9, <1>10 DEF Inv

LEMMA CrashInv ==
  ASSUME Inv, Crash
  PROVE  Inv'
<1>1. /\ at' = [r \in Requests |-> 0] /\ handle' = [r \in Requests |-> "none"]
      /\ result' = [r \in Requests |-> IF r \in InFlight THEN "lost" ELSE result[r]]
      /\ UNCHANGED <<files, tmps, kind, version, spoiled, alone, wrote>>
  BY DEF Crash
<1>2. FilesTypeOK' /\ Underway'
  BY <1>1 DEF Inv, FilesTypeOK, Underway, InFlight
<1>3. Solo' /\ Reliable'
  BY <1>1 DEF Solo, Reliable
<1>4. RefusalIsClean' /\ TornOnlyByOverlap'
  BY <1>1 DEF Inv, RefusalIsClean, TornOnlyByOverlap
<1> QED
  BY <1>2, <1>3, <1>4 DEF Inv

LEMMA InitInv == Init => Inv
<1> SUFFICES ASSUME Init PROVE Inv
  OBVIOUS
<1>1. FilesTypeOK
  BY DEF Init, FilesTypeOK, File, NoFile
<1>2. Underway /\ Solo /\ Reliable /\ RefusalIsClean
  BY DEF Init, Underway, Solo, Reliable, RefusalIsClean
<1>3. TornOnlyByOverlap
  BY DEF Init, TornOnlyByOverlap, NoFile, Partial, Mixed
<1> QED
  BY <1>1, <1>2, <1>3 DEF Inv

LEMMA NextInv ==
  ASSUME Inv, [Next]_vars
  PROVE  Inv'
<1>1. ASSUME NEW r \in Requests,
             \/ Start(r) \/ Check(r) \/ ReadVersion(r) \/ Open(r) \/ Write(r)
             \/ Rename(r) \/ CallFails(r) \/ Remove(r) \/ RemoveFails(r)
      PROVE  Inv'
  BY <1>1, StartInv, CheckInv, ReadVersionInv, OpenInv, WriteInv, RenameInv,
     CallFailsInv, RemoveInv
<1>2. CASE Crash
  BY <1>2, CrashInv
<1>3. CASE UNCHANGED vars
  <2>1. UNCHANGED <<files, tmps, kind, at, handle, version, result, spoiled, alone, wrote>>
    BY <1>3 DEF vars, request
  <2>2. FilesTypeOK' /\ Underway' /\ Solo'
    BY <2>1 DEF Inv, FilesTypeOK, Underway, Solo
  <2>3. Reliable'
    BY <2>1 DEF Inv, Reliable, Effects, Made, Exists
  <2>4. RefusalIsClean' /\ TornOnlyByOverlap'
    BY <2>1 DEF Inv, RefusalIsClean, TornOnlyByOverlap
  <2> QED
    BY <2>2, <2>3, <2>4 DEF Inv
<1> QED
  BY <1>1, <1>2, <1>3 DEF Next

\* What a request that is alone has done so far still stands: the inductive
\* invariant, of any requests, failures and crashes.
THEOREM InvHolds == Spec => []Inv
<1>1. Init => Inv
  BY InitInv
<1>2. Inv /\ [Next]_vars => Inv'
  BY NextInv
<1> QED
  BY <1>1, <1>2, PTL DEF Spec

-----------------------------------------------------------------------------
(* The properties.                                                         *)

\* A request that had the dataset for itself and is refused has changed
\* nothing, for all kinds of requests and whatever crashed before it (the
\* checks of Import, Put, Delete and PlanRebuild).
THEOREM RefusalIsCleanHolds == Spec => []RefusalIsClean
<1>1. Inv => RefusalIsClean
  BY DEF Inv
<1> QED
  BY <1>1, InvHolds, PTL

\* Without overlapping requests no managed file is half written at any
\* moment, for any failures and crashes (copyFile, writeSchemaAndMetadata).
THEOREM TornOnlyByOverlapHolds == Spec => []TornOnlyByOverlap
<1>1. Inv => TornOnlyByOverlap
  BY DEF Inv
<1> QED
  BY <1>1, InvHolds, PTL

\* The step that answers a request with success.
Succeeds(r) == result[r] # "ok" /\ result'[r] = "ok"

\* All the calls of its program are made then, none of them in vain.
LEMMA AllMade ==
  ASSUME Inv, NEW r \in Requests, alone[r], Succeeds(r), Next, NEW n,
         n = Len(Program[kind[r]])
  PROVE  Effects(r, n)' /\ kind' = kind /\ ~spoiled'[r] /\ kind[r] \in AllKinds
<1>1. ASSUME NEW q \in Requests, \/ Start(q) \/ CallFails(q) \/ RemoveFails(q) PROVE FALSE
  BY <1>1 DEF Succeeds, Start, CallFails, RemoveFails, Ends, Inv, FilesTypeOK
<1>2. ~Crash
  BY DEF Succeeds, Crash, Inv, FilesTypeOK
<1>3. PICK q \in Requests :
        \/ Check(q) \/ ReadVersion(q) \/ Open(q) \/ Write(q) \/ Rename(q) \/ Remove(q)
  BY <1>1, <1>2 DEF Next
<1>4. Advances(q) \/ Ends(q, "refused")
  BY <1>3 DEF Check, ReadVersion, Open, Write, Rename, Remove
<1>5. q = r /\ Advances(r) /\ Last(r) /\ ~spoiled[r] /\ at[r] # 0
  <2>1. ~Ends(q, "refused")
    BY DEF Succeeds, Ends, Inv, FilesTypeOK
  <2>2. q = r /\ Advances(r) /\ Last(r) /\ ~spoiled[r]
    BY <1>4, <2>1 DEF Succeeds, Advances, Ends, Inv, FilesTypeOK
  <2>3. at[r] # 0
    BY <1>3, <2>2 DEF Check, ReadVersion, Open, Write, Rename, Remove, Doing
  <2> QED
    BY <2>2, <2>3
<1>6. n = at[r] /\ Effects(r, n - 1)
  BY <1>5, AloneEffects DEF Last
<1>7. kind' = kind /\ spoiled' = spoiled
  BY <1>3 DEF Check, ReadVersion, Open, Write, Rename, Remove
<1>8. Effects(r, n)'
  <2>1. CASE Check(r)
    BY <1>6, <2>1, CheckEffects DEF Succeeds, Inv
  <2>2. CASE ReadVersion(r)
    BY <1>6, <2>2, ReadVersionEffects DEF Inv
  <2>3. CASE Open(r)
    BY <1>6, <2>3, OpenEffects DEF Inv
  <2>4. CASE Write(r)
    BY <1>6, <2>4, WriteEffects DEF Inv
  <2>5. CASE Rename(r)
    BY <1>6, <2>5, RenameEffects DEF Inv
  <2>6. CASE Remove(r)
    BY <1>6, <2>6, RemoveEffects DEF Inv
  <2> QED
    BY <1>3, <1>5, <2>1, <2>2, <2>3, <2>4, <2>5, <2>6
<1>9. kind[r] \in AllKinds
  BY <1>5, Flying DEF Inv
<1> QED
  BY <1>5, <1>7, <1>8, <1>9

Kept ==
  \A r \in Requests, k \in AllKinds :
    kind[r] = k /\ Effects(r, Len(Program[k])) /\ ~spoiled[r] => Promise(k, r)

LEMMA PromiseKept == Kept
<1> SUFFICES ASSUME NEW r \in Requests, NEW k \in AllKinds, kind[r] = k,
                    Effects(r, Len(Program[k])), ~spoiled[r]
             PROVE  Promise(k, r)
  BY DEF Kept
<1> DEFINE n == Len(Program[k])
<1>1. \A do, p : Has(Program[k], do, p) <=> Made(r, n, do, p)
  BY DEF Has, Made
<1>2. Complete(k, Program[k])
  BY ProgramFacts
<1>3. \A p \in Paths : Has(Program[k], "rename", p) =>
        files[p].by = r /\ (p = "schema_meta" => files[p].version = version[r])
  BY <1>1 DEF Effects
<1>4. \A p \in Paths : Has(Program[k], "remove", p) => ~Exists(p)
  BY <1>1 DEF Effects
<1>5. \A p \in Paths :
        /\ Has(Program[k], "present", p) /\ ~Has(Program[k], "remove", p) => Exists(p)
        /\ Has(Program[k], "absent", p) /\ ~Has(Program[k], "rename", p) => ~Exists(p)
  BY <1>1 DEF Effects
<1>6. Core \subseteq Paths /\ Outputs \subseteq Paths
  BY DEF Paths
<1>7. CASE k \in {"import", "import_over", "put", "put_over"}
  <2>1. {"schema", "schema_meta"} \subseteq Core
    BY DEF Core
  <2>2. CASE k \in {"import", "import_over"}
    <3>1. \A p \in Core : Has(Program[k], "rename", p)
      BY <1>2, <2>2 DEF Complete
    <3>2. \A p \in Core : files[p].by = r
      BY <1>3, <1>6, <3>1
    <3>3. files["schema_meta"].version = version[r]
      BY <1>3, <1>6, <2>1, <3>1
    <3> QED
      BY <2>2, <3>2, <3>3 DEF Promise, Rebuilds
  <2>3. CASE k \in {"put", "put_over"}
    <3>1. \A p \in {"schema", "schema_meta"} : Has(Program[k], "rename", p)
      BY <1>2, <2>3 DEF Complete
    <3>2. \A p \in {"schema", "schema_meta"} : files[p].by = r
      BY <1>3, <1>6, <2>1, <3>1
    <3>3. files["schema_meta"].version = version[r]
      BY <1>3, <1>6, <2>1, <3>1
    <3> QED
      BY <2>3, <3>2, <3>3 DEF Promise, Rebuilds
  <2> QED
    BY <1>7, <2>2, <2>3
<1>8. CASE k \in {"delete", "delete_keep", "delete_force"}
  <2>1. CASE k = "delete_keep"
    <3>1. \A p \in Core : ~Exists(p)
      BY <1>2, <1>4, <1>6, <2>1 DEF Complete
    <3> QED
      BY <2>1, <3>1 DEF Promise, Rebuilds
  <2>2. CASE k \in {"delete", "delete_force"}
    <3>1. \A p \in Paths : ~Exists(p)
      BY <1>2, <1>4, <2>2 DEF Complete
    <3> QED
      BY <2>2, <3>1 DEF Promise, Rebuilds
  <2> QED
    BY <1>8, <2>1, <2>2
<1>9. CASE k \in Rebuilds
  BY <1>2, <1>4, <1>5, <1>6, <1>9 DEF Complete, Promise, Rebuilds, Core
<1> QED
  BY <1>7, <1>8, <1>9 DEF AllKinds, Rebuilds

\* A request that had the dataset for itself and is answered with success has
\* done all it promises, whatever crashed, failed or overlapped before it, for
\* every kind of request.
THEOREM SoloTakesEffectHolds == Spec => SoloTakesEffect
<1>1. Inv /\ Inv' /\ [Next]_vars =>
        [\A r \in Requests :
           result[r] # "ok" /\ result'[r] = "ok" /\ alone[r] => Promise(kind[r], r)']_vars
  <2> SUFFICES ASSUME Inv, Next, NEW r \in Requests, Succeeds(r), alone[r]
               PROVE  Promise(kind[r], r)'
    BY DEF Succeeds
  <2>1. PICK k \in AllKinds : k = kind[r]
    BY AllMade
  <2>2. Effects(r, Len(Program[k]))' /\ kind' = kind /\ ~spoiled'[r]
    BY <2>1, AllMade
  <2>3. Kept'
    BY PromiseKept, PTL
  <2>4. Promise(k, r)'
    BY <2>1, <2>2, <2>3 DEF Kept
  <2> QED
    BY <2>1, <2>2, <2>4 DEF Promise
<1> QED
  BY <1>1, InvHolds, PTL DEF Spec, SoloTakesEffect
================================================================================
