----------------------------- MODULE OutputGate -----------------------------
(***************************************************************************)
(* What a sandboxed algorithm may bring out (compute/output_gate.go): one  *)
(* JSON object, or an archive of JSON files, whose size, strings, numbers, *)
(* keys, depth and entropy are bounded.  The walk stops at the first bound *)
(* passed; it takes the members of an object in any order, as a Go map     *)
(* does, and the tallies run on from one file of the archive to the next.  *)
(*                                                                         *)
(* A tree is a function from its nodes 1 .. n, parents before children and *)
(* siblings as the text has them; an output is the files of an archive, or *)
(* the one object, each the root of a tree.  The gate walks what the text  *)
(* decodes to, not the text it lets out: of the members of an object with  *)
(* one name the last is left, and what follows the object is not looked at *)
(* when it starts with a closing bracket.  Which of several violated       *)
(* bounds is reported depends on the order: the gate must not.             *)
(***************************************************************************)
EXTENDS Integers, Sequences, FiniteSetsExt, Functions

CONSTANTS Outputs,     \* the outputs a run may end with
          MaxBytes, MaxStringBytes, MaxNumericValues, MaxKeys, MaxDepth,
          EntropyStringMinLen, MaxEntries

ASSUME GateAssumption == {MaxBytes, MaxStringBytes, MaxNumericValues, MaxKeys, MaxDepth,
                          EntropyStringMinLen, MaxEntries} \subseteq Nat \ {0}

TreeOK(t) == /\ Len(t) \in Nat \ {0} /\ DOMAIN t = 1 .. Len(t) /\ t[1].parent = 0
             /\ \A n \in DOMAIN t : /\ {t[n].len, t[n].key} \subseteq Nat
                                    /\ n # 1 => t[n].parent \in 1 .. n - 1

ASSUME OutputsAssumption ==
    \A o \in Outputs : /\ o.zip \in BOOLEAN /\ o.bytes \in Nat
                       /\ Len(o.files) \in Nat /\ DOMAIN o.files = 1 .. Len(o.files)
                       /\ ~o.zip => Len(o.files) = 1
                       /\ \A f \in Range(o.files) : /\ f.size \in Nat /\ TreeOK(f.tree)
                                                    /\ f.rest \in {"none", "closing", "more"}

VARIABLES output,   \* [zip, bytes, files]; a file: [json, parses, rest, size, tree]
          at,       \* the file being decoded or walked
          stack,    \* frames of the walk: [node, left], children not yet visited
          tally,    \* strings' bytes, numbers, keys
          verdict   \* "open" while at work, "pass", or the reason

gateVars == <<output, at, stack, tally, verdict>>

Reasons == {"output_not_structured", "output_exceeds_max_bytes", "output_strings_too_large",
            "output_too_many_numbers", "output_too_many_keys", "output_too_deep",
            "output_high_entropy_string"}

GateInit == /\ output \in Outputs
            /\ at = 0 /\ stack = <<>>
            /\ tally = [strings |-> 0, numbers |-> 0, keys |-> 0]
            /\ verdict = "open"

Verdict(v)  == verdict' = v /\ UNCHANGED <<output, at, stack, tally>>
Tree        == output.files[at].tree
\* A map keeps the last of the members with one name.
Replaced(t, n) == \E m \in DOMAIN t : /\ m > n /\ t[m].parent = t[n].parent
                                      /\ t[t[n].parent].kind = "object" /\ t[m].name = t[n].name
Kids(t, n)  == {m \in DOMAIN t : t[m].parent = n /\ ~Replaced(t, m)}
\* The bytes of the first k files.
SizesTo(o, k) == SumFunctionOnSet([i \in DOMAIN o.files |-> o.files[i].size], 1 .. k)
\* json.Unmarshal takes the one value and nothing after it.
OneValue(f)   == f.parses /\ f.rest = "none"
\* A Decoder takes the first value, and More is false before a closing bracket.
\* A nil map is what null decodes to.
RootOK(o)     == /\ o.files[1].parses /\ o.files[1].rest # "more"
                 /\ o.files[1].tree[1].kind \in {"object", "null"}

-----------------------------------------------------------------------------
\* The outer cap, then the shape.
Admit ==
  /\ verdict = "open" /\ at = 0
  /\ IF output.bytes > MaxBytes THEN Verdict("output_exceeds_max_bytes")
     ELSE IF IF output.zip THEN Len(output.files) \notin 1 .. MaxEntries ELSE ~RootOK(output)
     THEN Verdict("output_not_structured")
     ELSE /\ at' = IF output.zip THEN -1 ELSE 1
          /\ UNCHANGED <<output, stack, tally, verdict>>

\* decodeZip, file by file: the first that is not named .json, is too much with
\* those before it, or does not parse ends it.
DecodeZip ==
  LET bad == {k \in DOMAIN output.files :
                \/ ~output.files[k].json \/ ~OneValue(output.files[k])
                \/ SizesTo(output, k) > MaxBytes}
  IN  /\ verdict = "open" /\ at = -1
      /\ IF bad = {} THEN at' = 1 /\ UNCHANGED <<output, stack, tally, verdict>>
         ELSE IF output.files[Min(bad)].json /\ SizesTo(output, Min(bad)) > MaxBytes
         THEN Verdict("output_exceeds_max_bytes") ELSE Verdict("output_not_structured")

-----------------------------------------------------------------------------
(***************************************************************************)
(* walk.                                                                   *)
(***************************************************************************)
Depth == Len(stack) - 1   \* of the node on top of the stack

StringBytes(n) == IF Tree[n].kind = "string" THEN Tree[n].len ELSE 0
Numbers(n)     == IF Tree[n].kind = "number" THEN 1 ELSE 0

\* The value n, with the strings and keys counted so far: depth first, then what a
\* leaf adds; below is what is left of the walk around it.
Visit(n, below, strings, keys) ==
  LET s == strings + StringBytes(n)
      c == tally.numbers + Numbers(n)
  IN  IF Len(below) > MaxDepth THEN Verdict("output_too_deep")
      ELSE IF s > MaxStringBytes THEN Verdict("output_strings_too_large")
      ELSE IF Tree[n].kind = "string" /\ Tree[n].dense /\ Tree[n].len >= EntropyStringMinLen
      THEN Verdict("output_high_entropy_string")
      ELSE IF c > MaxNumericValues THEN Verdict("output_too_many_numbers")
      ELSE /\ stack' = Append(below, [node |-> n, left |-> Kids(Tree, n)])
           /\ tally' = [strings |-> s, numbers |-> c, keys |-> keys]
           /\ UNCHANGED <<output, at, verdict>>

\* The root of the next file.
WalkFile ==
  /\ verdict = "open" /\ at > 0 /\ stack = <<>>
  /\ IF at > Len(output.files) THEN Verdict("pass")
     ELSE Visit(1, <<>>, tally.strings, tally.keys)

Top     == stack[Len(stack)]
InObject == Tree[Top.node].kind = "object"
Without(m) == [stack EXCEPT ![Len(stack)].left = @ \ {m}]

\* Mutant: an object's members are counted from zero.
MemberFresh ==
  /\ verdict = "open" /\ stack # <<>> /\ Top.left # {}
  /\ \E m \in (IF InObject THEN Top.left ELSE {Min(Top.left)}) :
        Visit(m, Without(m), IF InObject THEN Tree[m].key ELSE 0, IF InObject THEN 1 ELSE 0)
\* A member of the object or array on top: any of an object, the next of an array.
Member ==
  /\ verdict = "open" /\ stack # <<>> /\ Top.left # {}
  /\ \E m \in (IF InObject THEN Top.left ELSE {Min(Top.left)}) :
        LET keys    == tally.keys + IF InObject THEN 1 ELSE 0
            strings == tally.strings + IF InObject THEN Tree[m].key ELSE 0
        IN  IF keys > MaxKeys THEN Verdict("output_too_many_keys")
            ELSE IF strings > MaxStringBytes THEN Verdict("output_strings_too_large")
            ELSE Visit(m, Without(m), strings, keys)

\* The value on top is done; the file is with its root.
Return == /\ verdict = "open" /\ stack # <<>> /\ stack[Len(stack)].left = {}
          /\ stack' = SubSeq(stack, 1, Len(stack) - 1)
          /\ at' = IF Len(stack) = 1 THEN at + 1 ELSE at
          /\ UNCHANGED <<output, tally, verdict>>

GateNext == Admit \/ DecodeZip \/ WalkFile \/ Member \/ Return

GateSpec == GateInit /\ [][GateNext]_gateVars

-----------------------------------------------------------------------------
(***************************************************************************)
(* What the gate is for, over all that the output decodes to.              *)
(***************************************************************************)
\* What is decoded of a tree: nothing replaced, and nothing under what is.
Kept(t)  == UNION {P \in SUBSET DOMAIN t :
                      \A n \in P : n = 1 \/ (t[n].parent \in P /\ ~Replaced(t, n))}
Nodes(o) == UNION {{<<k, n>> : n \in Kept(o.files[k].tree)} : k \in DOMAIN o.files}
At(o, x) == o.files[x[1]].tree[x[2]]
Above(o, x) == <<x[1], At(o, x).parent>>

Levels(o) == LET level[x \in Nodes(o)] == IF x[2] = 1 THEN 0 ELSE 1 + level[Above(o, x)]
             IN  level

OfObject(o, x) == x[2] # 1 /\ At(o, Above(o, x)).kind = "object"
IsString(o, x) == At(o, x).kind = "string"
Content(o)     == [x \in Nodes(o) |-> (IF IsString(o, x) THEN At(o, x).len ELSE 0)
                                     + (IF OfObject(o, x) THEN At(o, x).key ELSE 0)]

Shaped(o) == /\ o.bytes <= MaxBytes
             /\ IF o.zip
                THEN /\ Len(o.files) \in 1 .. MaxEntries
                     /\ \A k \in DOMAIN o.files : o.files[k].json /\ OneValue(o.files[k])
                     /\ SizesTo(o, Len(o.files)) <= MaxBytes
                ELSE RootOK(o)

Bounded(o) == /\ SumFunction(Content(o)) <= MaxStringBytes
              /\ Cardinality({x \in Nodes(o) : At(o, x).kind = "number"}) <= MaxNumericValues
              /\ Cardinality({x \in Nodes(o) : OfObject(o, x)}) <= MaxKeys
              /\ \A x \in Nodes(o) : Levels(o)[x] <= MaxDepth
              /\ \A x \in Nodes(o) : ~(/\ IsString(o, x) /\ At(o, x).dense
                                       /\ At(o, x).len >= EntropyStringMinLen)

-----------------------------------------------------------------------------
\* Every variable has its type, and what has been let through so far is bounded.
GateTypeOK ==
  /\ verdict \in Reasons \cup {"open", "pass"} /\ at \in -1 .. Len(output.files) + 1
  /\ tally.strings \in 0 .. MaxStringBytes /\ tally.numbers \in 0 .. MaxNumericValues
  /\ tally.keys \in 0 .. MaxKeys
  /\ Len(stack) <= MaxDepth + 1

\* In whatever order the members are visited, an output passes exactly when it has the
\* shape and what it decodes to keeps every bound over all its files.  Of the text itself
\* only the size is bounded: a replaced member, and what comes after a closing bracket
\* behind the object, are let out unseen (output_gate.go:20 says the content is bounded).
GateExact == /\ verdict = "pass" => Shaped(output) /\ Bounded(output)
             /\ verdict \in Reasons => ~(Shaped(output) /\ Bounded(output))

\* The gate is bounded on the way and exact in the end.
GateInv == GateTypeOK /\ GateExact
=============================================================================
