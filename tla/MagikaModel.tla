---------------------------- MODULE MagikaModel ----------------------------
(***************************************************************************)
(* The Magika classifier: loadFromFile() read by read, on files that are   *)
(* whole, cut short anywhere, or of another kind; and predict(), of which  *)
(* the model has the tokens extracted from a payload and every index into  *)
(* the weights and the layers' buffers.  The arithmetic on floats, and so  *)
(* the prediction itself, is left out.                                     *)
(*                                                                         *)
(* A file is a sequence of items, each a number, a string with its length, *)
(* or the floats of a tensor (their number); the last one may be there     *)
(* only in part.                                                           *)
(***************************************************************************)
EXTENDS Naturals, Sequences, SequencesExt, FiniteSets

CONSTANTS
    kBegSize, kEndSize, kVocabSize, kEmbedDim, kReshapedSeq, kReshapedDim,
    kConvOut, kKernelSize,
    Labels,        \* the labels of the classes, a sequence
    Whitespace,    \* the bytes that are white space
    MaxPayload     \* bound: bytes of a payload

kInputLen == kBegSize + kEndSize
kPaddingToken == kVocabSize - 1

(* The network's layers fit each other. *)
ASSUME ShapeAssumption ==
    /\ {kBegSize, kEndSize, kEmbedDim, kReshapedSeq, kReshapedDim, kConvOut, kKernelSize}
          \subseteq Nat \ {0}
    /\ Labels \in Seq(STRING) /\ MaxPayload \in Nat
    /\ kVocabSize \in Nat \ {0} /\ Whitespace \subseteq 0..(kPaddingToken - 1)
    /\ kInputLen * kEmbedDim = kReshapedSeq * kReshapedDim
    /\ kKernelSize <= kReshapedSeq

VARIABLES
    file,     \* the file: [items, partial]
    stage,    \* what loadFromFile() reads next, "loaded" or "rejected"
    pos, ok,  \* items read; the stream's state, FALSE for good once a read failed
    togo,     \* tensors or labels to go
    name, dims, shape, \* the tensor being read; dimensions to go
    tensors,  \* name -> number of floats
    labels,   \* labels_
    classes,  \* numClasses_
    payload, tokens \* the last prediction's input and its tokens

loadVars == <<stage, pos, ok, togo, name, dims, shape, tensors, labels, classes>>
modelVars == <<file, loadVars, payload, tokens>>

-----------------------------------------------------------------------------
(* The file that tools/extract_magika_weights.py writes. *)
Names == <<"embed_weight", "embed_bias", "ln0_scale", "ln0_bias", "conv_weight",
           "conv_bias", "ln1_scale", "ln1_bias", "output_weight", "output_bias">>
Required == Range(Names)

ShapeOf == [
    embed_weight |-> <<kVocabSize, kEmbedDim>>, embed_bias |-> <<kEmbedDim>>,
    ln0_scale |-> <<kReshapedSeq>>, ln0_bias |-> <<kReshapedSeq>>,
    conv_weight |-> <<kConvOut, kReshapedDim, kKernelSize>>, conv_bias |-> <<kConvOut>>,
    ln1_scale |-> <<kConvOut>>, ln1_bias |-> <<kConvOut>>,
    output_weight |-> <<kConvOut, Len(Labels)>>, output_bias |-> <<Len(Labels)>>]

Product(s) ==
    LET product[i \in 0..Len(s)] == IF i = 0 THEN 1 ELSE product[i - 1] * s[i]
    IN  product[Len(s)]

(* f, and g where f has no value. *)
Extended(f, g) == [x \in DOMAIN f \cup DOMAIN g |-> IF x \in DOMAIN f THEN f[x] ELSE g[x]]

TensorItems(n) == <<n, Len(ShapeOf[n])>> \o ShapeOf[n] \o <<Product(ShapeOf[n])>>

Magic == 1
Items(magic, version, names) ==
    <<magic, version, Len(names)>>
    \o FlattenSeq([i \in 1..Len(names) |-> TensorItems(names[i])])
    \o <<Len(Labels)>> \o Labels

Written == Items(Magic, 1, Names)

Files ==
    {[items |-> SubSeq(Written, 1, n), partial |-> p] : n \in 0..Len(Written), p \in BOOLEAN}
    \cup {[items |-> i, partial |-> FALSE] : i \in
            {Items(Magic + 1, 1, Names), Items(Magic, 2, Names)}
            \cup {Items(Magic, 1, RemoveAt(Names, n)) : n \in 1..Len(Names)}}

(* readVal(), readString(), readFloats(): the next item, or a failure.  A    *)
(* value cut short leaves what the variable was initialised to, or has its   *)
(* low bytes already.                                                        *)
Whole == ok /\ pos < Len(file.items) /\ ~(file.partial /\ pos + 1 = Len(file.items))
CutShort == ok /\ file.partial /\ pos + 1 = Len(file.items)

Reads(initial) ==
    IF Whole THEN {[v |-> file.items[pos + 1], good |-> TRUE]}
    ELSE {[v |-> initial, good |-> FALSE]}
         \cup (IF CutShort THEN {[v |-> file.items[pos + 1], good |-> FALSE]} ELSE {})

Advance(r) == ok' = r.good /\ pos' = IF r.good THEN pos + 1 ELSE pos

ModelInit ==
    /\ file \in Files
    /\ stage = "magic" /\ pos = 0 /\ ok = TRUE
    /\ togo = 0 /\ name = "" /\ dims = 0 /\ shape = <<>>
    /\ tensors = <<>> /\ labels = <<>> /\ classes = 0
    /\ payload = <<>> /\ tokens = <<>>

Rest == <<file, payload, tokens>>

OpenFails ==
    /\ stage = "magic"
    /\ stage' = "rejected"
    /\ UNCHANGED <<pos, ok, togo, name, dims, shape, tensors, labels, classes, Rest>>

(* The four bytes are compared whether or not they were read: what was on    *)
(* the stack may be the magic.                                               *)
ReadMagic ==
    /\ stage = "magic"
    /\ \E r \in Reads(0) \cup (IF Whole THEN {} ELSE {[v |-> Magic, good |-> FALSE]}) :
          Advance(r) /\ stage' = IF r.v = Magic THEN "version" ELSE "rejected"
    /\ UNCHANGED <<togo, name, dims, shape, tensors, labels, classes, Rest>>

ReadVersion ==
    /\ stage = "version"
    /\ \E r \in Reads(0) : Advance(r) /\ stage' = IF r.v = 1 THEN "numTensors" ELSE "rejected"
    /\ UNCHANGED <<togo, name, dims, shape, tensors, labels, classes, Rest>>

ReadNumTensors ==
    /\ stage = "numTensors"
    /\ \E r \in Reads(0) :
          /\ Advance(r) /\ togo' = r.v
          /\ stage' = IF r.v = 0 THEN "numLabels" ELSE "name"
    /\ UNCHANGED <<name, dims, shape, tensors, labels, classes, Rest>>

ReadName ==
    /\ stage = "name"
    /\ \E r \in Reads("") :
          /\ Advance(r)
          /\ IF r.good THEN name' = r.v /\ stage' = "numDims"
             ELSE stage' = "rejected" /\ UNCHANGED name
    /\ UNCHANGED <<togo, dims, shape, tensors, labels, classes, Rest>>

ReadNumDims ==
    /\ stage = "numDims"
    /\ \E r \in Reads(0) :
          /\ Advance(r) /\ dims' = r.v /\ shape' = <<>>
          /\ stage' = IF r.v = 0 THEN "data" ELSE "dim"
    /\ UNCHANGED <<togo, name, tensors, labels, classes, Rest>>

ReadDim ==
    /\ stage = "dim"
    /\ \E r \in Reads(0) : Advance(r) /\ shape' = Append(shape, r.v)
    /\ dims' = dims - 1
    /\ stage' = IF dims = 1 THEN "data" ELSE "dim"
    /\ UNCHANGED <<togo, name, tensors, labels, classes, Rest>>

ReadData ==
    /\ stage = "data"
    /\ \E r \in Reads(0) :
          /\ Advance(r)
          /\ IF r.good
             THEN /\ tensors' = Extended([n \in {name} |-> Product(shape)], tensors)
                  /\ togo' = togo - 1
                  /\ stage' = IF togo = 1 THEN "numLabels" ELSE "name"
             ELSE stage' = "rejected" /\ UNCHANGED <<tensors, togo>>
    /\ UNCHANGED <<name, dims, shape, labels, classes, Rest>>

ReadNumLabels ==
    /\ stage = "numLabels"
    /\ \E r \in Reads(0) :
          /\ Advance(r) /\ togo' = r.v /\ classes' = r.v
          /\ stage' = IF r.v = 0 THEN "validate" ELSE "label"
    /\ UNCHANGED <<name, dims, shape, tensors, labels, Rest>>

(* Mutant of ReadLabel: the result of reading a label is not looked at. *)
ReadLabelUnchecked ==
    /\ stage = "label"
    /\ \E r \in Reads("") : Advance(r) /\ labels' = IF r.good THEN Append(labels, r.v) ELSE labels
    /\ togo' = togo - 1
    /\ stage' = IF togo = 1 THEN "validate" ELSE "label"
    /\ UNCHANGED <<name, dims, shape, tensors, classes, Rest>>

ReadLabel ==
    /\ stage = "label"
    /\ \E r \in Reads("") :
          /\ Advance(r)
          /\ IF r.good
             THEN /\ labels' = Append(labels, r.v)
                  /\ togo' = togo - 1
                  /\ stage' = IF togo = 1 THEN "validate" ELSE "label"
             ELSE stage' = "rejected" /\ UNCHANGED <<labels, togo>>
    /\ UNCHANGED <<name, dims, shape, tensors, classes, Rest>>

Validate ==
    /\ stage = "validate"
    /\ stage' = IF Required \subseteq DOMAIN tensors THEN "loaded" ELSE "rejected"
    /\ UNCHANGED <<pos, ok, togo, name, dims, shape, tensors, labels, classes, Rest>>

-----------------------------------------------------------------------------
(* extractInputTokens(): the first kBegSize bytes after leading white space, *)
(* the last kEndSize before trailing white space, each against its own edge  *)
(* of the tokens.                                                            *)
MinOf(a, b) == IF a < b THEN a ELSE b
BegStart(p) == CHOOSE n \in 0..Len(p) :
    (n = Len(p) \/ p[n + 1] \notin Whitespace) /\ \A i \in 1..n : p[i] \in Whitespace
EndPos(p) == CHOOSE n \in 0..Len(p) :
    (n = 0 \/ p[n] \notin Whitespace) /\ \A i \in (n + 1)..Len(p) : p[i] \in Whitespace

(* Mutant of ExtractInputTokens: a short end is padded on the right. *)
ExtractInputTokensShort(p) ==
    LET begCount == MinOf(kBegSize, Len(p) - BegStart(p))
        endCount == MinOf(kEndSize, EndPos(p))
        endOffset == kBegSize
        endStart == EndPos(p) - endCount
    IN  [j \in 1..kInputLen |->
            IF j <= begCount THEN p[BegStart(p) + j]
            ELSE IF j > endOffset /\ j <= endOffset + endCount THEN p[endStart + j - endOffset]
            ELSE kPaddingToken]

ExtractInputTokens(p) ==
    LET begCount == MinOf(kBegSize, Len(p) - BegStart(p))
        endCount == MinOf(kEndSize, EndPos(p))
        endOffset == kBegSize + (kEndSize - endCount)
        endStart == EndPos(p) - endCount
    IN  [j \in 1..kInputLen |->
            IF j <= begCount THEN p[BegStart(p) + j]
            ELSE IF j > endOffset THEN p[endStart + j - endOffset]
            ELSE kPaddingToken]

(* The cells that the layers of predict() read or write, as <<array, index>>. *)
Below(n) == IF n = 0 THEN {} ELSE 0..(n - 1)
convOutLen == kReshapedSeq - kKernelSize + 1

Embedding(toks) == UNION {
    {<<"embed_weight", toks[i + 1] * kEmbedDim + d>>, <<"embed_bias", d>>,
     <<"embedded", i * kEmbedDim + d>>} : i \in Below(kInputLen), d \in Below(kEmbedDim)}

LayerNorm0 == UNION {
    {<<"embedded", s * kReshapedDim + d>>, <<"ln0_scale", s>>, <<"ln0_bias", s>>} :
        s \in Below(kReshapedSeq), d \in Below(kReshapedDim)}

Conv1d == UNION {
    {<<"conv_bias", oc>>, <<"convOut", p * kConvOut + oc>>,
     <<"embedded", (p + k) * kReshapedDim + ic>>,
     <<"conv_weight", (oc * kReshapedDim + ic) * kKernelSize + k>>} :
        oc \in Below(kConvOut), p \in Below(convOutLen),
        ic \in Below(kReshapedDim), k \in Below(kKernelSize)}

GlobalMaxPool == UNION {{<<"convOut", s * kConvOut + c>>, <<"pooled", c>>} :
    s \in Below(convOutLen), c \in Below(kConvOut)}

LayerNorm1 == UNION {{<<"pooled", i>>, <<"ln1_scale", i>>, <<"ln1_bias", i>>} : i \in Below(kConvOut)}

Dense == UNION {
    {<<"output_bias", c>>, <<"pooled", i>>, <<"output_weight", i * classes + c>>, <<"logits", c>>} :
        i \in Below(kConvOut), c \in Below(classes)}

(* *std::max_element() of the logits. *)
Softmax == {<<"logits", c>> : c \in Below(classes)} \cup {<<"logits", 0>>}

Accesses(toks) ==
    Embedding(toks) \cup LayerNorm0 \cup Conv1d \cup GlobalMaxPool \cup LayerNorm1 \cup Dense \cup Softmax

Sizes == Extended(tensors, [embedded |-> kInputLen * kEmbedDim, convOut |-> convOutLen * kConvOut,
                            pooled |-> kConvOut, logits |-> classes])

(* predict(), called for each payload of the engine's queue. *)
Predict(p) ==
    /\ stage = "loaded"
    /\ payload' = p /\ tokens' = ExtractInputTokens(p)
    /\ UNCHANGED <<file, loadVars>>

Rejected == stage = "rejected" /\ UNCHANGED modelVars

Load ==
    \/ OpenFails
    \/ ReadMagic
    \/ ReadVersion
    \/ ReadNumTensors
    \/ ReadName
    \/ ReadNumDims
    \/ ReadDim
    \/ ReadData
    \/ ReadNumLabels
    \/ ReadLabel
    \/ Validate

ModelNext ==
    \/ Load
    \/ \E p \in BoundedSeq(0..(kPaddingToken - 1), MaxPayload) : Predict(p)
    \/ Rejected

ModelSpec == ModelInit /\ [][ModelNext]_modelVars

-----------------------------------------------------------------------------
(* The regions as the network was trained on: a stripped beginning padded on *)
(* the right and, mirrored, a stripped end padded on the left.               *)
Lstrip(p) ==
    LET i == SelectInSeq(p, LAMBDA b : b \notin Whitespace)
    IN  IF i = 0 THEN <<>> ELSE SubSeq(p, i, Len(p))
Beginning(p, n) == [i \in 1..n |-> IF i <= Len(Lstrip(p)) THEN Lstrip(p)[i] ELSE kPaddingToken]

(* For every payload, empty, blank, shorter than a region or longer than     *)
(* both, the tokens are those of the definition the network was trained on.  *)
TokensAsTrained ==
    tokens # <<>> =>
        tokens = Beginning(payload, kBegSize) \o Reverse(Beginning(Reverse(payload), kEndSize))

InBounds == \A a \in Accesses(tokens) : a[2] < Sizes[a[1]]
Used(a) == {x[2] : x \in {y \in Accesses(tokens) : y[1] = a}}

(* However a model file was cut short, a model that is loaded with any       *)
(* classes at all is the one that was written, and a prediction then uses    *)
(* every weight (of the embedding, those of its tokens) and no cell outside  *)
(* an array.                                                                 *)
LoadedIsUsable ==
    (stage = "loaded" /\ classes > 0) =>
        /\ tensors = [n \in Required |-> Product(ShapeOf[n])]
        /\ labels = Labels /\ classes = Len(Labels)
        /\ tokens # <<>> => InBounds /\ \A a \in DOMAIN Sizes \ {"embed_weight"} : Used(a) = Below(Sizes[a])

(* A file cut short is rejected; the README has the case that fails. *)
TruncationRejected == stage = "loaded" => classes > 0
=============================================================================
