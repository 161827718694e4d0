---- MODULE PayloadSplit ----
(***************************************************************************)
(* What the http emitter makes of the payload of a run (emitter.py): three *)
(* posts in a fixed order, the metrics cut into chunks that are small      *)
(* enough, and strings that cannot be decoded repaired on the way.         *)
(***************************************************************************)
EXTENDS Naturals, Sequences

CONSTANTS
    Batches,            \* the metrics of a payload: sequences of [size, text] records
    Zipped(_, _, _),    \* the compressed size of the metrics from one to another of a batch
    MaxCompressedSize,  \* MAX_COMPRESSED_SIZE
    Ratios              \* what int(compression_ratio / 2) can be

\* A text is "ascii", "wide" (UTF-8 with bytes that look like control characters)
\* or "undecodable"; what is repaired arrives as "cut".
ASSUME SplitAssumption ==
    /\ MaxCompressedSize \in Nat \ {0}
    /\ Ratios \subseteq Nat
    /\ Batches \subseteq Seq([size : Nat, text : {"ascii", "wide", "undecodable"}])
    /\ \A b \in Batches : \A from \in 1..(Len(b) + 1), to \in 0..Len(b) :
          Zipped(b, from, to) \in Nat

MaxSplitDepth == 2
Parts3 == <<"legacy", "metrics", "checkruns">>

VARIABLES
    series,     \* the metrics of this payload
    emitPc,     \* "serialize", "post", "sent" or "raised"
    part,       \* which of the three payloads is in hand
    toSerialize, \* slices of the series still to be serialized: [from, to, depth]
    payloads,   \* slices that are serialized, in the order of their posts
    inbox,      \* history: what the forwarder accepted, in order
    given       \* history: slices that were dropped, and parts that were left out

splitVars == <<series, emitPc, part, toSerialize, payloads, inbox, given>>

\* The whole of a payload that is not split.
Whole == [from |-> 1, to |-> 0, depth |-> 0]

SplitInit ==
    /\ series \in Batches
    /\ emitPc = "serialize" /\ part = 1
    /\ toSerialize = <<Whole>> /\ payloads = <<>>
    /\ inbox = <<>> /\ given = [dropped |-> {}, skipped |-> {}]

Metrics(s) == s.from..s.to
ZippedSize(s) == Zipped(series, s.from, s.to)

\* serialize_payload(): when one string cannot be dumped, control characters are
\* removed from all of them, and then whatever cannot be decoded.
Repaired(s) == \E i \in Metrics(s) : series[i].text = "undecodable"
TextIn(s, i) ==
    IF Repaired(s) /\ series[i].text # "ascii" THEN "cut" ELSE series[i].text

(***************************************************************************)
(* post_payload(): first all of a payload is serialized                    *)
(***************************************************************************)
SerializeWhole ==
    /\ emitPc = "serialize" /\ part # 2
    /\ payloads' = toSerialize
    /\ toSerialize' = <<>>
    /\ emitPc' = "post"
    /\ UNCHANGED <<series, part, inbox, given>>

StartOfPart(p) ==
    toSerialize' = IF p = 2 THEN <<[Whole EXCEPT !.to = Len(series)]>> ELSE <<Whole>>

NextPart ==
    IF part = 3 THEN emitPc' = "sent" /\ toSerialize' = <<>> /\ UNCHANGED part
    ELSE emitPc' = "serialize" /\ part' = part + 1 /\ StartOfPart(part')

\* An object that cannot be dumped: the payload is left out, without an error.
CannotSerialize ==
    /\ emitPc = "serialize" /\ payloads = <<>>
    /\ Len(toSerialize) = 1 /\ toSerialize[1].depth = 0
    /\ given' = [given EXCEPT !.skipped = @ \union {Parts3[part]}]
    /\ NextPart
    /\ UNCHANGED <<series, payloads, inbox>>

\* serialize_and_compress_metrics_payload() of the next slice
SmallEnough ==
    /\ emitPc = "serialize" /\ part = 2 /\ toSerialize # <<>>
    /\ ZippedSize(Head(toSerialize)) < MaxCompressedSize
    /\ payloads' = Append(payloads, Head(toSerialize))
    /\ toSerialize' = Tail(toSerialize)
    /\ UNCHANGED <<series, emitPc, part, inbox, given>>

TooLarge ==
    /\ emitPc = "serialize" /\ part = 2 /\ toSerialize # <<>>
    /\ ZippedSize(Head(toSerialize)) >= MaxCompressedSize

DropSlice ==
    /\ TooLarge
    /\ Head(toSerialize).depth > MaxSplitDepth
    /\ given' = [given EXCEPT !.dropped = @ \union {Head(toSerialize)}]
    /\ toSerialize' = Tail(toSerialize)
    /\ UNCHANGED <<series, emitPc, part, payloads, inbox>>

PerChunk(length, nChunks) == length \div nChunks + 1
\* Mutant: the remainder of the division is forgotten.
PerChunkRounded(length, nChunks) == IF length < nChunks THEN 1 ELSE length \div nChunks
SeriesPerChunk(length, nChunks) == PerChunk(length, nChunks)

\* Where the i-th of the slices of s begins; beyond the end of s all of them are
\* empty, and are posted too.
SliceStart(s, i, per) ==
    IF s.from + (i - 1) * per <= s.to THEN s.from + (i - 1) * per ELSE s.to + 1
Slice(s, i, n) ==
    LET per == SeriesPerChunk(s.to + 1 - s.from, n)
    IN  [from |-> SliceStart(s, i, per), to |-> SliceStart(s, i + 1, per) - 1,
         depth |-> s.depth + 1]

SplitSlice ==
    /\ TooLarge
    /\ Head(toSerialize).depth <= MaxSplitDepth
    /\ \E ratio \in Ratios :
          LET s == Head(toSerialize)
              nChunks == ZippedSize(s) \div MaxCompressedSize + 1 + ratio
          IN  toSerialize' = [i \in 1..nChunks |-> Slice(s, i, nChunks)] \o Tail(toSerialize)
    /\ UNCHANGED <<series, emitPc, part, payloads, inbox, given>>

SplitDone ==
    /\ emitPc = "serialize" /\ part = 2 /\ toSerialize = <<>>
    /\ emitPc' = "post"
    /\ UNCHANGED <<series, part, toSerialize, payloads, inbox, given>>

(***************************************************************************)
(* and then it is posted                                                   *)
(***************************************************************************)
Arriving(s) ==
    [part |-> part, metrics |-> [i \in (IF part = 2 THEN Metrics(s) ELSE {}) |-> TextIn(s, i)]]

PostAccepted ==
    /\ emitPc = "post" /\ payloads # <<>>
    /\ inbox' = Append(inbox, Arriving(Head(payloads)))
    /\ payloads' = Tail(payloads)
    /\ UNCHANGED <<series, emitPc, part, toSerialize, given>>

PartPosted ==
    /\ emitPc = "post" /\ payloads = <<>>
    /\ NextPart
    /\ UNCHANGED <<series, payloads, inbox, given>>

\* A post that fails ends the emitter, which the collector counts as a failure.
PostFails ==
    /\ emitPc = "post" /\ payloads # <<>>
    /\ emitPc' = "raised"
    /\ UNCHANGED <<series, part, toSerialize, payloads, inbox, given>>

SplitNext ==
    \/ SerializeWhole \/ CannotSerialize \/ SmallEnough \/ DropSlice \/ SplitSlice \/ SplitDone
    \/ PostAccepted \/ PartPosted \/ PostFails

SplitSpec == SplitInit /\ [][SplitNext]_splitVars

----
Posts(p) == {n \in DOMAIN inbox : inbox[n].part = p}
PostsOf(i) == {n \in Posts(2) : i \in DOMAIN inbox[n].metrics}
DroppedMetrics == UNION {Metrics(s) : s \in given.dropped}

\* A metric is in at most one post, in order, and never also in a dropped slice;
\* when the emitter returns without an error each one was posted, unless its slice
\* was still too large after the last split or the metrics could not be dumped.
\* Its text arrives as it was unless its own post held one that cannot be decoded.
MetricsAccounted ==
    /\ \A i \in DOMAIN series :
          /\ \A n, m \in PostsOf(i) : n = m
          /\ PostsOf(i) # {} => i \notin DroppedMetrics
          /\ emitPc = "sent" => \/ PostsOf(i) # {} \/ i \in DroppedMetrics
                                \/ "metrics" \in given.skipped
          /\ \A n \in PostsOf(i) :
                inbox[n].metrics[i] # series[i].text
                   => \E j \in DOMAIN inbox[n].metrics : series[j].text = "undecodable"
    /\ \A s \in given.dropped : ZippedSize(s) >= MaxCompressedSize
    /\ \A n, m \in DOMAIN inbox : n < m => inbox[n].part <= inbox[m].part
====
