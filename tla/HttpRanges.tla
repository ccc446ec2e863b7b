----------------------------- MODULE HttpRanges -----------------------------
(***************************************************************************)
(* Byte ranges in async_io/httplib.h: which ranges of a Range header are   *)
(* accepted, how a server brings them into the form in which it serves     *)
(* them, and what it then announces and writes.                            *)
(*                                                                         *)
(* A range is a pair <<first, last>> with -1 for what is left out.  The    *)
(* content is the bytes 0 .. n-1.  A unit of a body is a byte <<i>>, the   *)
(* head <<first, last>> of a part, or the closing delimiter <<>>.          *)
(***************************************************************************)
EXTENDS SequencesExt, Integers

CONSTANT MaxRangeCount  \* CPPHTTPLIB_RANGE_MAX_COUNT

ASSUME RangesAssumption == MaxRangeCount \in Nat

\* parse_range_header: what it accepts.
WellFormed(r) == r # <<-1, -1>> /\ (r[1] # -1 /\ r[2] # -1 => r[1] <= r[2])

\* A suffix counts from the end, a last position beyond the end is the end.
Normalised(r, n) ==
  << IF r[1] = -1 THEN n - r[2] ELSE r[1],
     IF r[1] = -1 \/ r[2] = -1 \/ r[2] >= n THEN n - 1 ELSE r[2] >>

Within(r, n) == 0 <= r[1] /\ r[1] <= r[2] /\ r[2] < n

Overlap(r, s) == r[1] <= s[2] /\ s[1] <= r[2]

\* range_error: too many, one outside of the content, or more than two that
\* overlap an earlier one.
RangeError(ranges, n) ==
  LET norm == [i \in DOMAIN ranges |-> Normalised(ranges[i], n)]
  IN  \/ Len(ranges) > MaxRangeCount
      \/ \E i \in DOMAIN norm : ~Within(norm[i], n)
      \/ Cardinality({i \in DOMAIN norm : \E j \in 1 .. i - 1 : Overlap(norm[i], norm[j])}) > 2

\* std::sort by the first position leaves ranges that begin together in any
\* order.
Sorted(ranges) ==
  {s \in SetToSeqs(DOMAIN ranges) :
     \A i, j \in DOMAIN s : i < j => ranges[s[i]][1] <= ranges[s[j]][1]}

\* Mutant: a range that overlaps the one before replaces its end.
MergeReplacing(merged, r) ==
  IF merged # <<>> /\ r[1] <= Last(merged)[2] + 1 /\ r # Last(merged)
  THEN Append(Front(merged), <<Last(merged)[1], r[2]>>)
  ELSE Append(merged, r)

\* A range that overlaps or adjoins the one before, but for one that equals it,
\* is merged into it.
Merge(merged, r) ==
  IF merged # <<>> /\ r[1] <= Last(merged)[2] + 1 /\ r # Last(merged)
  THEN Append(Front(merged), <<Last(merged)[1], Max({Last(merged)[2], r[2]})>>)
  ELSE Append(merged, r)

\* The loop of coalesce_ranges: what the first k ranges are merged into.
Merged(ranges) ==
  LET merged[k \in 0 .. Len(ranges)] == IF k = 0 THEN <<>> ELSE Merge(merged[k - 1], ranges[k])
  IN  merged[Len(ranges)]

\* coalesce_ranges, once range_error has normalised them.
Coalesced(ranges, n) ==
  LET norm == [i \in DOMAIN ranges |-> Normalised(ranges[i], n)]
  IN  IF Len(ranges) <= 1 THEN {norm}
      ELSE {Merged([i \in DOMAIN s |-> norm[s[i]]]) : s \in Sorted(norm)}

-----------------------------------------------------------------------------
\* get_range_offset_and_length and the provider, or substr.
Bytes(r) == [i \in 1 .. r[2] - r[1] + 1 |-> <<r[1] + i - 1>>]

\* process_multipart_ranges_data: what is written and what is counted.
Parts(ranges) == FlattenSeq([i \in DOMAIN ranges |-> <<ranges[i]>> \o Bytes(ranges[i])]) \o << <<>> >>

All(n) == Bytes(<<0, n - 1>>)

\* One range is served as such, several as the parts of a multipart body.
Selected(ranges, n) ==
  CASE ranges = <<>> -> All(n)
    [] Len(ranges) = 1 -> Bytes(ranges[1])
    [] OTHER -> Parts(ranges)

\* The end of process_request: a handler that has set no status gets one.
Status(given, ranges) ==
  IF given # -1 THEN given ELSE IF ranges = <<>> THEN 200 ELSE 206

\* apply_ranges: the body, or the Content-Length of what the provider will write,
\* is that of the ranges if the status is 206.
Announced(status, ranges, n) == IF status = 206 THEN Selected(ranges, n) ELSE All(n)

\* write_content_with_provider looks at the ranges and not at the status.
Written(source, status, ranges, n) ==
  IF source = "provider" THEN Selected(ranges, n) ELSE Announced(status, ranges, n)

\* What a routed request for these ranges of n bytes is answered with; the
\* ranges of one that fails are not normalised, and not used.
RangedResponses(given, source, ranges, n) ==
  LET status == Status(given, ranges)
  IN  IF ranges # <<>> /\ status \in 200 .. 299 /\ RangeError(ranges, n)
      THEN {[status |-> 416, length |-> 0, content |-> <<>>, ranges |-> <<>>]}
      ELSE {[status |-> status,
             length |-> Len(Announced(status, final, n)),
             content |-> Written(source, status, final, n),
             ranges |-> final] :
              final \in IF status \in 200 .. 299 THEN Coalesced(ranges, n) ELSE {ranges}}

=============================================================================
