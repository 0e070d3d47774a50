------------------------- MODULE FileDownloadsProofs -------------------------
(***************************************************************************)
(* Proofs about FileDownloads for any sizes, headers and numbers of calls.  *)
(* The arithmetic of ranges comes first (BadHeaders, PlanServes,            *)
(* FoundCount); DownloadsInv is inductive, its part on tokens by the proofs *)
(* about Sessions.  That bodies are whole rests on ReadyIsWhole: a merge    *)
(* that nothing disturbs is the only one that has opened the file.          *)
(***************************************************************************)
EXTENDS FileDownloads, SessionsProofs, FiniteSetTheorems

-----------------------------------------------------------------------------
(* Ranges *)

\* What a Range header may be.
HeaderFits(h) ==
    CASE h = Whole     -> TRUE
      [] h = Malformed -> FALSE
      [] OTHER -> /\ Asked(h) # {}
                  /\ Asked(h) \subseteq 0 .. (size - 1)

\* A header is one of three kinds.
LEMMA HeaderKinds ==
    ASSUME NEW h \in Headers \cup {Whole}
    PROVE  \/ h = Whole /\ h # Malformed
           \/ h = Malformed /\ h # Whole
           \/ /\ h \in [start : Nat, end : Nat \cup {Open}]
              /\ h # Whole /\ h # Malformed
  BY DownloadsAssumption

\* The range between two bytes of the file is served, any other is not.
LEMMA RangeFits ==
    ASSUME NEW h \in [start : Nat, end : Nat \cup {Open}], size \in Nat \ {0}
    PROVE  /\ OutOfRange(h.start, EndOf(h, size), size) <=>
                 ~(Asked(h) # {} /\ Asked(h) \subseteq 0 .. (size - 1))
           /\ ~OutOfRange(h.start, EndOf(h, size), size) =>
                 /\ h.start \in Nat /\ EndOf(h, size) \in Nat
                 /\ h.start <= EndOf(h, size) /\ EndOf(h, size) < size
                 /\ Asked(h) = h.start .. EndOf(h, size)
<1> DEFINE s == h.start
           e == EndOf(h, size)
<1>1. s \in Nat /\ e \in Nat
  BY DEF EndOf
<1>2. h.end = Open => e = size - 1
  BY DEF EndOf
<1>3. h.end # Open => e = h.end
  BY DEF EndOf
<1>4. Open \notin Nat
  BY DownloadsAssumption
<1>5. Asked(h) = {i \in 0 .. size + 1 : s <= i /\ i <= e}
  <2>1. CASE h.end = Open
    BY <1>1, <1>2, <2>1 DEF Asked
  <2>2. CASE h.end # Open
    BY <1>1, <1>3, <2>2 DEF Asked
  <2> QED
    BY <2>1, <2>2
<1> HIDE DEF s, e
<1>6. ASSUME s < size, e < size, s <= e
      PROVE  Asked(h) = s .. e /\ Asked(h) # {}
             /\ Asked(h) \subseteq 0 .. (size - 1)
  <2>1. Asked(h) = s .. e
    BY <1>1, <1>5, <1>6
  <2>2. s \in s .. e
    BY <1>1, <1>6
  <2> QED
    BY <1>1, <1>6, <2>1, <2>2
<1>7. ASSUME NEW i \in Asked(h), Asked(h) \subseteq 0 .. (size - 1)
      PROVE  s < size /\ e < size /\ s <= e
  <2>1. /\ i \in Nat /\ s <= i /\ i <= e /\ i < size
    BY <1>1, <1>5, <1>7
  <2>2. ASSUME e >= size
        PROVE  size \in Asked(h)
    BY <1>1, <1>5, <2>1, <2>2
  <2>3. size \notin Asked(h)
    BY <1>7
  <2> QED
    BY <1>1, <2>1, <2>2, <2>3
<1>8. OutOfRange(s, e, size) <=> ~(s < size /\ e < size /\ s <= e)
  BY <1>1 DEF OutOfRange
<1> QED
  BY <1>1, <1>6, <1>7, <1>8 DEF s, e

\* The controller refuses the headers that do not fit.
LEMMA BadHeaders ==
    ASSUME NEW h \in Headers \cup {Whole}, size \in Nat \ {0}
    PROVE  BadHeader(h) <=> ~HeaderFits(h)
<1>1. CASE h = Whole /\ h # Malformed
  BY <1>1 DEF BadHeader, HeaderFits
<1>2. CASE h = Malformed /\ h # Whole
  BY <1>2 DEF BadHeader, HeaderFits
<1>3. CASE /\ h \in [start : Nat, end : Nat \cup {Open}]
           /\ h # Whole /\ h # Malformed
  BY <1>3, RangeFits DEF BadHeader, HeaderFits
<1> QED
  BY <1>1, <1>2, <1>3, HeaderKinds

\* The plan for a header that is served: its bytes are counted, and they are
\* bytes of the file.
LEMMA PlanServes ==
    ASSUME NEW h \in Headers \cup {Whole}, size \in Nat \ {0}, ~BadHeader(h)
    PROVE  /\ PlanFor(h, size) \in Plan
           /\ PlanFor(h, size).length =
                 IF h = Whole THEN size ELSE Cardinality(Asked(h))
           /\ PlanFor(h, size) # NoPlan
           /\ PlanFor(h, size).sent = 0
           /\ \/ /\ PlanFor(h, size).last = -1
                 /\ PlanFor(h, size).length = size
              \/ /\ PlanFor(h, size).first \in Nat
                 /\ PlanFor(h, size).last \in Nat
                 /\ PlanFor(h, size).first <= PlanFor(h, size).last
                 /\ PlanFor(h, size).last < size
                 /\ PlanFor(h, size).length =
                       PlanFor(h, size).last - PlanFor(h, size).first + 1
<1>1. CASE h = Whole
  <2>1. PlanFor(h, size) = [first |-> 0, last |-> -1, length |-> size,
                            sent |-> 0]
    BY <1>1 DEF PlanFor, NoPlan
  <2>2. [first |-> 0, last |-> -1, length |-> size, sent |-> 0] \in Plan
    BY DEF Plan
  <2> QED
    BY <1>1, <2>1, <2>2 DEF NoPlan
<1>2. CASE h # Whole
  <2>1. h \in [start : Nat, end : Nat \cup {Open}] /\ h # Malformed
    BY <1>2, HeaderKinds DEF BadHeader
  <2>2. ~OutOfRange(h.start, EndOf(h, size), size)
    BY <1>2, <2>1 DEF BadHeader
  <2> DEFINE s == h.start
             e == EndOf(h, size)
  <2>3. /\ s \in Nat /\ e \in Nat /\ s <= e /\ e < size
        /\ Asked(h) = s .. e
    BY <2>1, <2>2, RangeFits
  <2>4. PlanFor(h, size) = [first |-> s, last |-> e, length |-> e - s + 1,
                            sent |-> 0]
    BY <1>2 DEF PlanFor, NoPlan
  <2> HIDE DEF s, e
  <2>5. e - s + 1 \in Nat /\ e - s + 1 > 0
    BY <2>3
  <2>6. [first |-> s, last |-> e, length |-> e - s + 1, sent |-> 0] \in Plan
    BY <2>3, <2>5 DEF Plan
  <2>7. Cardinality(Asked(h)) = e - s + 1
    BY <2>3, FS_Interval
  <2> QED
    BY <1>2, <2>3, <2>4, <2>5, <2>6, <2>7 DEF NoPlan
<1> QED
  BY <1>1, <1>2

\* The bytes from one position to another.
LEMMA BytesBetween ==
    ASSUME NEW a \in Nat, NEW b \in Nat, a <= b
    PROVE  Cardinality(a .. b) = b - a + 1
  BY FS_Interval

\* What a stream finds is counted ...
LEMMA FoundTyped ==
    ASSUME NEW p, bytes \in Nat
    PROVE  Found(p) \in Nat
<1> DEFINE all == 0 .. (bytes - 1)
           some == {i \in all : p.last = -1 \/ (p.first <= i /\ i <= p.last)}
<1>1. IsFiniteSet(all)
  BY FS_Interval
<1>2. some \in SUBSET all
  OBVIOUS
<1> HIDE DEF all, some
<1>3. IsFiniteSet(some)
  BY <1>1, <1>2, FS_Subset
<1>4. Cardinality(some) \in Nat
  BY <1>3, FS_CardinalityType
<1> QED
  BY <1>4 DEF Found, some, all

\* ... and in a file of the declared size it is what was announced.
LEMMA FoundCount ==
    ASSUME NEW h \in Headers \cup {Whole}, size \in Nat \ {0}, ~BadHeader(h),
           bytes = size
    PROVE  Found(PlanFor(h, size)) = PlanFor(h, size).length
<1> DEFINE p == PlanFor(h, size)
<1>1. \/ p.last = -1 /\ p.length = size
      \/ /\ p.first \in Nat /\ p.last \in Nat /\ p.first <= p.last
         /\ p.last < size /\ p.length = p.last - p.first + 1
  BY PlanServes
<1> HIDE DEF p
<1>2. CASE p.last = -1 /\ p.length = size
  <2>1. {i \in 0 .. (bytes - 1) :
           p.last = -1 \/ (p.first <= i /\ i <= p.last)} = 0 .. (size - 1)
    BY <1>2
  <2>2. Cardinality(0 .. (size - 1)) = size
    BY FS_Interval
  <2> QED
    BY <1>2, <2>1, <2>2 DEF Found, p
<1>3. CASE /\ p.first \in Nat /\ p.last \in Nat /\ p.first <= p.last
           /\ p.last < size /\ p.length = p.last - p.first + 1
  <2>1. {i \in 0 .. (bytes - 1) :
           p.last = -1 \/ (p.first <= i /\ i <= p.last)} = p.first .. p.last
    BY <1>3
  <2>2. Cardinality(p.first .. p.last) = p.last - p.first + 1
    BY <1>3, BytesBetween
  <2> QED
    BY <1>3, <2>1, <2>2 DEF Found, p
<1> QED
  BY <1>1, <1>2, <1>3

-----------------------------------------------------------------------------
(* What no step changes, and what a step does to tokens                     *)

\* Sizes are fixed when the upload starts.
LEMMA SizesKept ==
    ASSUME [DownloadsNext]_downloadVars
    PROVE  size' = size /\ uploaded' = uploaded
  BY DEF DownloadsNext, FileNext, CallNext, HttpNext, ChunkStart, ChunkEnd,
     Complete, MergeOpen, MergeEnd, CleanupEnd, SaveReady, Unlink, DeleteRow,
     Download, DownloadRefused, Check, Access, Stream, StreamError,
     CleanupError, Restart, CutOff, Fails, SignUrl, Get, downloadVars, fileVars

\* Tokens change as Sessions says or not at all.
LEMMA SessionsFollowed ==
    ASSUME [DownloadsNext]_downloadVars
    PROVE  [SessionsNext]_sessionVars
  BY DEF DownloadsNext, FileNext, CallNext, HttpNext, ChunkStart, ChunkEnd,
     Complete, MergeOpen, MergeEnd, CleanupEnd, SaveReady, Unlink, DeleteRow,
     Download, DownloadRefused, Check, Access, Stream, StreamError,
     CleanupError, Restart, CutOff, Fails, SignUrl, Get, downloadVars

\* Completions and removals leave the calls alone, but for the history.
LEMMA FileFrame ==
    ASSUME FileNext
    PROVE  /\ callAt' = callAt /\ header' = header /\ plan' = plan
           /\ died' = died /\ failures' = failures /\ urls' = urls
           /\ reply' = reply /\ raced \subseteq raced'
  BY DEF FileNext, ChunkStart, ChunkEnd, Complete, MergeOpen, MergeEnd,
     CleanupEnd, SaveReady, Unlink, DeleteRow, readVars, httpVars

\* Calls leave the file alone.
LEMMA CallFrame ==
    ASSUME CallNext
    PROVE  /\ status' = status /\ bytes' = bytes /\ linked' = linked
           /\ disturbed' = disturbed
           /\ urls' = urls /\ reply' = reply /\ raced' = raced
  BY DEF CallNext, Download, DownloadRefused, Check, Access, Stream,
     StreamError, CleanupError, Restart, CutOff, fileVars, httpVars

\* Requests with tokens and signatures leave both alone.
LEMMA HttpFrame ==
    ASSUME HttpNext
    PROVE  /\ status' = status /\ bytes' = bytes /\ linked' = linked
           /\ work' = work /\ chunk' = chunk /\ cleaning' = cleaning
           /\ disturbed' = disturbed /\ callAt' = callAt /\ header' = header
           /\ plan' = plan /\ raced' = raced /\ died' = died
           /\ failures' = failures
  BY DEF HttpNext, SignUrl, Get, fileVars, readVars

\* The sizes are numbers, and so is the length of the file.
LEMMA SizesTyped ==
    ASSUME DownloadsTyped
    PROVE  size \in Nat \ {0} /\ uploaded \in Nat \ {0} /\ bytes \in Nat
<1>1. size \in Sizes /\ uploaded \in Sizes /\ bytes \in 0 .. uploaded
  BY DEF DownloadsTyped
<1>2. Sizes \subseteq Nat \ {0}
  BY DownloadsAssumption
<1> QED
  BY <1>1, <1>2

-----------------------------------------------------------------------------
(* DownloadsInv is kept *)

\* The type of what completions and removals work on.
FileTyped ==
    /\ status \in {"UPLOADING", "READY", "none"}
    /\ bytes \in 0 .. uploaded /\ linked \in BOOLEAN /\ disturbed \in BOOLEAN
    /\ work \in [Completers \cup Removers ->
                   Begun \cup {"idle", "checked", "delete", "cut"}]
    /\ chunk \in {"whole", "writing", "half"} /\ cleaning \subseteq Completers
    /\ raced \subseteq Downloads

\* Completions and removals keep it.
LEMMA FileTypedStep ==
    ASSUME DownloadsTyped, FileNext
    PROVE  FileTyped'
<1> USE DEF DownloadsTyped, FileTyped, WorkAt, Begun, readVars
<1>1. uploaded' = uploaded
  BY SizesKept DEF DownloadsNext
<1>1a. uploaded \in Nat \ {0}
  BY SizesTyped
<1>1b. ASSUME ChunkStart \/ ChunkEnd PROVE FileTyped'
  BY <1>1, <1>1b DEF ChunkStart, ChunkEnd
<1>1c. ASSUME NEW k \in Completers, Complete(k) \/ CleanupEnd(k) PROVE FileTyped'
  BY <1>1, <1>1c DEF Complete, CleanupEnd
<1>2. ASSUME NEW k \in Completers, MergeOpen(k) PROVE FileTyped'
  BY <1>1, <1>1a, <1>2 DEF MergeOpen
<1>3. ASSUME NEW k \in Completers, MergeEnd(k) PROVE FileTyped'
  BY <1>1, <1>3 DEF MergeEnd
<1>4. ASSUME NEW k \in Completers, SaveReady(k) PROVE FileTyped'
  BY <1>1, <1>4 DEF SaveReady
<1>5. ASSUME NEW x \in Removers, Unlink(x) PROVE FileTyped'
  BY <1>1, <1>5 DEF Unlink
<1>6. ASSUME NEW x \in Removers, DeleteRow(x) PROVE FileTyped'
  BY <1>1, <1>6 DEF DeleteRow
<1> QED
  BY <1>1b, <1>1c, <1>2, <1>3, <1>4, <1>5, <1>6 DEF FileNext

\* The type of what calls work on.
CallsTyped ==
    /\ callAt \in [Downloads -> Reading \cup {"idle", "sent", "cut", "400",
                                              "404", "500"}]
    /\ header \in [Downloads -> Headers \cup {Whole}]
    /\ plan \in [Downloads -> Plan]
    /\ work \in [Completers \cup Removers ->
                   Begun \cup {"idle", "checked", "delete", "cut"}]
    /\ chunk \in {"whole", "writing", "half"} /\ cleaning \subseteq Completers
    /\ died \in BOOLEAN /\ failures \in 0 .. MaxFailures

\* Calls keep it.
LEMMA CallsTypedStep ==
    ASSUME DownloadsTyped, CallNext
    PROVE  CallsTyped'
<1> USE DEF DownloadsTyped, CallsTyped, GoOn, Reading, Begun, fileVars
<1>1. size \in Nat \ {0} /\ bytes \in Nat
  BY SizesTyped
<1>2. ASSUME NEW g \in Downloads, NEW h \in Headers, Download(g, h)
      PROVE  CallsTyped'
  <2>1. PlanFor(h, size) \in Plan
    BY <1>1, <1>2, PlanServes DEF Download
  <2> QED
    BY <1>2, <2>1 DEF Download
<1>3. ASSUME NEW g \in Downloads, NEW h \in Headers, DownloadRefused(g, h)
      PROVE  CallsTyped'
  BY <1>3 DEF DownloadRefused
<1>4. ASSUME NEW g \in Downloads, Check(g) PROVE CallsTyped'
  <2>1. (CASE Servable -> "access" [] status = "none" -> "404"
           [] OTHER -> "400") \in {"access", "404", "400"}
    BY DEF Servable
  <2> QED
    BY <1>4, <2>1 DEF Check
<1>5. ASSUME NEW g \in Downloads, Access(g) PROVE CallsTyped'
  BY <1>5 DEF Access
<1>6. ASSUME NEW g \in Downloads, Stream(g) PROVE CallsTyped'
  <2>1. Found(plan[g]) \in Nat
    BY <1>1, FoundTyped
  <2>2. [plan[g] EXCEPT !.sent = Found(plan[g])] \in Plan
    BY <2>1 DEF Plan
  <2>3. plan' = [plan EXCEPT ![g] = [plan[g] EXCEPT !.sent = Found(plan[g])]]
    BY <1>6 DEF Stream
  <2> QED
    BY <1>6, <2>2, <2>3 DEF Stream
<1>7. ASSUME CutOff
      PROVE  /\ callAt' \in [Downloads -> Reading \cup
                       {"idle", "sent", "cut", "400", "404", "500"}]
             /\ work' \in [Completers \cup Removers ->
                       Begun \cup {"idle", "checked", "delete", "cut"}]
             /\ chunk' \in {"whole", "writing", "half"}
             /\ cleaning' \subseteq Completers
             /\ header' = header /\ plan' = plan
  BY <1>7 DEF CutOff
<1>7a. ASSUME Fails \/ failures' = failures PROVE failures' \in 0 .. MaxFailures
  <2>1. MaxFailures \in Nat
    BY DownloadsAssumption
  <2> QED
    BY <1>7a, <2>1 DEF Fails
<1>8. ASSUME NEW g \in Downloads, StreamError(g) PROVE CallsTyped'
  BY <1>7, <1>7a, <1>8 DEF StreamError
<1>8a. ASSUME NEW k \in Completers, CleanupError(k) PROVE CallsTyped'
  BY <1>7, <1>7a, <1>8a DEF CleanupError
<1>9. ASSUME Restart PROVE CallsTyped'
  BY <1>7, <1>7a, <1>9 DEF Restart
<1> QED
  BY <1>2, <1>3, <1>4, <1>5, <1>6, <1>8, <1>8a, <1>9 DEF CallNext

\* The type of signed URLs and answers.
HttpTyped ==
    /\ reply \in [Gets -> {"none", "400", "401", "403", "404", "served"}]
    /\ urls \subseteq [file : {File, Undefined}, expires : Nat, since : Nat]

\* What comes by HTTP keeps it, and URLs are signed for UrlTTL.
LEMMA HttpStep ==
    ASSUME DownloadsInv, HttpNext
    PROVE  HttpTyped' /\ UrlsExpire'
<1> USE DEF DownloadsInv, DownloadsTyped, HttpTyped
<1>1. now \in Nat /\ UrlTTL \in Nat /\ Second \in Nat
  BY SecTyped, DownloadsAssumption, SessionsAssumption
<1>2. ASSUME NEW id \in {File, Undefined}, SignUrl(id)
      PROVE  HttpTyped' /\ UrlsExpire'
  <2> DEFINE url == [file |-> id, expires |-> now + UrlTTL * Second,
                     since |-> now]
  <2>1. UrlTTL * Second \in Nat
    BY <1>1
  <2>2. /\ url \in [file : {File, Undefined}, expires : Nat, since : Nat]
        /\ url.expires = url.since + UrlTTL * Second
    BY <1>1, <2>1
  <2>3. urls' = urls \cup {url} /\ reply' = reply
    BY <1>2 DEF SignUrl
  <2> HIDE DEF url
  <2> QED
    BY <2>2, <2>3 DEF UrlsExpire
<1>3. ASSUME NEW q \in Gets, NEW u \in Users, NEW url, Get(q, u, url)
      PROVE  HttpTyped' /\ UrlsExpire'
  <2> DEFINE answer == IF ~Admits(u) THEN "401"
                       ELSE IF url = NoUrl \/ ~SignatureValid(url) THEN "400"
                       ELSE IF status = "none" THEN "404" ELSE "403"
  <2>1. answer \in {"400", "401", "403", "404"}
    OBVIOUS
  <2>2. reply' = [reply EXCEPT ![q] = answer] /\ urls' = urls
    BY <1>3 DEF Get
  <2> HIDE DEF answer
  <2> QED
    BY <2>1, <2>2 DEF UrlsExpire
<1>4. CASE UNCHANGED httpVars
  BY <1>4 DEF httpVars, UrlsExpire
<1> QED
  BY <1>2, <1>3, <1>4 DEF HttpNext

\* The tokens' part of the invariant.
LEMMA TokensStep ==
    ASSUME DownloadsInv, [DownloadsNext]_downloadVars
    PROVE  SessionsInv'
  BY SessionsFollowed, SessionsStep DEF DownloadsInv

\* The types are kept.
LEMMA DownloadsTypedStep ==
    ASSUME DownloadsInv, DownloadsNext
    PROVE  DownloadsTyped'
<1>1. SessionsTyped'
  BY TokensStep DEF SessionsInv
<1>2. size' = size /\ uploaded' = uploaded
  BY SizesKept
<1> USE DEF DownloadsInv, DownloadsTyped
<1>3. CASE FileNext
  BY <1>1, <1>2, <1>3, FileTypedStep, FileFrame DEF FileTyped
<1>4. CASE CallNext
  BY <1>1, <1>2, <1>4, CallsTypedStep, CallFrame DEF CallsTyped
<1>5. CASE HttpNext
  BY <1>1, <1>2, <1>5, HttpStep, HttpFrame DEF HttpTyped
<1> QED
  BY <1>3, <1>4, <1>5 DEF DownloadsNext

\* The plans are kept, and new ones are for the header of the call.
LEMMA PlansStep ==
    ASSUME DownloadsInv, DownloadsNext
    PROVE  PlansServe'
<1>1. size' = size /\ uploaded' = uploaded
  BY SizesKept
<1>2. size \in Nat \ {0} /\ bytes \in Nat
  BY SizesTyped DEF DownloadsInv
<1>3. \A h : BadHeader(h)' = BadHeader(h) /\ PlanFor(h, size)' = PlanFor(h, size)
  BY <1>1 DEF BadHeader, PlanFor
<1>4. /\ callAt \in [Downloads -> Reading \cup {"idle", "sent", "cut", "400",
                                                "404", "500"}]
      /\ header \in [Downloads -> Headers \cup {Whole}]
      /\ plan \in [Downloads -> Plan]
  BY DEF DownloadsInv, DownloadsTyped
<1> DEFINE Serves(g) ==
      /\ callAt[g] \in Reading \cup {"sent"} => plan[g] # NoPlan
      /\ callAt[g] = "idle" => plan[g] = NoPlan
      /\ callAt[g] = "400" /\ plan[g] = NoPlan => BadHeader(header[g])
      /\ plan[g] # NoPlan =>
           /\ ~BadHeader(header[g])
           /\ plan[g] = [PlanFor(header[g], size) EXCEPT !.sent = plan[g].sent]
<1>5. \A g \in Downloads : Serves(g)
  BY DEF DownloadsInv, PlansServe
<1>6. ASSUME NEW g \in Downloads, callAt'[g] = callAt[g],
             header'[g] = header[g], plan'[g] = plan[g]
      PROVE  Serves(g)'
  BY <1>1, <1>3, <1>5, <1>6
<1>7. ASSUME NEW g \in Downloads, header'[g] = header[g], plan'[g] = plan[g],
             plan[g] # NoPlan, callAt'[g] # "idle"
      PROVE  Serves(g)'
  BY <1>1, <1>3, <1>5, <1>7
<1>8. ASSUME NEW g \in Downloads, NEW h \in Headers, Download(g, h)
      PROVE  PlansServe'
  <2>1. /\ callAt' = [callAt EXCEPT ![g] = "check"]
        /\ header' = [header EXCEPT ![g] = h]
        /\ plan' = [plan EXCEPT ![g] = PlanFor(h, size)]
        /\ ~BadHeader(h)
    BY <1>8 DEF Download, GoOn
  <2>2. /\ callAt'[g] = "check" /\ header'[g] = h
        /\ plan'[g] = PlanFor(h, size)
    BY <1>4, <2>1
  <2>3. PlanFor(h, size) # NoPlan /\ PlanFor(h, size) \in Plan
    BY <1>2, <2>1, PlanServes
  <2>4. PlanFor(h, size) = [PlanFor(h, size) EXCEPT !.sent = PlanFor(h, size).sent]
    BY <2>3 DEF Plan
  <2>5. Serves(g)'
    BY <1>1, <1>3, <2>1, <2>2, <2>3, <2>4 DEF Reading
  <2>6. ASSUME NEW f \in Downloads, f # g
        PROVE  Serves(f)'
    <3>1. callAt'[f] = callAt[f] /\ header'[f] = header[f] /\ plan'[f] = plan[f]
      BY <1>4, <2>1, <2>6
    <3> QED
      BY <1>6, <3>1
  <2> QED
    BY <2>5, <2>6 DEF PlansServe
<1>9. ASSUME NEW g \in Downloads, NEW h \in Headers, DownloadRefused(g, h)
      PROVE  PlansServe'
  <2>1. /\ callAt[g] = "idle"
        /\ callAt' = [callAt EXCEPT ![g] =
                        IF status = "none" THEN "404" ELSE "400"]
        /\ header' = [header EXCEPT ![g] = h] /\ plan' = plan
        /\ status = "none" \/ BadHeader(h)
    BY <1>9 DEF DownloadRefused, GoOn
  <2>2. /\ callAt'[g] \in {"400", "404"} /\ header'[g] = h
        /\ callAt'[g] = "400" => BadHeader(h)
        /\ plan'[g] = NoPlan
    BY <1>4, <1>5, <2>1
  <2>3. Serves(g)'
    BY <1>3, <2>2 DEF Reading
  <2>4. ASSUME NEW f \in Downloads, f # g
        PROVE  Serves(f)'
    <3>1. callAt'[f] = callAt[f] /\ header'[f] = header[f] /\ plan'[f] = plan[f]
      BY <1>4, <2>1, <2>4
    <3> QED
      BY <1>6, <3>1
  <2> QED
    BY <2>3, <2>4 DEF PlansServe
<1>10. ASSUME NEW g \in Downloads, callAt[g] \in Reading, callAt'[g] # "idle",
              \A f \in Downloads \ {g} : callAt'[f] = callAt[f],
              header' = header, plan' = plan
       PROVE  PlansServe'
  <2>1. Serves(g)'
    BY <1>5, <1>7, <1>10
  <2>2. ASSUME NEW f \in Downloads, f # g
        PROVE  Serves(f)'
    BY <1>6, <1>10, <2>2
  <2> QED
    BY <2>1, <2>2 DEF PlansServe
<1>11. ASSUME NEW g \in Downloads, Check(g) \/ Access(g)
       PROVE  PlansServe'
  <2>1. /\ header' = header /\ plan' = plan /\ callAt[g] \in Reading
        /\ callAt'[g] # "idle"
        /\ \A f \in Downloads \ {g} : callAt'[f] = callAt[f]
    BY <1>4, <1>11 DEF Check, Access, GoOn, Reading
  <2> QED
    BY <1>10, <2>1
<1>12. ASSUME NEW g \in Downloads, Stream(g)
       PROVE  PlansServe'
  <2> DEFINE sent == Found(plan[g])
  <2>1. /\ callAt[g] = "open" /\ callAt' = [callAt EXCEPT ![g] = "sent"]
        /\ header' = header
        /\ plan' = [plan EXCEPT ![g] = [plan[g] EXCEPT !.sent = sent]]
    BY <1>12 DEF Stream, GoOn
  <2> HIDE DEF sent
  <2> DEFINE p == PlanFor(header[g], size)
  <2>2. /\ plan[g] # NoPlan /\ ~BadHeader(header[g])
        /\ plan[g] = [p EXCEPT !.sent = plan[g].sent]
    BY <1>5, <2>1 DEF Reading
  <2>3. /\ p \in Plan
        /\ \/ p.last = -1 /\ p.length = size
           \/ p.last # -1
    BY <1>2, <1>4, <2>2, PlanServes
  <2> HIDE DEF p
  <2>4. plan'[g] = [p EXCEPT !.sent = sent]
    BY <1>4, <2>1, <2>2, <2>3 DEF Plan
  <2>5. plan'[g].sent = sent /\ plan'[g].last = p.last
        /\ plan'[g].length = p.length
    BY <2>3, <2>4 DEF Plan
  <2>6. plan'[g] # NoPlan
    BY <1>2, <2>3, <2>5 DEF NoPlan
  <2>7. callAt'[g] = "sent" /\ header'[g] = header[g]
    BY <1>4, <2>1
  <2>8. Serves(g)'
    BY <1>1, <1>3, <2>2, <2>4, <2>5, <2>6, <2>7 DEF p
  <2>9. ASSUME NEW f \in Downloads, f # g
        PROVE  Serves(f)'
    <3>1. callAt'[f] = callAt[f] /\ header'[f] = header[f] /\ plan'[f] = plan[f]
      BY <1>4, <2>1, <2>9
    <3> QED
      BY <1>6, <3>1
  <2> QED
    BY <2>8, <2>9 DEF PlansServe
<1>13. ASSUME CutOff
       PROVE  PlansServe'
  <2>1. ASSUME NEW g \in Downloads
        PROVE  Serves(g)'
    <3>1. /\ header'[g] = header[g] /\ plan'[g] = plan[g]
          /\ callAt'[g] = IF callAt[g] \in Reading THEN "cut" ELSE callAt[g]
      BY <1>13 DEF CutOff
    <3>2. CASE callAt[g] \in Reading
      BY <1>5, <1>7, <3>1, <3>2
    <3>3. CASE callAt[g] \notin Reading
      BY <1>6, <3>1, <3>3
    <3> QED
      BY <3>2, <3>3
  <2> QED
    BY <2>1 DEF PlansServe
<1>14. CASE callAt' = callAt /\ header' = header /\ plan' = plan
  BY <1>6, <1>14 DEF PlansServe
<1> QED
  BY <1>8, <1>9, <1>11, <1>12, <1>13, <1>14, FileFrame, HttpFrame
  DEF DownloadsNext, CallNext, StreamError, CleanupError, Restart

\* A call finds the file, or was overtaken by a removal.
LEMMA RacedStep ==
    ASSUME DownloadsInv, DownloadsNext
    PROVE  OpenOrRaced'
<1>1. callAt \in [Downloads -> Reading \cup {"idle", "sent", "cut", "400",
                                             "404", "500"}]
  BY DEF DownloadsInv, DownloadsTyped
<1>2. \A g \in Downloads : callAt[g] = "open" => linked \/ g \in raced
  BY DEF DownloadsInv, OpenOrRaced
<1>3. CASE FileNext
  <2>1. callAt' = callAt /\ raced \subseteq raced'
    BY <1>3, FileFrame
  <2>2. ASSUME NEW k \in Completers, MergeOpen(k)
        PROVE  OpenOrRaced'
    BY <2>2 DEF MergeOpen, OpenOrRaced
  <2>3. ASSUME NEW x \in Removers, Unlink(x)
        PROVE  OpenOrRaced'
    BY <2>1, <2>3 DEF Unlink, OpenOrRaced, Reading
  <2>4. CASE linked' = linked
    BY <1>2, <2>1, <2>4 DEF OpenOrRaced
  <2> QED
    BY <1>3, <2>2, <2>3, <2>4 DEF FileNext, ChunkStart, ChunkEnd, Complete,
       MergeEnd, CleanupEnd, SaveReady, DeleteRow
<1>4. CASE CallNext
  <2>1. linked' = linked /\ raced' = raced
    BY <1>4, CallFrame
  <2>2. ASSUME NEW g \in Downloads, callAt'[g] = "open"
        PROVE  callAt[g] = "open" \/ linked
    BY <1>1, <1>4, <2>2 DEF CallNext, Download, DownloadRefused, Check,
       Access, Stream, StreamError, CleanupError, Restart, CutOff, GoOn,
       Readable, Reading, Servable
  <2> QED
    BY <1>2, <2>1, <2>2 DEF OpenOrRaced
<1>5. CASE HttpNext
  BY <1>2, <1>5, HttpFrame DEF OpenOrRaced
<1> QED
  BY <1>3, <1>4, <1>5 DEF DownloadsNext

\* Signed URLs stay as they are unless one more is signed.
LEMMA UrlsStep ==
    ASSUME DownloadsInv, DownloadsNext
    PROVE  UrlsExpire'
<1>1. CASE urls' = urls
  BY <1>1 DEF DownloadsInv, UrlsExpire
<1> QED
  BY <1>1, FileFrame, CallFrame, HttpStep DEF DownloadsNext

\* The initial states satisfy the invariant.
LEMMA DownloadsStart == ASSUME DownloadsInit PROVE DownloadsInv
<1>1. SessionsInv
  BY SessionsStart DEF DownloadsInit
<1>2. 0 \in 0 .. MaxFailures /\ \A n \in Sizes : 0 \in 0 .. n
  BY DownloadsAssumption
<1>3. NoPlan \in Plan
  BY DEF NoPlan, Plan
<1>4. DownloadsTyped
  BY <1>1, <1>2, <1>3 DEF DownloadsInit, DownloadsTyped, SessionsInv
<1>5. PlansServe /\ OpenOrRaced /\ UrlsExpire
  BY DEF DownloadsInit, PlansServe, OpenOrRaced, UrlsExpire, Reading
<1> QED
  BY <1>1, <1>4, <1>5 DEF DownloadsInv

\* The invariant is kept by every step.
LEMMA DownloadsStep ==
    ASSUME DownloadsInv, [DownloadsNext]_downloadVars
    PROVE  DownloadsInv'
<1>1. CASE DownloadsNext
  BY <1>1, DownloadsTypedStep, TokensStep, PlansStep, RacedStep, UrlsStep
  DEF DownloadsInv
<1>2. CASE UNCHANGED downloadVars
  <2>1. /\ UNCHANGED <<fileVars, readVars, httpVars, failures>>
        /\ UNCHANGED sessionVars
    BY <1>2 DEF downloadVars
  <2>2. SessionsInv'
    BY <2>1, SessionsStep DEF DownloadsInv
  <2>3. DownloadsTyped'
    BY <2>1, <2>2 DEF DownloadsInv, DownloadsTyped, SessionsInv, fileVars,
       readVars, httpVars
  <2>4. PlansServe' /\ OpenOrRaced' /\ UrlsExpire'
    BY <2>1 DEF DownloadsInv, PlansServe, OpenOrRaced, UrlsExpire, BadHeader,
       PlanFor, fileVars, readVars, httpVars
  <2> QED
    BY <2>2, <2>3, <2>4 DEF DownloadsInv
<1> QED
  BY <1>1, <1>2

-----------------------------------------------------------------------------
(* A merge that nothing disturbs: the bodies                                *)

\* The file that is about to become READY is whole, and nobody truncates it.
LEMMA WholeStep ==
    ASSUME DownloadsInv, ReadyIsWhole, DownloadsNext
    PROVE  ReadyIsWhole'
<1>0. CASE disturbed'
  BY <1>0 DEF ReadyIsWhole
<1> SUFFICES ASSUME ~disturbed'  PROVE ReadyIsWhole'
  BY <1>0
<1>1. uploaded' = uploaded
  BY SizesKept
<1>2. /\ work \in [Completers \cup Removers ->
                     Begun \cup {"idle", "checked", "delete", "cut"}]
      /\ callAt \in [Downloads -> Reading \cup {"idle", "sent", "cut", "400",
                                                "404", "500"}]
      /\ disturbed \in BOOLEAN
  BY DEF DownloadsInv, DownloadsTyped
<1>3. Completers \cap Removers = {}
  BY DownloadsAssumption
<1>3a. ~disturbed
  <2>1. disturbed => disturbed'
    BY CallFrame, HttpFrame DEF DownloadsNext, FileNext, ChunkStart, ChunkEnd,
       Complete, MergeOpen, MergeEnd, CleanupEnd, SaveReady, Unlink, DeleteRow
  <2> QED
    BY <2>1
<1> DEFINE Seen == \E g \in Downloads : callAt[g] \in {"access", "open"}
           Done == \E k \in Completers : work[k] = "done"
           Lone == \A k, c \in Completers :
                      work[k] \in Begun /\ work[c] \in Begun => k = c
<1>4. /\ Lone
      /\ \A k \in Completers : work[k] = "save" => bytes = uploaded
      /\ status = "READY" \/ Seen => bytes = uploaded /\ Done
  BY <1>3a DEF ReadyIsWhole
<1>4a. ASSUME Lone',
              \A k \in Completers : work'[k] = "save" => bytes' = uploaded',
              (status = "READY" \/ Seen)' => bytes' = uploaded' /\ Done'
       PROVE  ReadyIsWhole'
  BY <1>4a DEF ReadyIsWhole
<1> HIDE DEF Seen, Done, Lone
<1>5. ASSUME bytes' = bytes, status' = "READY" => status = "READY",
             Seen' => Seen \/ status = "READY",
             \A k \in Completers :
                \/ work'[k] = work[k]
                \/ work[k] # "done" /\ work'[k] \notin Begun
      PROVE  ReadyIsWhole'
  <2>1. \A k \in Completers : work'[k] = "save" => bytes' = uploaded'
    BY <1>1, <1>4, <1>5 DEF Begun
  <2>2. Done => Done'
    BY <1>5 DEF Done
  <2>3. Lone'
    BY <1>4, <1>5 DEF Lone
  <2> QED
    BY <1>1, <1>4, <1>4a, <1>5, <2>1, <2>2, <2>3
<1>6. CASE FileNext
  <2>1. Seen' = Seen
    BY <1>6, FileFrame DEF Seen
  <2>1a. ASSUME ChunkStart \/ ChunkEnd \/ \E k \in Completers : CleanupEnd(k)
         PROVE  ReadyIsWhole'
    BY <1>5, <2>1, <2>1a DEF ChunkStart, ChunkEnd, CleanupEnd
  <2>1b. ASSUME NEW k \in Completers, Complete(k)
         PROVE  ReadyIsWhole'
    <3>1. \A c \in Completers :
             \/ work'[c] = work[c]
             \/ work[c] # "done" /\ work'[c] \notin Begun
      BY <1>2, <2>1b DEF Complete, WorkAt, Begun
    <3> QED
      BY <1>5, <2>1, <2>1b, <3>1 DEF Complete
  <2>2. ASSUME NEW k \in Completers, MergeOpen(k)
        PROVE  ReadyIsWhole'
    <3>1. work' = [work EXCEPT ![k] = "merge"] /\ status' = status
      BY <2>2 DEF MergeOpen, WorkAt
    <3>2. \A c \in Completers : work[c] \notin Begun
      BY <2>2 DEF MergeOpen
    <3>3. \A c \in Completers \ {k} : work'[c] \notin Begun
      BY <1>2, <3>1, <3>2
    <3>4. Lone' /\ \A c \in Completers : work'[c] # "save"
      BY <1>2, <3>1, <3>3 DEF Lone, Begun
    <3>5. ~Done
      BY <3>2 DEF Done, Begun
    <3> QED
      BY <1>4, <1>4a, <2>1, <3>1, <3>4, <3>5
  <2>3. ASSUME NEW k \in Completers, MergeEnd(k)
        PROVE  ReadyIsWhole'
    <3>1. /\ work[k] = "merge" /\ status' = status
          /\ bytes' = uploaded /\ work' = [work EXCEPT ![k] = "save"]
      BY <1>3a, <2>3 DEF MergeEnd, WorkAt
    <3>2. ~Done
      BY <1>4, <3>1 DEF Lone, Done, Begun
    <3>3. Lone'
      BY <1>2, <1>4, <3>1 DEF Lone, Begun
    <3> QED
      BY <1>1, <1>4, <1>4a, <2>1, <3>1, <3>2, <3>3
  <2>4. ASSUME NEW k \in Completers, SaveReady(k)
        PROVE  ReadyIsWhole'
    <3>1. /\ work[k] = "save" /\ work' = [work EXCEPT ![k] = "done"]
          /\ bytes' = bytes
      BY <2>4 DEF SaveReady, WorkAt
    <3>2. bytes' = uploaded'
      BY <1>1, <1>4, <3>1
    <3>3. work'[k] = "done"
      BY <1>2, <3>1
    <3>4. Lone'
      BY <1>2, <1>4, <3>1 DEF Lone, Begun
    <3> QED
      BY <1>4a, <3>2, <3>3, <3>4 DEF Done
  <2>5. ASSUME NEW x \in Removers, Unlink(x) \/ DeleteRow(x)
        PROVE  ReadyIsWhole'
    <3>1. /\ bytes' = bytes /\ status' \in {status, "none"}
          /\ \E to : work' = [work EXCEPT ![x] = to]
      BY <2>5 DEF Unlink, DeleteRow, WorkAt
    <3>2. \A k \in Completers : work'[k] = work[k]
      BY <1>2, <1>3, <3>1
    <3> QED
      BY <1>5, <2>1, <3>1, <3>2
  <2> QED
    BY <1>6, <2>1a, <2>1b, <2>2, <2>3, <2>4, <2>5 DEF FileNext
<1>7. CASE CallNext
  <2>1. status' = status /\ bytes' = bytes
    BY <1>7, CallFrame
  <2>2. ASSUME NEW g \in Downloads, callAt'[g] \in {"access", "open"}
        PROVE  callAt[g] \in {"access", "open"} \/ status = "READY"
    BY <1>2, <1>7, <2>2 DEF CallNext, Download, DownloadRefused, Check,
       Access, Stream, StreamError, CleanupError, Restart, CutOff, GoOn,
       Reading, Servable
  <2>3. Seen' => Seen \/ status = "READY"
    BY <2>2 DEF Seen
  <2>4. ASSUME NEW k \in Completers
        PROVE  \/ work'[k] = work[k]
               \/ work[k] # "done" /\ work'[k] \notin Begun
    <3>1. CASE CutOff
      BY <1>2, <3>1 DEF CutOff, Begun
    <3>2. CASE work' = work
      BY <3>2
    <3> QED
      BY <1>7, <3>1, <3>2 DEF CallNext, Download, DownloadRefused, Check,
         Access, Stream, StreamError, CleanupError, Restart, fileVars
  <2> QED
    BY <1>5, <2>1, <2>3, <2>4
<1>8. CASE HttpNext
  <2>1. Seen' = Seen
    BY <1>8, HttpFrame DEF Seen
  <2> QED
    BY <1>5, <1>8, <2>1, HttpFrame
<1> QED
  BY <1>6, <1>7, <1>8 DEF DownloadsNext

\* The bytes are counted when they are sent.
LEMMA BodiesStep ==
    ASSUME DownloadsInv, ReadyIsWhole, BodiesAreWhole, DownloadsNext
    PROVE  BodiesAreWhole'
<1>1. size' = size /\ uploaded' = uploaded
  BY SizesKept
<1>2. /\ callAt \in [Downloads -> Reading \cup {"idle", "sent", "cut", "400",
                                                "404", "500"}]
      /\ header \in [Downloads -> Headers \cup {Whole}]
      /\ plan \in [Downloads -> Plan]
  BY DEF DownloadsInv, DownloadsTyped
<1>3a. disturbed => disturbed'
  BY CallFrame, HttpFrame DEF DownloadsNext, FileNext, ChunkStart, ChunkEnd,
     Complete, MergeOpen, MergeEnd, CleanupEnd, SaveReady, Unlink, DeleteRow
<1> SUFFICES ASSUME ~disturbed'  PROVE BodiesAreWhole'
  BY DEF BodiesAreWhole
<1>3. \A g \in Downloads : callAt[g] = "sent" /\ size = uploaded =>
         plan[g].sent = plan[g].length
  BY <1>3a DEF BodiesAreWhole
<1>4. ASSUME \A g \in Downloads : callAt'[g] = "sent" =>
                callAt[g] = "sent" /\ plan'[g] = plan[g]
      PROVE  BodiesAreWhole'
  BY <1>1, <1>3, <1>4 DEF BodiesAreWhole
<1>5. ASSUME NEW g \in Downloads, Stream(g)
      PROVE  BodiesAreWhole'
  <2>1. /\ callAt[g] = "open" /\ callAt' = [callAt EXCEPT ![g] = "sent"]
        /\ plan' = [plan EXCEPT ![g] = [plan[g] EXCEPT !.sent = Found(plan[g])]]
    BY <1>5 DEF Stream, GoOn
  <2>2. bytes = uploaded
    BY <1>3a, <2>1 DEF ReadyIsWhole
  <2>3. size \in Nat \ {0}
    BY SizesTyped DEF DownloadsInv
  <2> DEFINE p == PlanFor(header[g], size)
  <2>4. /\ ~BadHeader(header[g])
        /\ plan[g] = [p EXCEPT !.sent = plan[g].sent]
    BY <2>1 DEF DownloadsInv, PlansServe, Reading
  <2>5. p \in Plan
    BY <1>2, <2>3, <2>4, PlanServes
  <2>6. size = uploaded => Found(p) = p.length
    BY <1>2, <2>2, <2>3, <2>4, FoundCount
  <2> HIDE DEF p
  <2>7. /\ plan[g].first = p.first /\ plan[g].last = p.last
        /\ plan[g].length = p.length
    BY <2>4, <2>5 DEF Plan
  <2>8. Found(plan[g]) = Found(p)
    BY <2>7 DEF Found
  <2>9. plan'[g].sent = Found(p) /\ plan'[g].length = p.length
    BY <1>2, <2>1, <2>7, <2>8 DEF Plan
  <2>10. \A f \in Downloads \ {g} :
            callAt'[f] = callAt[f] /\ plan'[f] = plan[f]
    BY <1>2, <2>1
  <2> QED
    BY <1>1, <1>3, <2>6, <2>9, <2>10 DEF BodiesAreWhole
<1>6. ASSUME NEW g \in Downloads, NEW h \in Headers,
             Download(g, h) \/ DownloadRefused(g, h)
      PROVE  BodiesAreWhole'
  <2>1. /\ \A f \in Downloads \ {g} :
              callAt'[f] = callAt[f] /\ plan'[f] = plan[f]
        /\ callAt'[g] # "sent"
    BY <1>2, <1>6 DEF Download, DownloadRefused, GoOn
  <2> QED
    BY <1>4, <2>1
<1>7. ASSUME NEW g \in Downloads, Check(g) \/ Access(g)
      PROVE  BodiesAreWhole'
  <2>1. /\ \A f \in Downloads \ {g} : callAt'[f] = callAt[f]
        /\ callAt'[g] # "sent" /\ plan' = plan
    BY <1>2, <1>7 DEF Check, Access, GoOn, Readable, Servable
  <2> QED
    BY <1>4, <2>1
<1>8. CASE CutOff
  BY <1>4, <1>8 DEF CutOff, Reading
<1>9. CASE callAt' = callAt /\ plan' = plan
  BY <1>4, <1>9
<1> QED
  BY <1>5, <1>6, <1>7, <1>8, <1>9, FileFrame, HttpFrame
  DEF DownloadsNext, CallNext, StreamError, CleanupError, Restart

-----------------------------------------------------------------------------
(* Theorems *)

\* Files, calls, signatures and tokens fit together for ever.
THEOREM DownloadsInductive == DownloadsSpec => []DownloadsInv
<1>1. DownloadsInit => DownloadsInv
  BY DownloadsStart
<1>2. DownloadsInv /\ [DownloadsNext]_downloadVars => DownloadsInv'
  BY DownloadsStep
<1> QED
  BY <1>1, <1>2, PTL DEF DownloadsSpec

\* Every variable has its type, lengths and byte counts are numbers.
THEOREM DownloadsTypeCorrect == DownloadsSpec => []DownloadsTyped
<1>1. DownloadsInv => DownloadsTyped
  BY DEF DownloadsInv
<1> QED
  BY <1>1, DownloadsInductive, PTL

\* Tokens live among downloads as Sessions says: what is proved of Sessions
\* holds here.
THEOREM SessionsImplemented == DownloadsSpec => SessionsSpec
<1>1. DownloadsInit => SessionsInit
  BY DEF DownloadsInit
<1>2. [DownloadsNext]_downloadVars => [SessionsNext]_sessionVars
  BY SessionsFollowed
<1> QED
  BY <1>1, <1>2, PTL DEF DownloadsSpec, SessionsSpec

\* For every size and Range header: the bytes announced are those the header
\* names, and a header is refused exactly when it names none or others.
THEOREM RangesAreServed == DownloadsSpec => []RangesFit
<1>1. ASSUME DownloadsInv, NEW g \in Downloads
      PROVE  /\ plan[g] # NoPlan =>
                  /\ HeaderFits(header[g])
                  /\ plan[g].length = IF header[g] = Whole THEN size
                                      ELSE Cardinality(Asked(header[g]))
             /\ callAt[g] = "400" /\ plan[g] = NoPlan => ~HeaderFits(header[g])
  <2>1. size \in Nat \ {0} /\ header[g] \in Headers \cup {Whole}
    BY <1>1, SizesTyped DEF DownloadsInv, DownloadsTyped
  <2>2. BadHeader(header[g]) <=> ~HeaderFits(header[g])
    BY <2>1, BadHeaders
  <2>3. CASE plan[g] # NoPlan
    <3> DEFINE p == PlanFor(header[g], size)
    <3>1. ~BadHeader(header[g]) /\ plan[g] = [p EXCEPT !.sent = plan[g].sent]
      BY <1>1, <2>3 DEF DownloadsInv, PlansServe
    <3>2. /\ p \in Plan
          /\ p.length = IF header[g] = Whole THEN size
                        ELSE Cardinality(Asked(header[g]))
      BY <2>1, <3>1, PlanServes
    <3> HIDE DEF p
    <3>3. plan[g].length = p.length
      BY <3>1, <3>2 DEF Plan
    <3> QED
      BY <2>2, <2>3, <3>1, <3>2, <3>3
  <2>4. CASE plan[g] = NoPlan
    BY <1>1, <2>2, <2>4 DEF DownloadsInv, PlansServe
  <2> QED
    BY <2>3, <2>4
<1>2. DownloadsInv => RangesFit
  BY <1>1 DEF RangesFit, HeaderFits
<1> QED
  BY <1>2, DownloadsInductive, PTL

\* When no merge meets a half-written chunk or another completion, whatever is
\* sent again, completed again, removed and fails meanwhile: a body that is sent
\* is as long as announced.
THEOREM BodiesAreComplete == DownloadsSpec => []BodiesAreWhole
<1>1. DownloadsInit => ReadyIsWhole /\ BodiesAreWhole
  BY DownloadsAssumption DEF DownloadsInit, ReadyIsWhole, BodiesAreWhole, Begun
<1>2. DownloadsInv /\ ReadyIsWhole /\ BodiesAreWhole
        /\ [DownloadsNext]_downloadVars
        => ReadyIsWhole' /\ BodiesAreWhole'
  <2> SUFFICES ASSUME DownloadsInv, ReadyIsWhole, BodiesAreWhole,
                      [DownloadsNext]_downloadVars
               PROVE  ReadyIsWhole' /\ BodiesAreWhole'
    OBVIOUS
  <2>1. CASE DownloadsNext
    BY <2>1, WholeStep, BodiesStep
  <2>2. CASE UNCHANGED downloadVars
    BY <2>2 DEF downloadVars, fileVars, readVars, ReadyIsWhole, BodiesAreWhole
  <2> QED
    BY <2>1, <2>2
<1> QED
  BY <1>1, <1>2, DownloadsInductive, PTL DEF DownloadsSpec

\* Unless the file system fails, the process ends only for a call that a removal
\* overtook, or for a chunk written while the chunks are cleaned up.
THEOREM OnlyRacesEnd == DownloadsSpec => OnlyRacesKill
<1> DEFINE Race == died' # died /\ failures' = failures =>
                     \/ \E g \in raced : callAt[g] = "open"
                     \/ (chunk = "writing" /\ cleaning # {})
<1>1. DownloadsInv /\ [DownloadsNext]_downloadVars => [Race]_downloadVars
  <2> SUFFICES ASSUME DownloadsInv, DownloadsNext, died' # died,
                      failures' = failures
               PROVE  \/ \E g \in raced : callAt[g] = "open"
                      \/ (chunk = "writing" /\ cleaning # {})
    OBVIOUS
  <2>1. \/ \E g \in Downloads : StreamError(g)
        \/ \E k \in Completers : CleanupError(k)
    BY FileFrame, HttpFrame DEF DownloadsNext, CallNext, Download,
       DownloadRefused, Check, Access, Stream, Restart
  <2>2. ~Fails
    BY DEF Fails, DownloadsInv, DownloadsTyped
  <2>3. CASE \E g \in Downloads : StreamError(g)
    <3>1. PICK g \in Downloads : callAt[g] = "open" /\ ~linked
      BY <2>2, <2>3 DEF StreamError
    <3> QED
      BY <3>1 DEF DownloadsInv, OpenOrRaced
  <2>4. CASE \E k \in Completers : CleanupError(k)
    BY <2>2, <2>4 DEF CleanupError
  <2> QED
    BY <2>1, <2>3, <2>4
<1> QED
  BY <1>1, DownloadsInductive, PTL DEF DownloadsSpec, OnlyRacesKill

\* A signature is taken for valid for its own file and for UrlTTL only.
THEOREM SignedUrlsExpire == DownloadsSpec => SignaturesExpire
<1> DEFINE Valid ==
      \A q \in Gets :
         reply[q] = "none" /\ reply'[q] \in {"403", "404"}
           => \E url \in urls : url.file = File
                                /\ now - url.since <= UrlTTL * Second
<1>1. DownloadsInv /\ [DownloadsNext]_downloadVars => [Valid]_downloadVars
  <2> SUFFICES ASSUME DownloadsInv, DownloadsNext, NEW q \in Gets,
                      reply[q] = "none", reply'[q] \in {"403", "404"}
               PROVE  \E url \in urls : url.file = File
                                        /\ now - url.since <= UrlTTL * Second
    OBVIOUS
  <2>1. PICK o \in Gets, u \in Users, url \in urls \cup {NoUrl} : Get(o, u, url)
    BY FileFrame, CallFrame DEF DownloadsNext, HttpNext, SignUrl, httpVars
  <2>2. o = q
    BY <2>1 DEF Get, DownloadsInv, DownloadsTyped
  <2> DEFINE answer == IF ~Admits(u) THEN "401"
                       ELSE IF url = NoUrl \/ ~SignatureValid(url) THEN "400"
                       ELSE IF status = "none" THEN "404" ELSE "403"
  <2>3. reply'[q] = answer
    BY <2>1, <2>2 DEF Get, DownloadsInv, DownloadsTyped
  <2>4. url # NoUrl /\ SignatureValid(url)
    <3>1. ASSUME url = NoUrl \/ ~SignatureValid(url)
          PROVE  answer \in {"401", "400"}
      BY <3>1
    <3> HIDE DEF answer
    <3> QED
      BY <2>3, <3>1
  <2>5. /\ url \in urls /\ url.file = File /\ ~(now > url.expires)
        /\ url.expires = url.since + UrlTTL * Second
        /\ url.expires \in Nat /\ url.since \in Nat
    BY <2>1, <2>4 DEF SignatureValid, DownloadsInv, DownloadsTyped, UrlsExpire
  <2>6. now \in Nat /\ UrlTTL * Second \in Nat
    BY SecTyped, DownloadsAssumption, SessionsAssumption
    DEF DownloadsInv, DownloadsTyped
  <2>7. now - url.since <= UrlTTL * Second
    BY <2>5, <2>6
  <2> QED
    BY <2>5, <2>7
<1> QED
  BY <1>1, DownloadsInductive, PTL DEF DownloadsSpec, SignaturesExpire
=============================================================================
