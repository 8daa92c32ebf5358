-------------------------- MODULE URLFinderProofs ---------------------------
(***************************************************************************)
(* Proofs about URLFinder, for any number of exchanges.                    *)
(***************************************************************************)
EXTENDS URLFinder, FiniteSetTheorems, SequenceTheorems, TLAPS

LEMMA CountTyped ==
    ASSUME NEW S, NEW q \in Seq(S), NEW A
    PROVE  Count(q, A) \in Nat /\ IsFiniteSet({i \in DOMAIN q : q[i] \in A})
<1>1. IsFiniteSet(1 .. Len(q)) /\ DOMAIN q = 1 .. Len(q)
  BY FS_Interval
<1>2. {i \in DOMAIN q : q[i] \in A} \subseteq 1 .. Len(q)
  BY <1>1
<1>3. IsFiniteSet({i \in DOMAIN q : q[i] \in A})
  BY <1>1, <1>2, FS_Subset
<1>4. QED
  BY <1>3, FS_CardinalityType DEF Count

LEMMA CountEmpty == \A A : Count(<<>>, A) = 0
<1> SUFFICES ASSUME NEW A PROVE Count(<<>>, A) = 0
  OBVIOUS
<1>1. {i \in DOMAIN <<>> : <<>>[i] \in A} = {}
  OBVIOUS
<1>2. QED
  BY <1>1, FS_EmptySet DEF Count

\* An element counts where it belongs.
LEMMA CountAppend ==
    ASSUME NEW S, NEW q \in Seq(S), NEW e \in S, NEW A
    PROVE  Count(Append(q, e), A) = IF e \in A THEN Count(q, A) + 1 ELSE Count(q, A)
<1> DEFINE I == {i \in DOMAIN q : q[i] \in A}
           r == Append(q, e)
           J == {i \in DOMAIN r : r[i] \in A}
           n == Len(q) + 1
<1>1. /\ DOMAIN r = DOMAIN q \cup {n} /\ n \notin DOMAIN q /\ r[n] = e
      /\ \A i \in DOMAIN q : r[i] = q[i]
  OBVIOUS
<1>2. J = IF e \in A THEN I \cup {n} ELSE I
  <2> HIDE DEF r, n
  <2>1. QED
    BY <1>1
<1>3. n \notin I
  BY <1>1
<1>4. IsFiniteSet(I)
  BY CountTyped
<1>5. Cardinality(I \cup {n}) = Cardinality(I) + 1
  <2> HIDE DEF I, n
  <2>1. QED
    BY <1>3, <1>4, FS_AddElement
<1>6. QED
  <2> HIDE DEF I, n, r, J
  <2>1. Cardinality(J) = IF e \in A THEN Cardinality(I) + 1 ELSE Cardinality(I)
    BY <1>2, <1>5
  <2>2. QED
    BY <2>1 DEF Count, I, J, r

\* A request of the exchange lists nothing, or one stream.
Listed(e) == IF IsIgnored(e) \/ ContentType(e) = "None" THEN <<>> ELSE StreamsOf(e)

LEMMA FormatTyped == \A code : Format(code) \in {"MP3", "AAC", "HE-AAC", "unknown"}
  BY DEF Format

LEMMA ResponseTyped ==
    ASSUME NEW e \in Exchanges
    PROVE  /\ ResponseType(e) \in {"StreamTheWorld", "Nacamar", "Icecast", "None"}
           /\ ResponseType(e) = "Nacamar" => e.host = "mdn.newmedia.nacamar.net"
           /\ ResponseType(e) = "Icecast" => e.host = "other" /\ e.icy
           /\ e.icy => ResponseType(e) # "None"
  BY FinderAssumption DEF Exchanges, ResponseType

\* What is recognised as audio has a format.
LEMMA AudioHasFormat ==
    ASSUME NEW e \in Exchanges
    PROVE  ContentType(e) \in {"MPEGStream", "AACStream"}
              => /\ e.contentType \in MPEGTypes \cup AACTypes
                 /\ Format(e.contentType) # "unknown"
<1>1. ASSUME ContentType(e) \in {"MPEGStream", "AACStream"}
      PROVE  e.contentType \in MPEGTypes \cup AACTypes
  <2>1. e.contentType \in MimeCodes
    BY <1>1 DEF ContentType
  <2>2. MimeCodeType[e.contentType] \in {"MPEGStream", "AACStream"}
    BY <1>1, <2>1 DEF ContentType
  <2>3. QED
    BY <2>1, <2>2 DEF MimeCodeType, MimeCodes, MPEGTypes, AACTypes
<1>2. \A code \in MPEGTypes \cup AACTypes : Format(code) # "unknown"
  BY DEF MPEGTypes, AACTypes, Format, WordsIn
<1>3. QED
  BY <1>1, <1>2

\* What an exchange adds to the list.
LEMMA ListedIs ==
    ASSUME NEW e \in Exchanges
    PROVE  \/ Listed(e) = <<>> /\ e \notin IcecastAudio
           \/ \E s \in Streams :
                /\ Listed(e) = <<s>>
                /\ e \in IcecastAudio => s.format = Format(e.contentType)
<1>1. CASE IsIgnored(e) \/ ContentType(e) = "None"
  <2>1. Listed(e) = <<>>
    BY <1>1 DEF Listed
  <2>2. \A code \in MimeCodesToIgnore : code \notin MPEGTypes \cup AACTypes
    BY DEF MimeCodesToIgnore, MPEGTypes, AACTypes
  <2>3. e \notin IcecastAudio
    BY <1>1, <2>2, AudioHasFormat DEF IcecastAudio, IsIgnored
  <2>4. QED
    BY <2>1, <2>3
<1>2. CASE ~(IsIgnored(e) \/ ContentType(e) = "None")
  <2>2. Listed(e) = StreamsOf(e)
    BY <1>2 DEF Listed
  <2>3. CASE ResponseType(e) = "StreamTheWorld"
    <3>1. PlaylistForStreamTheWorld \in Streams
      BY DEF PlaylistForStreamTheWorld, Streams, URLs
    <3>3. e \notin IcecastAudio
      BY <2>3 DEF IcecastAudio
    <3>4. Listed(e) \in {<<PlaylistForStreamTheWorld>>, <<>>}
      BY <2>2, <2>3 DEF StreamsOf
    <3>5. QED
      BY <3>1, <3>3, <3>4
  <2>4. StreamForIcecastResponse(e) \in Streams
    <3>1. OwnURL(e) \in URLs
      BY DEF OwnURL, URLs, Exchanges
    <3>2. QED
      BY <3>1, FormatTyped DEF StreamForIcecastResponse, Streams
  <2>5. StreamForIcecastResponse(e).format = Format(e.contentType)
    BY DEF StreamForIcecastResponse
  <2>6. CASE ResponseType(e) = "Nacamar"
    <3>1. Listed(e) = <<StreamForNacamar(e)>>
      BY <2>2, <2>6 DEF StreamsOf
    <3>2. StreamForNacamar(e) \in Streams
      <4>1. RewrittenURL(e) \in URLs
        BY DEF RewrittenURL, URLs, Exchanges
      <4>2. QED
        BY <2>4, <4>1 DEF StreamForNacamar, Streams
    <3>3. StreamForNacamar(e).format = Format(e.contentType)
      BY <2>4, <2>5 DEF StreamForNacamar, Streams
    <3>4. QED
      BY <3>1, <3>2, <3>3
  <2>7. CASE ResponseType(e) = "Icecast"
    <3>1. Listed(e) = <<StreamForIcecastResponse(e)>>
      BY <2>2, <2>7 DEF StreamsOf
    <3>2. QED
      BY <2>4, <2>5, <3>1
  <2>8. CASE ResponseType(e) = "None"
    <3>1. Listed(e) = <<>>
      BY <2>2, <2>8 DEF StreamsOf
    <3>2. e \notin IcecastAudio
      BY <2>8, ResponseTyped DEF IcecastAudio
    <3>3. QED
      BY <3>1, <3>2
  <2>9. QED
    BY <2>3, <2>6, <2>7, <2>8, ResponseTyped
<1>3. QED
  BY <1>1, <1>2

\* What a call of addRequest:response: does to the two lists.
LEMMA RequestStep ==
    ASSUME TypeOK, NEW e \in Exchanges, AddRequest(e)
    PROVE  /\ requests' = Append(requests, e)
           /\ requests' \in Seq(Exchanges) /\ Len(requests') <= MaxRequests
           /\ \/ streams' = streams /\ e \notin IcecastAudio
              \/ \E s \in Streams :
                   /\ streams' = Append(streams, s)
                   /\ e \in IcecastAudio => s.format = Format(e.contentType)
<1>1. requests \in Seq(Exchanges) /\ streams \in Seq(Streams)
  BY DEF TypeOK
<1>2. /\ requests' = Append(requests, e) /\ Len(requests) < MaxRequests
      /\ streams' = IF IsIgnored(e) \/ ContentType(e) = "None"
                      THEN streams ELSE streams \o StreamsOf(e)
  BY DEF AddRequest
<1>3. requests' \in Seq(Exchanges) /\ Len(requests') <= MaxRequests
  BY <1>1, <1>2, FinderAssumption
<1>4. streams' = streams \o Listed(e)
  <2>1. streams \o <<>> = streams
    BY <1>1, ConcatEmptySeq
  <2>2. QED
    BY <1>2, <2>1 DEF Listed
<1>5. CASE Listed(e) = <<>> /\ e \notin IcecastAudio
  BY <1>1, <1>2, <1>3, <1>4, <1>5, ConcatEmptySeq
<1>6. ASSUME NEW s \in Streams, Listed(e) = <<s>> PROVE streams' = Append(streams, s)
  BY <1>1, <1>4, <1>6, AppendIsConcat
<1>7. QED
  BY <1>2, <1>3, <1>5, <1>6, ListedIs

LEMMA InitTypes == Init => TypeOK
  BY FinderAssumption, EmptySeq DEF Init, TypeOK

LEMMA StepTypes == TypeOK /\ [Next]_vars => TypeOK'
<1> SUFFICES ASSUME TypeOK, [Next]_vars PROVE TypeOK'
  OBVIOUS
<1>1. CASE UNCHANGED vars
  BY <1>1 DEF TypeOK, vars
<1>2. ASSUME NEW e \in Exchanges, AddRequest(e) PROVE TypeOK'
  <2>1. requests' \in Seq(Exchanges) /\ Len(requests') <= MaxRequests
    BY <1>2, RequestStep
  <2>2. streams \in Seq(Streams)
    BY DEF TypeOK
  <2>3. streams' = streams \/ \E s \in Streams : streams' = Append(streams, s)
    BY <1>2, RequestStep
  <2>4. streams' \in Seq(Streams)
    BY <2>2, <2>3
  <2>5. QED
    BY <2>1, <2>4 DEF TypeOK
<1>3. QED
  BY <1>1, <1>2 DEF Next

\* What the finder keeps are exchanges and streams.
THEOREM TypeCorrect == Spec => []TypeOK
  BY InitTypes, StepTypes, PTL DEF Spec

LEMMA StepAudio == TypeOK /\ AudioIsFound /\ [Next]_vars => AudioIsFound'
<1> SUFFICES ASSUME TypeOK, AudioIsFound, [Next]_vars PROVE AudioIsFound'
  OBVIOUS
<1> DEFINE A == {s \in Streams : s.format # "unknown"}
<1>1. Count(requests, IcecastAudio) <= Count(streams, A)
  BY DEF AudioIsFound
<1>2. requests \in Seq(Exchanges) /\ streams \in Seq(Streams)
  BY DEF TypeOK
<1>3. Count(streams, A) \in Nat /\ Count(requests, IcecastAudio) \in Nat
  BY <1>2, CountTyped
<1>4. CASE UNCHANGED vars
  BY <1>4 DEF vars, AudioIsFound
<1>5. ASSUME NEW e \in Exchanges, AddRequest(e) PROVE AudioIsFound'
  <2>1. Count(requests', IcecastAudio) = IF e \in IcecastAudio
                                           THEN Count(requests, IcecastAudio) + 1
                                           ELSE Count(requests, IcecastAudio)
    <3>1. requests' = Append(requests, e)
      BY <1>5, RequestStep
    <3>2. QED
      BY <1>2, <3>1, CountAppend
  <2>2. CASE streams' = streams /\ e \notin IcecastAudio
    BY <1>1, <2>1, <2>2 DEF AudioIsFound
  <2>3. ASSUME NEW s \in Streams, streams' = Append(streams, s),
               e \in IcecastAudio => s.format = Format(e.contentType)
        PROVE  AudioIsFound'
    <3>1. Count(streams', A) = IF s \in A THEN Count(streams, A) + 1
                                          ELSE Count(streams, A)
      <4> HIDE DEF A
      <4>1. QED
        BY <1>2, <2>3, CountAppend
    <3>2. e \in IcecastAudio => s \in A
      BY <2>3, AudioHasFormat DEF IcecastAudio
    <3>3. Count(requests', IcecastAudio) <= Count(streams', A)
      <4> HIDE DEF A
      <4>1. QED
        BY <1>1, <1>3, <2>1, <3>1, <3>2
    <3>4. QED
      BY <3>3 DEF AudioIsFound
  <2>4. QED
    BY <1>5, <2>2, <2>3, RequestStep
<1>6. QED
  BY <1>4, <1>5 DEF Next

\* However many exchanges reach the finder, none of the MP3 and AAC streams of servers
\* that send Icecast headers is missing in the list.
THEOREM AudioIsFoundAlways == Spec => []AudioIsFound
<1>1. Init => AudioIsFound
  <2> SUFFICES ASSUME Init PROVE AudioIsFound
    OBVIOUS
  <2>1. \A A : Count(requests, A) = 0 /\ Count(streams, A) = 0
    BY CountEmpty DEF Init
  <2>2. QED
    BY <2>1 DEF AudioIsFound
<1>2. QED
  BY <1>1, InitTypes, StepTypes, StepAudio, PTL DEF Spec

=============================================================================
