--------------------------- MODULE LocalProtocols ---------------------------
(***************************************************************************)
(* What is said on the domain sockets of the three daemons.  A field is    *)
(* what one recv of the receiver takes, and stands for itself; a request   *)
(* is the sequence of its sends, each a sequence of fields.  "rv" is a     *)
(* return value of zero, "error" any other.                                *)
(***************************************************************************)
EXTENDS Integers, Sequences, SequencesExt

CONSTANT NumChunks   \* chunks of a segment that is published

ASSUME ProtocolAssumption == NumChunks \in Nat

Daemons == {"ccnud", "ccnfd", "bfrd"}

Call(sends, awaits) == [sends |-> sends, awaits |-> awaits]
Service(reads, replies) == [reads |-> reads, replies |-> replies]

Separately(fields) == [i \in 1..Len(fields) |-> <<fields[i]>>]

\* A content object as it is sent, after the fields of a header.
Object(header) ==
    <<header \o <<"publisher", "name_len">>, <<"name">>, <<"timestamp", "size">>, <<"data">>>>

Chunks(chunk) == FlattenSeq([i \in 1..NumChunks |-> chunk])

Content == <<"publisher", "name_len", "name", "timestamp", "size", "data">>
Name == <<"payload_size", "name_len", "name">>
Route == <<"orig_level", "orig_clusterId", "dest_level", "dest_clusterId">>
-----------------------------------------------------------------------------
(* The client library of ccnud.                                            *)

SetTimeout == Call(<<<<"type", "payload_size", "payload">>>>, <<>>)
SetRetries == Call(<<<<"type", "payload_size", "payload">>>>, <<>>)

Publish == Call(Object(<<"type", "payload_size">>), <<"rv">>)

PublishSeq ==
    Call(Object(<<"type", "payload_size">>) \o <<<<"num_chunks">>>> \o Chunks(Object(<<"payload_size">>)),
         <<"rv">>)

Retrieve == Call(<<<<"type">> \o Name>>, <<"rv">> \o Content)

SegmentRequest == <<"type">> \o Name \o <<"chunks", "file_len">>
SegmentContent == <<"rv">> \o Content
RetrieveSeq == Call(Separately(SegmentRequest), SegmentContent)

Options == <<"mode", "distance">> \o Route \o <<"retries", "timeout", "ttl">>
OptionsContent == <<"rv">> \o Content
RetrieveOpts == Call(Separately(SegmentRequest \o Options), OptionsContent)

Summary == Call(<<<<"type", "payload_size", "payload">>>>, <<"bits", "words", "vector">>)

CcnuClient == [timeout |-> SetTimeout, retries |-> SetRetries, publish |-> Publish,
               publishSeq |-> PublishSeq, retrieve |-> Retrieve, retrieveSeq |-> RetrieveSeq,
               retrieveOpts |-> RetrieveOpts, summary |-> Summary]

(* The jobs of ccnud's pool; its listener has read the type.               *)

PublishResponse == Service(<<"payload_size">> \o Content, <<"rv">>)

SeqPublish ==
    Service(<<"payload_size">> \o Content \o <<"num_chunks">> \o Chunks(<<"payload_size">> \o Content),
            <<"rv">>)

RetrieveResponse == Service(Name, <<"rv">> \o Content)

SeqResponseSwapped == Service(Name \o <<"file_len", "chunks">>, <<"rv">> \o Content)
SeqResponse == Service(Name \o <<"chunks", "file_len">>, <<"rv">> \o Content)

OptResponse ==
    Service(Name \o <<"chunks", "file_len", "mode", "distance">> \o Route \o <<"retries", "timeout", "ttl">>,
            OptionsContent)

SummaryResponse == Service(<<"payload_size", "payload">>, <<"bits", "words", "vector">>)

CcnudHandlers == [publish |-> PublishResponse, publishSeq |-> SeqPublish, retrieve |-> RetrieveResponse,
                  retrieveSeq |-> SeqResponse, retrieveOpts |-> OptResponse, summary |-> SummaryResponse]
-----------------------------------------------------------------------------
(* ccnflood: the same library and jobs, without options for a retrieval    *)
(* and with a summary that leaves out the number of bits.                  *)

FloodSetTimeout == SetTimeout
FloodSetRetries == SetRetries
FloodPublish == Publish
FloodPublishSeq == PublishSeq
FloodRetrieve == Retrieve
FloodRetrieveSeq == RetrieveSeq
FloodSummary == Call(Summary.sends, <<"words", "vector">>)

CcnfClient == [timeout |-> FloodSetTimeout, retries |-> FloodSetRetries, publish |-> FloodPublish,
               publishSeq |-> FloodPublishSeq, retrieve |-> FloodRetrieve,
               retrieveSeq |-> FloodRetrieveSeq, summary |-> FloodSummary]

FloodPublishResponse == PublishResponse
FloodSeqPublish == SeqPublish
FloodRetrieveResponse == RetrieveResponse
FloodSeqResponse == SeqResponse
FloodSummaryResponse == Service(SummaryResponse.reads, <<"words", "vector">>)

CcnfdHandlers == [publish |-> FloodPublishResponse, publishSeq |-> FloodSeqPublish,
                  retrieve |-> FloodRetrieveResponse, retrieveSeq |-> FloodSeqResponse,
                  summary |-> FloodSummaryResponse]
-----------------------------------------------------------------------------
(* The client library and the jobs of bfrd.                                *)

BfrHeader == <<"type", "nodeId", "payload_size">>

SendMsg == Call(Separately(BfrHeader \o <<"payload">>), <<>>)
SendLocInTwo == Call(Separately(BfrHeader \o <<"x", "y">>), <<>>)
SendLoc == Call(Separately(BfrHeader \o <<"payload">>), <<>>)
SendDistance == Call(Separately(BfrHeader \o <<"name_len", "name", "hops">>), <<>>)
SendQry ==
    Call(Separately(BfrHeader \o <<"name_len", "name">> \o Route \o <<"distance">>),
         Route \o <<"distance", "need_fwd">>)
SendWhere == Call(Separately(BfrHeader \o <<"name_len", "name">>), Route \o <<"distance">>)
QueryDistance == Call(Separately(BfrHeader \o Route), <<"distance">>)

BfrClient == [message |-> SendMsg, location |-> SendLoc, hops |-> SendDistance, forward |-> SendQry,
              where |-> SendWhere, distance |-> QueryDistance]

FwdQueryResponse ==
    Service(<<"name_len", "name">> \o Route \o <<"distance">>, Route \o <<"distance", "need_fwd">>)
DestQueryResponse == Service(<<"name_len", "name">>, Route \o <<"distance">>)
DistQueryResponse == Service(Route, <<"distance">>)

BfrdHandlers == [forward |-> FwdQueryResponse, where |-> DestQueryResponse, distance |-> DistQueryResponse]
-----------------------------------------------------------------------------
ClientOf == [ccnud |-> CcnuClient, ccnfd |-> CcnfClient, bfrd |-> BfrClient]
HandlerOf == [ccnud |-> CcnudHandlers, ccnfd |-> CcnfdHandlers, bfrd |-> BfrdHandlers]

\* What the listener reads before it knows whom a request is for, and the rest of a message it keeps for
\* the main thread.
Header == [ccnud |-> <<"type">>, ccnfd |-> <<"type">>, bfrd |-> BfrHeader]
Body(d, k) ==
    LET request == FlattenSeq(ClientOf[d][k].sends) IN SubSeq(request, Len(Header[d]) + 1, Len(request))

\* Threads of the pool: INTEREST_FLOWS in ccnud and ccnfd.
PoolSize == [ccnud |-> 1, ccnfd |-> 1, bfrd |-> 3]
=============================================================================
