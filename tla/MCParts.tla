------------------------------ MODULE MCParts ------------------------------
(* Four parts that share nothing, one behaviour at a time: the search for  *)
(* cycles, the chunks of a text, the messages of a chat, and a streamed    *)
(* execution.                                                              *)
EXTENDS CycleDetection, Chunking, ChatMessages, WorkflowStream, TLC

CONSTANTS a, b, c, d, t1, t2, nobody, MaxLength, MaxSize

\* Up to renaming, every graph: the search takes the steps in any order.
AllGraphs ==
    {g \in [Steps -> SUBSET Steps] :
        /\ Cardinality(g[a]) <= Cardinality(g[b])
        /\ Cardinality(g[b]) <= Cardinality(g[c])
        /\ Cardinality(g[c]) <= Cardinality(g[d])}

AllTexts == {t \in UNION {[1..n -> BOOLEAN] : n \in 0..MaxLength} : Normalized(t)}

AllSizes    == 0..MaxSize
AllOverlaps == -1..MaxSize

VARIABLE part

\* A part that is not looked at stays at one initial state.
PartsInit ==
    /\ part \in {"cycles", "chunks", "chats", "stream"}
    /\ Init /\ (part # "cycles" => \A n \in Steps : graph[n] = {})
    /\ ChunkInit /\ (part # "chunks" => text = <<>> /\ size = 1 /\ overlap = 0)
    /\ ChatInit
    /\ StreamInit

PartsNext ==
    /\ UNCHANGED part
    /\ \/ part = "cycles" /\ Next /\ UNCHANGED <<chunkVars, chatVars, streamVars>>
       \/ part = "chunks" /\ ChunkNext /\ UNCHANGED <<vars, chatVars, streamVars>>
       \/ part = "chats" /\ ChatNext /\ UNCHANGED <<vars, chunkVars, streamVars>>
       \/ part = "stream" /\ StreamNext /\ UNCHANGED <<vars, chunkVars, chatVars>>

PartsSpec ==
    /\ PartsInit /\ [][PartsNext]_<<part, vars, chunkVars, chatVars, streamVars>>
    /\ WF_vars(part = "cycles" /\ Next)
    /\ WF_streamVars(part = "stream" /\ TaskStep)
    /\ WF_streamVars(part = "stream" /\ ReaderStep)

\* Whatever graph detect_cycles is given, it returns or raises.
CyclesDecide == part = "cycles" => Decides

\* A response that is read ends, unless the database fails its task or the
\* run is deleted under it.
StreamsEnd == part = "stream" => StreamEnds
=============================================================================
