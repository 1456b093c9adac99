------------------------------ MODULE MCTools ------------------------------
(* Small instances of Signal and Advisor for TLC.  A behaviour decodes a     *)
(* file, or builds up a history that the sentinel and the advisor look at.   *)
EXTENDS Signal, Advisor

VARIABLE tool

(* Files.  20 divides the samples of one or two channels, 40 those of three. *)
S0 == {-40, 0, 20}
S3 == {-40, 0, 40}
Frame2 == S0 \X S0
Main(frames) == Packet("default", Len(frames[1]), frames)
Foreign == Packet("other", 2, <<<<40, 40>>>>)
Empty == Packet("default", 2, <<>>)

\* Two stereo packets of one or two frames, and all ways to end or to damage
\* them.
Pairs == {<<Main(<<f>>), Main(<<g, h>>)>> : f, g, h \in Frame2}
Wholes == {p \o <<Event("end")>> : p \in Pairs}
Hurt ==
    LET p == <<Main(<<<<40, 0>>>>), Main(<<<<-40, 40>>, <<0, 40>>>>)>> IN
    {<<Event(k)>> : k \in {"end", "cut"}}
        \union {<<p[1], Event(k), p[2], Event("end")>> : k \in {"cut", "corrupt", "reset"}}
        \union {<<Foreign, p[1], Foreign, p[2], Event(k)>> : k \in {"end", "cut"}}
        \union {<<p[1], Main(<<<<40>>>>), Event("end")>>}
        \union {<<Empty, Event("end")>>, <<p[1], Empty, p[2], Event("end")>>}
Others ==
    {<<Main(<<<<x>>, <<y>>, <<z>>>>), Event("end")>> : x, y, z \in S0}
        \union {<<Main(<<<<x, y, z>>, <<z, x, 0>>>>), Event("end")>> : x, y, z \in S3}
SmallFiles ==
    {[channels |-> 2, events |-> e] : e \in Wholes \union Hurt}
        \union {[channels |-> 0, events |-> e] : e \in Others \union Hurt}
        \union {[channels |-> 1, events |-> e] : e \in Hurt}

Smooth == [b0 |-> 1, b1 |-> 1, b2 |-> 0, a1 |-> 0, a2 |-> 0]
Resonant == [b0 |-> 1, b1 |-> -1, b2 |-> 1, a1 |-> 1, a2 |-> -1]
SomeDevices ==
    {[width |-> w, chain |-> k] : w \in {0, 10, 18}, k \in {<<>>, <<Smooth>>, <<Smooth, Resonant>>}}

(* Recordings, in halves. *)
Plain == [loudness |-> 0, dynamics |-> 0, low |-> 0, centroid |-> 0,
          correlation |-> 2, balance |-> 0]
Sounds ==
    {[drift |-> 0, value |-> v] :
        v \in {Plain, [f \in Features |-> 1],
               [Plain EXCEPT !["correlation"] = Missing, !["balance"] = Missing]}}
        \union {[drift |-> 9, value |-> [Plain EXCEPT !["dynamics"] = 2, !["low"] = 1, !["balance"] = -13]]}

Floors == [loudness |-> 2 * One, dynamics |-> One, low |-> (3 * One) \div 2,
           correlation |-> One \div 20, balance |-> One \div 2]

ToolsInit ==
    /\ SignalInit /\ AdvisorInit
    /\ \/ tool = "decoder"
       \/ tool = "advisor" /\ source = CHOOSE f \in SmallFiles : TRUE

ToolsNext ==
    \/ tool = "decoder" /\ SignalNext /\ UNCHANGED <<tool, past, suggestion>>
    \/ tool = "advisor" /\ AdvisorNext /\ UNCHANGED <<tool, signalVars>>

ToolsSpec == ToolsInit /\ [][ToolsNext]_<<tool, signalVars, past, suggestion>>
=============================================================================
