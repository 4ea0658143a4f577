------------------------------- MODULE MCClients -------------------------------
(* Who reads the turns of the gateway and the terminal: the bus and the      *)
(* streams of one request, the streams of several, the web client's chat,    *)
(* its line reader, its list of messages, that of conversations and its      *)
(* composer.  They share no state: a run follows one at a time.              *)
EXTENDS NotificationBus, TurnStreams, WebClient, ClientPage

VARIABLE part

InitParts ==
  /\ part \in {"bus", "streams", "client", "lines", "window", "rows", "composer"}
  /\ Init /\ StreamsInit /\ ClientInit /\ LinesInit /\ WindowInit /\ RowsInit /\ ComposerInit
  /\ part # "streams" => via = [s \in Streams |-> "turn"]
  /\ part # "lines"   => text = <<>>
  /\ part # "rows"    => recent = <<>>

Aside(name, variables) == IF part = name THEN TRUE ELSE UNCHANGED variables

NextParts ==
  /\ UNCHANGED part
  /\ Aside("bus", vars) /\ Aside("streams", streamVars)
  /\ Aside("client", clientVars) /\ Aside("lines", lineVars) /\ Aside("window", windowVars)
  /\ Aside("rows", rowVars) /\ Aside("composer", composerVars)
  /\ \/ part = "bus" /\ Next
     \/ part = "streams" /\ StreamsNext
     \/ part = "client" /\ ClientNext
     \/ part = "lines" /\ LinesNext
     \/ part = "window" /\ WindowNext
     \/ part = "rows" /\ RowsNext
     \/ part = "composer" /\ ComposerNext

partVars == <<vars, streamVars, clientVars, lineVars, windowVars, rowVars,
              composerVars, part>>

(* The fairness of NotificationBus and of TurnStreams, for the part followed.*)
FairBus ==
  /\ WF_vars(part = "bus" /\ (Answer \/ GiveUp))
  /\ \A r \in Readers :
       /\ WF_vars(part = "bus" /\ Subscribe(r)) /\ WF_vars(part = "bus" /\ Receive(r))
       /\ WF_vars(part = "bus" /\ Cancelled(r))

FairStreams ==
  \A s \in Streams :
    /\ WF_streamVars(part = "streams" /\ Take(s)) /\ WF_streamVars(part = "streams" /\ Return(s))
    /\ WF_streamVars(part = "streams" /\ Cancel(s) /\ run[s] # "running")
    /\ WF_streamVars(part = "streams" /\ Read(s)) /\ WF_streamVars(part = "streams" /\ Complete(s))
    /\ WF_streamVars(part = "streams" /\ GiveUpReading(s))

SpecParts == InitParts /\ [][NextParts]_partVars /\ FairBus /\ FairStreams

(* Every variable of every part has its type.                                *)
PartsTypeOK ==
  /\ TypeOK /\ StreamsTypeOK /\ ClientTypeOK /\ LinesTypeOK
  /\ WindowTypeOK /\ RowsTypeOK /\ ComposerTypeOK

(* Every stream ends: the readers of the bus, the observers of a request     *)
(* however it ends, and those who read several.                              *)
StreamsEnd == ReadersEnd /\ EverybodyLeaves /\ RequestsAreRead

(* The web client shows what the server has, locks its composer while a turn *)
(* is streamed, reads every line of a stream, shows some of the messages of  *)
(* a conversation and keeps the user's place in them, lists every            *)
(* conversation, and sends each picture of the composer once.                *)
WebClientIsRight ==
  /\ ViewIsRight /\ ComposerIsRight /\ LinesSurvive
  /\ WindowShowsSome /\ PlaceIsKept /\ RowsAreWhole /\ PicturesAreKept
=============================================================================
