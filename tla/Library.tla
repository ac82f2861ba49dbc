------------------------------- MODULE Library -------------------------------
(***************************************************************************)
(* The parts of the library that compute rather than wait: the generated   *)
(* message code, MD5, the making of directories and the labels of times.    *)
(* They share no state, so each is gone through while the others have      *)
(* returned.                                                               *)
(***************************************************************************)
EXTENDS ProtoCodec, FileUtil, MD5, ChatTime, CIMDef, CIMLogin, CIMMessage, CIMList,
        CIMFriend, CIMGroup, CIMVoip
LOCAL INSTANCE TLC

\* The tables of all messages.
Tables ==
    CIMDefSchema @@ CIMLoginSchema @@ CIMMessageSchema @@ CIMListSchema @@
    CIMFriendSchema @@ CIMGroupSchema @@ CIMVoipSchema
ProtocolSchema == Tables

vars == <<codecVars, fileVars, mdVars, timeVars>>

\* A component that is not being called.
CodecReturned ==
    /\ msgType = "CIMUserInfo" /\ object = Cleared(msgType)
    /\ sets = 0 /\ parts = << >> /\ wire = << >> /\ noise = "none"
    /\ delivered = TRUE
    /\ received = [ok |-> FALSE, msg |-> object]
FileReturned ==
    /\ path = << >> /\ beyond = << Nul >> /\ dirs = {} /\ files = {}
    /\ at = 0 /\ step = "returned" /\ result = FALSE
    /\ made = {} /\ others = 0 /\ errors = 0
MdReturned ==
    /\ ulong = 8 /\ md = Constructed
    /\ total = 0 /\ asked = FALSE /\ spoilt = FALSE /\ calls = MaxCalls
TimeReturned == msgTimeStamp = 0 /\ curTime = YearStart[2026] * Day - 1

Init ==
    \/ CodecInit /\ FileReturned /\ MdReturned /\ TimeReturned
    \/ CodecReturned /\ FileInit /\ MdReturned /\ TimeReturned
    \/ CodecReturned /\ FileReturned /\ MdInit /\ TimeReturned
    \/ CodecReturned /\ FileReturned /\ MdReturned /\ TimeInit

Next ==
    \/ CodecNext /\ UNCHANGED <<fileVars, mdVars, timeVars>>
    \/ FileNext /\ UNCHANGED <<codecVars, mdVars, timeVars>>
    \/ MdNext /\ UNCHANGED <<codecVars, fileVars, timeVars>>
    \/ ~TimeReturned /\ TimeNext /\ UNCHANGED <<codecVars, fileVars, mdVars>>

Spec == Init /\ [][Next]_vars
==============================================================================
