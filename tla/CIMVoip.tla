------------------------------- MODULE CIMVoip -------------------------------
(***************************************************************************)
(* The messages of CIM.Voip: invitations to a call and its end             *)
(* (pb/CIM.Voip.pb.cc and .h). Per message: the fields its accessors get   *)
(* and set, the tags its parser accepts, and what its writer,              *)
(* ByteSizeLong and MergeFrom go through.                                  *)
(***************************************************************************)
EXTENDS WireTypes

CIMVoipInviteReqFields ==
    [creator_user_id |-> U64, invite_user_list |-> Rep(U64),
     invite_type |-> Enum, channel_info |-> Msg("CIMChannelInfo")]
CIMVoipInviteReqParse ==
    <<In(8, "creator_user_id", U64), InPacked(18, 16, "invite_user_list"),
      In(24, "invite_type", Enum),
      In(34, "channel_info", Msg("CIMChannelInfo"))>>
CIMVoipInviteReqWrite ==
    <<Out(1, "creator_user_id", U64), Out(2, "invite_user_list", Rep(U64)),
      Out(3, "invite_type", Enum),
      Out(4, "channel_info", Msg("CIMChannelInfo"))>>

CIMVoipInviteReplyFields ==
    [user_id |-> U64, rsp_code |-> Enum,
     channel_info |-> Msg("CIMChannelInfo")]
CIMVoipInviteReplyParse ==
    <<In(8, "user_id", U64), In(16, "rsp_code", Enum),
      In(26, "channel_info", Msg("CIMChannelInfo"))>>
CIMVoipInviteReplyWrite ==
    <<Out(1, "user_id", U64), Out(2, "rsp_code", Enum),
      Out(3, "channel_info", Msg("CIMChannelInfo"))>>

CIMVoipInviteReplyAckFields ==
    [channel_info |-> Msg("CIMChannelInfo")]
CIMVoipInviteReplyAckParse ==
    <<In(10, "channel_info", Msg("CIMChannelInfo"))>>
CIMVoipInviteReplyAckWrite ==
    <<Out(1, "channel_info", Msg("CIMChannelInfo"))>>

CIMVoipHeartbeatFields == NoFields
CIMVoipHeartbeatParse ==
    << >>
CIMVoipHeartbeatWrite ==
    << >>

CIMVoipByeReqFields ==
    [local_call_time_len |-> U64, user_id |-> U64,
     channel_info |-> Msg("CIMChannelInfo"), bye_reason |-> Enum]
CIMVoipByeReqParse ==
    <<In(8, "local_call_time_len", U64), In(16, "user_id", U64),
      In(26, "channel_info", Msg("CIMChannelInfo")),
      In(32, "bye_reason", Enum)>>
CIMVoipByeReqWrite ==
    <<Out(1, "local_call_time_len", U64), Out(2, "user_id", U64),
      Out(3, "channel_info", Msg("CIMChannelInfo")),
      Out(4, "bye_reason", Enum)>>

CIMVoipByeRspFields ==
    [error_code |-> Enum]
CIMVoipByeRspParse ==
    <<In(8, "error_code", Enum)>>
CIMVoipByeRspWrite ==
    <<Out(1, "error_code", Enum)>>

CIMVoipByeNotifyFields ==
    [user_id |-> U64, channel_info |-> Msg("CIMChannelInfo"),
     byereason |-> Enum]
CIMVoipByeNotifyParse ==
    <<In(8, "user_id", U64), In(18, "channel_info", Msg("CIMChannelInfo")),
      In(24, "byereason", Enum)>>
CIMVoipByeNotifyWrite ==
    <<Out(1, "user_id", U64), Out(2, "channel_info", Msg("CIMChannelInfo")),
      Out(3, "byereason", Enum)>>

CIMVoipSchema ==
    [CIMVoipInviteReq |->
        Message(CIMVoipInviteReqFields, CIMVoipInviteReqParse,
                CIMVoipInviteReqWrite),
     CIMVoipInviteReply |->
        Message(CIMVoipInviteReplyFields, CIMVoipInviteReplyParse,
                CIMVoipInviteReplyWrite),
     CIMVoipInviteReplyAck |->
        Message(CIMVoipInviteReplyAckFields, CIMVoipInviteReplyAckParse,
                CIMVoipInviteReplyAckWrite),
     CIMVoipHeartbeat |->
        Message(CIMVoipHeartbeatFields, CIMVoipHeartbeatParse,
                CIMVoipHeartbeatWrite),
     CIMVoipByeReq |->
        Message(CIMVoipByeReqFields, CIMVoipByeReqParse,
                CIMVoipByeReqWrite),
     CIMVoipByeRsp |->
        Message(CIMVoipByeRspFields, CIMVoipByeRspParse,
                CIMVoipByeRspWrite),
     CIMVoipByeNotify |->
        Message(CIMVoipByeNotifyFields, CIMVoipByeNotifyParse,
                CIMVoipByeNotifyWrite)]
==============================================================================
