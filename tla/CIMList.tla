------------------------------- MODULE CIMList -------------------------------
(***************************************************************************)
(* The messages of CIM.List: recent sessions and pages of the history      *)
(* (pb/CIM.List.pb.cc and .h). Per message: the fields its accessors get   *)
(* and set, the tags its parser accepts, and what its writer,              *)
(* ByteSizeLong and MergeFrom go through.                                  *)
(***************************************************************************)
EXTENDS WireTypes

CIMRecentContactSessionReqFields ==
    [user_id |-> U64, latest_update_time |-> U32]
CIMRecentContactSessionReqParse ==
    <<In(8, "user_id", U64), In(16, "latest_update_time", U32)>>
CIMRecentContactSessionReqWrite ==
    <<Out(1, "user_id", U64), Out(2, "latest_update_time", U32)>>

CIMRecentContactSessionRspFields ==
    [user_id |-> U64, unread_counts |-> U32,
     contact_session_list |-> Rep(Msg("CIMContactSessionInfo"))]
CIMRecentContactSessionRspParse ==
    <<In(8, "user_id", U64), In(16, "unread_counts", U32),
      In(26, "contact_session_list", Rep(Msg("CIMContactSessionInfo")))>>
CIMRecentContactSessionRspWrite ==
    <<Out(1, "user_id", U64), Out(2, "unread_counts", U32),
      Out(3, "contact_session_list", Rep(Msg("CIMContactSessionInfo")))>>

CIMGetMsgListReqFields ==
    [user_id |-> U64, session_type |-> Enum, session_id |-> U64,
     end_msg_id |-> U64, limit_count |-> U32]
CIMGetMsgListReqParse ==
    <<In(8, "user_id", U64), In(16, "session_type", Enum),
      In(24, "session_id", U64), In(32, "end_msg_id", U64),
      In(48, "limit_count", U32)>>
CIMGetMsgListReqWrite ==
    <<Out(1, "user_id", U64), Out(2, "session_type", Enum),
      Out(3, "session_id", U64), Out(4, "end_msg_id", U64),
      Out(6, "limit_count", U32)>>

CIMGetMsgListRspFields ==
    [user_id |-> U64, session_type |-> Enum, session_id |-> U64,
     end_msg_id |-> U64, msg_list |-> Rep(Msg("CIMMsgInfo"))]
CIMGetMsgListRspParse ==
    <<In(8, "user_id", U64), In(16, "session_type", Enum),
      In(24, "session_id", U64), In(32, "end_msg_id", U64),
      In(50, "msg_list", Rep(Msg("CIMMsgInfo")))>>
CIMGetMsgListRspWrite ==
    <<Out(1, "user_id", U64), Out(2, "session_type", Enum),
      Out(3, "session_id", U64), Out(4, "end_msg_id", U64),
      Out(6, "msg_list", Rep(Msg("CIMMsgInfo")))>>

CIMListSchema ==
    [CIMRecentContactSessionReq |->
        Message(CIMRecentContactSessionReqFields, CIMRecentContactSessionReqParse,
                CIMRecentContactSessionReqWrite),
     CIMRecentContactSessionRsp |->
        Message(CIMRecentContactSessionRspFields, CIMRecentContactSessionRspParse,
                CIMRecentContactSessionRspWrite),
     CIMGetMsgListReq |->
        Message(CIMGetMsgListReqFields, CIMGetMsgListReqParse,
                CIMGetMsgListReqWrite),
     CIMGetMsgListRsp |->
        Message(CIMGetMsgListRspFields, CIMGetMsgListRspParse,
                CIMGetMsgListRspWrite)]
==============================================================================
