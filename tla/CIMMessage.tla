----------------------------- MODULE CIMMessage ------------------------------
(***************************************************************************)
(* The messages of CIM.Message: chat messages, their acknowledgements and  *)
(* queries of the history (pb/CIM.Message.pb.cc and .h). Per message: the  *)
(* fields its accessors get and set, the tags its parser accepts, and      *)
(* what its writer, ByteSizeLong and MergeFrom go through.                 *)
(***************************************************************************)
EXTENDS WireTypes

CIMMsgDataFields ==
    [from_user_id |-> U64, from_nick_name |-> Str, to_session_id |-> U64,
     client_msg_id |-> Str, server_msg_id |-> U64, create_time |-> I32,
     msg_type |-> Enum, session_type |-> Enum, msg_data |-> Bytes]
CIMMsgDataParse ==
    <<In(8, "from_user_id", U64), In(18, "from_nick_name", Str),
      In(24, "to_session_id", U64), In(34, "client_msg_id", Str),
      In(40, "server_msg_id", U64), In(48, "create_time", I32),
      In(56, "msg_type", Enum), In(64, "session_type", Enum),
      In(74, "msg_data", Bytes)>>
CIMMsgDataWrite ==
    <<Out(1, "from_user_id", U64), Out(2, "from_nick_name", Str),
      Out(3, "to_session_id", U64), Out(4, "client_msg_id", Str),
      Out(5, "server_msg_id", U64), Out(6, "create_time", I32),
      Out(7, "msg_type", Enum), Out(8, "session_type", Enum),
      Out(9, "msg_data", Bytes)>>

CIMMsgDataAckFields ==
    [from_user_id |-> U64, to_session_id |-> U64, client_msg_id |-> Str,
     server_msg_id |-> U64, res_code |-> Enum, session_type |-> Enum,
     create_time |-> I32]
CIMMsgDataAckParse ==
    <<In(8, "from_user_id", U64), In(16, "to_session_id", U64),
      In(26, "client_msg_id", Str), In(32, "server_msg_id", U64),
      In(40, "res_code", Enum), In(48, "session_type", Enum),
      In(56, "create_time", I32)>>
CIMMsgDataAckWrite ==
    <<Out(1, "from_user_id", U64), Out(2, "to_session_id", U64),
      Out(3, "client_msg_id", Str), Out(4, "server_msg_id", U64),
      Out(5, "res_code", Enum), Out(6, "session_type", Enum),
      Out(7, "create_time", I32)>>

CIMMsgDataReadAckFields ==
    [user_id |-> U64, session_id |-> U64, msg_id |-> U64,
     session_type |-> Enum]
CIMMsgDataReadAckParse ==
    <<In(8, "user_id", U64), In(16, "session_id", U64), In(24, "msg_id", U64),
      In(32, "session_type", Enum)>>
CIMMsgDataReadAckWrite ==
    <<Out(1, "user_id", U64), Out(2, "session_id", U64),
      Out(3, "msg_id", U64), Out(4, "session_type", Enum)>>

CIMMsgDataReadNotifyFields ==
    [user_id |-> U64, session_id |-> U64, msg_id |-> U64,
     session_type |-> Enum]
CIMMsgDataReadNotifyParse ==
    <<In(8, "user_id", U64), In(16, "session_id", U64), In(24, "msg_id", U64),
      In(32, "session_type", Enum)>>
CIMMsgDataReadNotifyWrite ==
    <<Out(1, "user_id", U64), Out(2, "session_id", U64),
      Out(3, "msg_id", U64), Out(4, "session_type", Enum)>>

CIMGetLatestMsgIdReqFields ==
    [user_id |-> U64, session_type |-> Enum, session_id |-> U64]
CIMGetLatestMsgIdReqParse ==
    <<In(8, "user_id", U64), In(16, "session_type", Enum),
      In(24, "session_id", U64)>>
CIMGetLatestMsgIdReqWrite ==
    <<Out(1, "user_id", U64), Out(2, "session_type", Enum),
      Out(3, "session_id", U64)>>

CIMGetLatestMsgIdRspFields ==
    [user_id |-> U64, session_type |-> Enum, session_id |-> U64,
     latest_msg_id |-> Str]
CIMGetLatestMsgIdRspParse ==
    <<In(8, "user_id", U64), In(16, "session_type", Enum),
      In(24, "session_id", U64), In(34, "latest_msg_id", Str)>>
CIMGetLatestMsgIdRspWrite ==
    <<Out(1, "user_id", U64), Out(2, "session_type", Enum),
      Out(3, "session_id", U64), Out(4, "latest_msg_id", Str)>>

CIMGetMsgByIdReqFields ==
    [user_id |-> U64, session_type |-> Enum, session_id |-> U64,
     msg_id_list |-> Rep(Str)]
CIMGetMsgByIdReqParse ==
    <<In(8, "user_id", U64), In(16, "session_type", Enum),
      In(24, "session_id", U64), In(34, "msg_id_list", Rep(Str))>>
CIMGetMsgByIdReqWrite ==
    <<Out(1, "user_id", U64), Out(2, "session_type", Enum),
      Out(3, "session_id", U64), Out(4, "msg_id_list", Rep(Str))>>

CIMGetMsgByIdRspFields ==
    [user_id |-> U64, session_type |-> Enum, session_id |-> U64,
     msg_list |-> Rep(Msg("CIMMsgInfo"))]
CIMGetMsgByIdRspParse ==
    <<In(8, "user_id", U64), In(16, "session_type", Enum),
      In(24, "session_id", U64), In(34, "msg_list", Rep(Msg("CIMMsgInfo")))>>
CIMGetMsgByIdRspWrite ==
    <<Out(1, "user_id", U64), Out(2, "session_type", Enum),
      Out(3, "session_id", U64), Out(4, "msg_list", Rep(Msg("CIMMsgInfo")))>>

CIMMessageSchema ==
    [CIMMsgData |->
        Message(CIMMsgDataFields, CIMMsgDataParse,
                CIMMsgDataWrite),
     CIMMsgDataAck |->
        Message(CIMMsgDataAckFields, CIMMsgDataAckParse,
                CIMMsgDataAckWrite),
     CIMMsgDataReadAck |->
        Message(CIMMsgDataReadAckFields, CIMMsgDataReadAckParse,
                CIMMsgDataReadAckWrite),
     CIMMsgDataReadNotify |->
        Message(CIMMsgDataReadNotifyFields, CIMMsgDataReadNotifyParse,
                CIMMsgDataReadNotifyWrite),
     CIMGetLatestMsgIdReq |->
        Message(CIMGetLatestMsgIdReqFields, CIMGetLatestMsgIdReqParse,
                CIMGetLatestMsgIdReqWrite),
     CIMGetLatestMsgIdRsp |->
        Message(CIMGetLatestMsgIdRspFields, CIMGetLatestMsgIdRspParse,
                CIMGetLatestMsgIdRspWrite),
     CIMGetMsgByIdReq |->
        Message(CIMGetMsgByIdReqFields, CIMGetMsgByIdReqParse,
                CIMGetMsgByIdReqWrite),
     CIMGetMsgByIdRsp |->
        Message(CIMGetMsgByIdRspFields, CIMGetMsgByIdRspParse,
                CIMGetMsgByIdRspWrite)]
==============================================================================
