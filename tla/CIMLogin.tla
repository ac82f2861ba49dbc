------------------------------ MODULE CIMLogin -------------------------------
(***************************************************************************)
(* The messages of CIM.Login: authentication, logout, heartbeat            *)
(* (pb/CIM.Login.pb.cc and .h). Per message: the fields its accessors get  *)
(* and set, the tags its parser accepts, and what its writer,              *)
(* ByteSizeLong and MergeFrom go through.                                  *)
(***************************************************************************)
EXTENDS WireTypes

CIMAuthTokenReqFields ==
    [user_id |-> U64, nick_name |-> Str, user_token |-> Str,
     client_type |-> Enum, client_version |-> Str]
CIMAuthTokenReqParse ==
    <<In(8, "user_id", U64), In(18, "nick_name", Str),
      In(26, "user_token", Str), In(32, "client_type", Enum),
      In(42, "client_version", Str)>>
CIMAuthTokenReqWrite ==
    <<Out(1, "user_id", U64), Out(2, "nick_name", Str),
      Out(3, "user_token", Str), Out(4, "client_type", Enum),
      Out(5, "client_version", Str)>>

CIMAuthTokenRspFields ==
    [server_time |-> U32, result_code |-> Enum, result_string |-> Str,
     user_info |-> Msg("CIMUserInfo")]
CIMAuthTokenRspParse ==
    <<In(8, "server_time", U32), In(16, "result_code", Enum),
      In(26, "result_string", Str), In(34, "user_info", Msg("CIMUserInfo"))>>
CIMAuthTokenRspWrite ==
    <<Out(1, "server_time", U32), Out(2, "result_code", Enum),
      Out(3, "result_string", Str), Out(4, "user_info", Msg("CIMUserInfo"))>>

CIMAuthReqFields ==
    [user_name |-> Str, user_pwd |-> Str, client_type |-> Enum,
     client_version |-> Str]
CIMAuthReqParse ==
    <<In(10, "user_name", Str), In(18, "user_pwd", Str),
      In(24, "client_type", Enum), In(34, "client_version", Str)>>
CIMAuthReqWrite ==
    <<Out(1, "user_name", Str), Out(2, "user_pwd", Str),
      Out(3, "client_type", Enum), Out(4, "client_version", Str)>>

CIMAuthRspFields ==
    [server_time |-> U32, result_code |-> Enum, result_string |-> Str,
     user_info |-> Msg("CIMUserInfo")]
CIMAuthRspParse ==
    <<In(8, "server_time", U32), In(16, "result_code", Enum),
      In(26, "result_string", Str), In(34, "user_info", Msg("CIMUserInfo"))>>
CIMAuthRspWrite ==
    <<Out(1, "server_time", U32), Out(2, "result_code", Enum),
      Out(3, "result_string", Str), Out(4, "user_info", Msg("CIMUserInfo"))>>

CIMLogoutReqFields ==
    [user_id |-> U64, client_type |-> Enum]
CIMLogoutReqParse ==
    <<In(8, "user_id", U64), In(16, "client_type", Enum)>>
CIMLogoutReqWrite ==
    <<Out(1, "user_id", U64), Out(2, "client_type", Enum)>>

CIMLogoutRspFields ==
    [result_code |-> U32]
CIMLogoutRspParse ==
    <<In(8, "result_code", U32)>>
CIMLogoutRspWrite ==
    <<Out(1, "result_code", U32)>>

CIMHeartBeatFields == NoFields
CIMHeartBeatParse ==
    << >>
CIMHeartBeatWrite ==
    << >>

CIMLoginSchema ==
    [CIMAuthTokenReq |->
        Message(CIMAuthTokenReqFields, CIMAuthTokenReqParse,
                CIMAuthTokenReqWrite),
     CIMAuthTokenRsp |->
        Message(CIMAuthTokenRspFields, CIMAuthTokenRspParse,
                CIMAuthTokenRspWrite),
     CIMAuthReq |->
        Message(CIMAuthReqFields, CIMAuthReqParse,
                CIMAuthReqWrite),
     CIMAuthRsp |->
        Message(CIMAuthRspFields, CIMAuthRspParse,
                CIMAuthRspWrite),
     CIMLogoutReq |->
        Message(CIMLogoutReqFields, CIMLogoutReqParse,
                CIMLogoutReqWrite),
     CIMLogoutRsp |->
        Message(CIMLogoutRspFields, CIMLogoutRspParse,
                CIMLogoutRspWrite),
     CIMHeartBeat |->
        Message(CIMHeartBeatFields, CIMHeartBeatParse,
                CIMHeartBeatWrite)]
==============================================================================
