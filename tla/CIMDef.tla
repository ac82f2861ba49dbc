------------------------------- MODULE CIMDef --------------------------------
(***************************************************************************)
(* The messages of CIM.Def that others carry: users, sessions, stored      *)
(* messages, voice channels (pb/CIM.Def.pb.cc and .h). Per message: the    *)
(* fields its accessors get and set, the tags its parser accepts, and      *)
(* what its writer, ByteSizeLong and MergeFrom go through.                 *)
(***************************************************************************)
EXTENDS WireTypes

CIMUserInfoFields ==
    [user_id |-> U64, nick_name |-> Str, nick_name_spell |-> Str,
     phone |-> Str, avatar_url |-> Str, attach_info |-> Str]
CIMUserInfoParse ==
    <<In(8, "user_id", U64), In(18, "nick_name", Str),
      In(26, "nick_name_spell", Str), In(74, "phone", Str),
      In(82, "avatar_url", Str), In(90, "attach_info", Str)>>
CIMUserInfoWrite ==
    <<Out(1, "user_id", U64), Out(2, "nick_name", Str),
      Out(3, "nick_name_spell", Str), Out(9, "phone", Str),
      Out(10, "avatar_url", Str), Out(11, "attach_info", Str)>>

CIMContactSessionInfoFields ==
    [session_id |-> U64, session_type |-> Enum, session_status |-> Enum,
     unread_cnt |-> U32, updated_time |-> U32, msg_id |-> Str,
     server_msg_id |-> U64, msg_time_stamp |-> U32, msg_data |-> Bytes,
     msg_type |-> Enum, msg_from_user_id |-> U64, msg_status |-> Enum,
     msg_attach |-> Str, extend_data |-> Str, is_robot_session |-> Bool]
CIMContactSessionInfoParse ==
    <<In(8, "session_id", U64), In(16, "session_type", Enum),
      In(24, "session_status", Enum), In(32, "unread_cnt", U32),
      In(40, "updated_time", U32), In(50, "msg_id", Str),
      In(56, "server_msg_id", U64), In(64, "msg_time_stamp", U32),
      In(74, "msg_data", Bytes), In(80, "msg_type", Enum),
      In(88, "msg_from_user_id", U64), In(96, "msg_status", Enum),
      In(106, "msg_attach", Str), In(114, "extend_data", Str),
      In(120, "is_robot_session", Bool)>>
CIMContactSessionInfoWrite ==
    <<Out(1, "session_id", U64), Out(2, "session_type", Enum),
      Out(3, "session_status", Enum), Out(4, "unread_cnt", U32),
      Out(5, "updated_time", U32), Out(6, "msg_id", Str),
      Out(7, "server_msg_id", U64), Out(8, "msg_time_stamp", U32),
      Out(9, "msg_data", Bytes), Out(10, "msg_type", Enum),
      Out(11, "msg_from_user_id", U64), Out(12, "msg_status", Enum),
      Out(13, "msg_attach", Str), Out(14, "extend_data", Str),
      Out(15, "is_robot_session", Bool)>>

CIMMsgInfoFields ==
    [client_msg_id |-> Str, server_msg_id |-> U64, msg_res_code |-> Enum,
     msg_feature |-> Enum, session_type |-> Enum, from_user_id |-> U64,
     to_session_id |-> U64, create_time |-> U32, msg_type |-> Enum,
     msg_status |-> Enum, msg_data |-> Bytes, attach |-> Str,
     sender_client_type |-> Enum]
CIMMsgInfoParse ==
    <<In(10, "client_msg_id", Str), In(16, "server_msg_id", U64),
      In(24, "msg_res_code", Enum), In(32, "msg_feature", Enum),
      In(40, "session_type", Enum), In(48, "from_user_id", U64),
      In(56, "to_session_id", U64), In(64, "create_time", U32),
      In(72, "msg_type", Enum), In(80, "msg_status", Enum),
      In(90, "msg_data", Bytes), In(98, "attach", Str),
      In(104, "sender_client_type", Enum)>>
CIMMsgInfoWrite ==
    <<Out(1, "client_msg_id", Str), Out(2, "server_msg_id", U64),
      Out(3, "msg_res_code", Enum), Out(4, "msg_feature", Enum),
      Out(5, "session_type", Enum), Out(6, "from_user_id", U64),
      Out(7, "to_session_id", U64), Out(8, "create_time", U32),
      Out(9, "msg_type", Enum), Out(10, "msg_status", Enum),
      Out(11, "msg_data", Bytes), Out(12, "attach", Str),
      Out(13, "sender_client_type", Enum)>>

CIMChannelInfoFields ==
    [channel_name |-> Str, channel_token |-> Str, creator_id |-> U64]
CIMChannelInfoParse ==
    <<In(10, "channel_name", Str), In(18, "channel_token", Str),
      In(24, "creator_id", U64)>>
CIMChannelInfoWrite ==
    <<Out(1, "channel_name", Str), Out(2, "channel_token", Str),
      Out(3, "creator_id", U64)>>

CIMDefSchema ==
    [CIMUserInfo |->
        Message(CIMUserInfoFields, CIMUserInfoParse,
                CIMUserInfoWrite),
     CIMContactSessionInfo |->
        Message(CIMContactSessionInfoFields, CIMContactSessionInfoParse,
                CIMContactSessionInfoWrite),
     CIMMsgInfo |->
        Message(CIMMsgInfoFields, CIMMsgInfoParse,
                CIMMsgInfoWrite),
     CIMChannelInfo |->
        Message(CIMChannelInfoFields, CIMChannelInfoParse,
                CIMChannelInfoWrite)]
==============================================================================
