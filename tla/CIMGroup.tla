------------------------------ MODULE CIMGroup -------------------------------
(***************************************************************************)
(* The messages of CIM.Group: groups, their members and changes to them    *)
(* (pb/CIM.Group.pb.cc and .h). Per message: the fields its accessors get  *)
(* and set, the tags its parser accepts, and what its writer,              *)
(* ByteSizeLong and MergeFrom go through.                                  *)
(***************************************************************************)
EXTENDS WireTypes

CIMGroupCreateReqFields ==
    [user_id |-> U64, group_name |-> Str, member_id_list |-> Rep(U64)]
CIMGroupCreateReqParse ==
    <<In(8, "user_id", U64), In(18, "group_name", Str),
      InPacked(26, 24, "member_id_list")>>
CIMGroupCreateReqWrite ==
    <<Out(1, "user_id", U64), Out(2, "group_name", Str),
      Out(3, "member_id_list", Rep(U64))>>

CIMGroupCreateRspFields ==
    [user_id |-> U64, result_code |-> U32, group_info |-> Msg("CIMGroupInfo"),
     member_id_list |-> Rep(U64), attach_notificatino_msg |-> Bytes]
CIMGroupCreateRspParse ==
    <<In(8, "user_id", U64), In(16, "result_code", U32),
      In(26, "group_info", Msg("CIMGroupInfo")),
      InPacked(34, 32, "member_id_list"),
      In(82, "attach_notificatino_msg", Bytes)>>
CIMGroupCreateRspWrite ==
    <<Out(1, "user_id", U64), Out(2, "result_code", U32),
      Out(3, "group_info", Msg("CIMGroupInfo")),
      Out(4, "member_id_list", Rep(U64)),
      Out(10, "attach_notificatino_msg", Bytes)>>

CIMGroupDisbandingReqFields ==
    [user_id |-> U64, group_id |-> U64]
CIMGroupDisbandingReqParse ==
    <<In(8, "user_id", U64), In(16, "group_id", U64)>>
CIMGroupDisbandingReqWrite ==
    <<Out(1, "user_id", U64), Out(2, "group_id", U64)>>

CIMGroupDisbandingRspFields ==
    [user_id |-> U64, group_id |-> U64, result_code |-> U32,
     attach_notificatino_msg |-> Bytes]
CIMGroupDisbandingRspParse ==
    <<In(8, "user_id", U64), In(16, "group_id", U64),
      In(24, "result_code", U32), In(82, "attach_notificatino_msg", Bytes)>>
CIMGroupDisbandingRspWrite ==
    <<Out(1, "user_id", U64), Out(2, "group_id", U64),
      Out(3, "result_code", U32), Out(10, "attach_notificatino_msg", Bytes)>>

CIMGroupExitReqFields ==
    [user_id |-> U64, group_id |-> U64]
CIMGroupExitReqParse ==
    <<In(8, "user_id", U64), In(16, "group_id", U64)>>
CIMGroupExitReqWrite ==
    <<Out(1, "user_id", U64), Out(2, "group_id", U64)>>

CIMGroupExitRspFields ==
    [user_id |-> U64, group_id |-> U64, result_code |-> U32,
     attach_notificatino_msg |-> Bytes]
CIMGroupExitRspParse ==
    <<In(8, "user_id", U64), In(16, "group_id", U64),
      In(24, "result_code", U32), In(82, "attach_notificatino_msg", Bytes)>>
CIMGroupExitRspWrite ==
    <<Out(1, "user_id", U64), Out(2, "group_id", U64),
      Out(3, "result_code", U32), Out(10, "attach_notificatino_msg", Bytes)>>

CIMGroupListReqFields ==
    [user_id |-> U64]
CIMGroupListReqParse ==
    <<In(8, "user_id", U64)>>
CIMGroupListReqWrite ==
    <<Out(1, "user_id", U64)>>

CIMGroupListRspFields ==
    [user_id |-> U64, group_version_list |-> Rep(Msg("CIMGroupVersionInfo"))]
CIMGroupListRspParse ==
    <<In(8, "user_id", U64),
      In(18, "group_version_list", Rep(Msg("CIMGroupVersionInfo")))>>
CIMGroupListRspWrite ==
    <<Out(1, "user_id", U64),
      Out(2, "group_version_list", Rep(Msg("CIMGroupVersionInfo")))>>

CIMGroupInfoReqFields ==
    [user_id |-> U64, group_version_list |-> Rep(Msg("CIMGroupVersionInfo"))]
CIMGroupInfoReqParse ==
    <<In(8, "user_id", U64),
      In(18, "group_version_list", Rep(Msg("CIMGroupVersionInfo")))>>
CIMGroupInfoReqWrite ==
    <<Out(1, "user_id", U64),
      Out(2, "group_version_list", Rep(Msg("CIMGroupVersionInfo")))>>

CIMGroupInfoRspFields ==
    [user_id |-> U64, result_code |-> U32,
     group_info_list |-> Rep(Msg("CIMGroupInfo"))]
CIMGroupInfoRspParse ==
    <<In(8, "user_id", U64), In(16, "result_code", U32),
      In(26, "group_info_list", Rep(Msg("CIMGroupInfo")))>>
CIMGroupInfoRspWrite ==
    <<Out(1, "user_id", U64), Out(2, "result_code", U32),
      Out(3, "group_info_list", Rep(Msg("CIMGroupInfo")))>>

CIMGroupInviteMemberReqFields ==
    [user_id |-> U64, group_id |-> U64, member_id_list |-> Rep(U64)]
CIMGroupInviteMemberReqParse ==
    <<In(8, "user_id", U64), In(16, "group_id", U64),
      InPacked(26, 24, "member_id_list")>>
CIMGroupInviteMemberReqWrite ==
    <<Out(1, "user_id", U64), Out(2, "group_id", U64),
      Out(3, "member_id_list", Rep(U64))>>

CIMGroupInviteMemberRspFields ==
    [user_id |-> U64, group_id |-> U64, result_code |-> U32,
     attach_notificatino_msg |-> Bytes]
CIMGroupInviteMemberRspParse ==
    <<In(8, "user_id", U64), In(16, "group_id", U64),
      In(24, "result_code", U32), In(82, "attach_notificatino_msg", Bytes)>>
CIMGroupInviteMemberRspWrite ==
    <<Out(1, "user_id", U64), Out(2, "group_id", U64),
      Out(3, "result_code", U32), Out(10, "attach_notificatino_msg", Bytes)>>

CIMGroupKickOutMemberReqFields ==
    [user_id |-> U64, group_id |-> U64, member_id_list |-> Rep(U64)]
CIMGroupKickOutMemberReqParse ==
    <<In(8, "user_id", U64), In(16, "group_id", U64),
      InPacked(26, 24, "member_id_list")>>
CIMGroupKickOutMemberReqWrite ==
    <<Out(1, "user_id", U64), Out(2, "group_id", U64),
      Out(3, "member_id_list", Rep(U64))>>

CIMGroupKickOutMemberRspFields ==
    [user_id |-> U64, group_id |-> U64, result_code |-> U32,
     attach_notificatino_msg |-> Bytes]
CIMGroupKickOutMemberRspParse ==
    <<In(8, "user_id", U64), In(16, "group_id", U64),
      In(24, "result_code", U32), In(82, "attach_notificatino_msg", Bytes)>>
CIMGroupKickOutMemberRspWrite ==
    <<Out(1, "user_id", U64), Out(2, "group_id", U64),
      Out(3, "result_code", U32), Out(10, "attach_notificatino_msg", Bytes)>>

CIMGroupMemberListReqFields ==
    [user_id |-> U64, group_id |-> U64]
CIMGroupMemberListReqParse ==
    <<In(8, "user_id", U64), In(16, "group_id", U64)>>
CIMGroupMemberListReqWrite ==
    <<Out(1, "user_id", U64), Out(2, "group_id", U64)>>

CIMGroupMemberListRspFields ==
    [user_id |-> U64, group_id |-> U64, member_id_list |-> Rep(U64)]
CIMGroupMemberListRspParse ==
    <<In(8, "user_id", U64), In(16, "group_id", U64),
      InPacked(26, 24, "member_id_list")>>
CIMGroupMemberListRspWrite ==
    <<Out(1, "user_id", U64), Out(2, "group_id", U64),
      Out(3, "member_id_list", Rep(U64))>>

CIMGroupMemberChangedNotifyFields ==
    [user_id |-> U64, group_id |-> U64,
     changed_list |-> Rep(Msg("CIMGroupMemberChangedInfo"))]
CIMGroupMemberChangedNotifyParse ==
    <<In(8, "user_id", U64), In(16, "group_id", U64),
      In(26, "changed_list", Rep(Msg("CIMGroupMemberChangedInfo")))>>
CIMGroupMemberChangedNotifyWrite ==
    <<Out(1, "user_id", U64), Out(2, "group_id", U64),
      Out(3, "changed_list", Rep(Msg("CIMGroupMemberChangedInfo")))>>

CIMGroupMemberChangedInfoFields ==
    [user_id |-> U64, type |-> Enum]
CIMGroupMemberChangedInfoParse ==
    <<In(8, "user_id", U64), In(16, "type", Enum)>>
CIMGroupMemberChangedInfoWrite ==
    <<Out(1, "user_id", U64), Out(2, "type", Enum)>>

CIMGroupInfoFields ==
    [group_id |-> U64, group_name |-> Str, group_type |-> Enum,
     join_model |-> Enum, be_invite_model |-> Enum, mute_model |-> Enum,
     group_owner_id |-> U64, create_time |-> U32, update_time |-> U32,
     group_intro |-> Str, announcement |-> Str, group_avatar |-> Str]
CIMGroupInfoParse ==
    <<In(8, "group_id", U64), In(18, "group_name", Str),
      In(24, "group_type", Enum), In(32, "join_model", Enum),
      In(40, "be_invite_model", Enum), In(48, "mute_model", Enum),
      In(56, "group_owner_id", U64), In(64, "create_time", U32),
      In(72, "update_time", U32), In(82, "group_intro", Str),
      In(90, "announcement", Str), In(98, "group_avatar", Str)>>
CIMGroupInfoWrite ==
    <<Out(1, "group_id", U64), Out(2, "group_name", Str),
      Out(3, "group_type", Enum), Out(4, "join_model", Enum),
      Out(5, "be_invite_model", Enum), Out(6, "mute_model", Enum),
      Out(7, "group_owner_id", U64), Out(8, "create_time", U32),
      Out(9, "update_time", U32), Out(10, "group_intro", Str),
      Out(11, "announcement", Str), Out(12, "group_avatar", Str)>>

CIMGroupVersionInfoFields ==
    [group_id |-> U64, group_version |-> U32]
CIMGroupVersionInfoParse ==
    <<In(8, "group_id", U64), In(16, "group_version", U32)>>
CIMGroupVersionInfoWrite ==
    <<Out(1, "group_id", U64), Out(2, "group_version", U32)>>

CIMGroupSchema ==
    [CIMGroupCreateReq |->
        Message(CIMGroupCreateReqFields, CIMGroupCreateReqParse,
                CIMGroupCreateReqWrite),
     CIMGroupCreateRsp |->
        Message(CIMGroupCreateRspFields, CIMGroupCreateRspParse,
                CIMGroupCreateRspWrite),
     CIMGroupDisbandingReq |->
        Message(CIMGroupDisbandingReqFields, CIMGroupDisbandingReqParse,
                CIMGroupDisbandingReqWrite),
     CIMGroupDisbandingRsp |->
        Message(CIMGroupDisbandingRspFields, CIMGroupDisbandingRspParse,
                CIMGroupDisbandingRspWrite),
     CIMGroupExitReq |->
        Message(CIMGroupExitReqFields, CIMGroupExitReqParse,
                CIMGroupExitReqWrite),
     CIMGroupExitRsp |->
        Message(CIMGroupExitRspFields, CIMGroupExitRspParse,
                CIMGroupExitRspWrite),
     CIMGroupListReq |->
        Message(CIMGroupListReqFields, CIMGroupListReqParse,
                CIMGroupListReqWrite),
     CIMGroupListRsp |->
        Message(CIMGroupListRspFields, CIMGroupListRspParse,
                CIMGroupListRspWrite),
     CIMGroupInfoReq |->
        Message(CIMGroupInfoReqFields, CIMGroupInfoReqParse,
                CIMGroupInfoReqWrite),
     CIMGroupInfoRsp |->
        Message(CIMGroupInfoRspFields, CIMGroupInfoRspParse,
                CIMGroupInfoRspWrite),
     CIMGroupInviteMemberReq |->
        Message(CIMGroupInviteMemberReqFields, CIMGroupInviteMemberReqParse,
                CIMGroupInviteMemberReqWrite),
     CIMGroupInviteMemberRsp |->
        Message(CIMGroupInviteMemberRspFields, CIMGroupInviteMemberRspParse,
                CIMGroupInviteMemberRspWrite),
     CIMGroupKickOutMemberReq |->
        Message(CIMGroupKickOutMemberReqFields, CIMGroupKickOutMemberReqParse,
                CIMGroupKickOutMemberReqWrite),
     CIMGroupKickOutMemberRsp |->
        Message(CIMGroupKickOutMemberRspFields, CIMGroupKickOutMemberRspParse,
                CIMGroupKickOutMemberRspWrite),
     CIMGroupMemberListReq |->
        Message(CIMGroupMemberListReqFields, CIMGroupMemberListReqParse,
                CIMGroupMemberListReqWrite),
     CIMGroupMemberListRsp |->
        Message(CIMGroupMemberListRspFields, CIMGroupMemberListRspParse,
                CIMGroupMemberListRspWrite),
     CIMGroupMemberChangedNotify |->
        Message(CIMGroupMemberChangedNotifyFields, CIMGroupMemberChangedNotifyParse,
                CIMGroupMemberChangedNotifyWrite),
     CIMGroupMemberChangedInfo |->
        Message(CIMGroupMemberChangedInfoFields, CIMGroupMemberChangedInfoParse,
                CIMGroupMemberChangedInfoWrite),
     CIMGroupInfo |->
        Message(CIMGroupInfoFields, CIMGroupInfoParse,
                CIMGroupInfoWrite),
     CIMGroupVersionInfo |->
        Message(CIMGroupVersionInfoFields, CIMGroupVersionInfoParse,
                CIMGroupVersionInfoWrite)]
==============================================================================
