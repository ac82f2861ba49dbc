------------------------------ MODULE CIMFriend ------------------------------
(***************************************************************************)
(* The messages of CIM.Friend: the list of users (pb/CIM.Friend.pb.cc and  *)
(* .h). Per message: the fields its accessors get and set, the tags its    *)
(* parser accepts, and what its writer, ByteSizeLong and MergeFrom go      *)
(* through.                                                                *)
(***************************************************************************)
EXTENDS WireTypes

CIMFriendQueryUserListReqFields ==
    [user_id |-> U64]
CIMFriendQueryUserListReqParse ==
    <<In(8, "user_id", U64)>>
CIMFriendQueryUserListReqWrite ==
    <<Out(1, "user_id", U64)>>

CIMFriendQueryUserListRspFields ==
    [user_id |-> U64, user_info_list |-> Rep(Msg("CIMUserInfo"))]
CIMFriendQueryUserListRspParse ==
    <<In(8, "user_id", U64),
      In(18, "user_info_list", Rep(Msg("CIMUserInfo")))>>
CIMFriendQueryUserListRspWrite ==
    <<Out(1, "user_id", U64),
      Out(2, "user_info_list", Rep(Msg("CIMUserInfo")))>>

CIMFriendSchema ==
    [CIMFriendQueryUserListReq |->
        Message(CIMFriendQueryUserListReqFields, CIMFriendQueryUserListReqParse,
                CIMFriendQueryUserListReqWrite),
     CIMFriendQueryUserListRsp |->
        Message(CIMFriendQueryUserListRspFields, CIMFriendQueryUserListRspParse,
                CIMFriendQueryUserListRspWrite)]
==============================================================================
