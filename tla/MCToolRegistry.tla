--------------------------- MODULE MCToolRegistry ---------------------------
(* Instances of ToolRegistry for TLC, with names that collide: tool x:x of  *)
(* tenant global has the key of tool x of tenant global:x.                  *)
EXTENDS ToolRegistryProperties, TLC

MCParts   == {"a", "b", "x", "r", "global", "*"}
MCGlobal  == <<"global">>
MCAnyone  == <<"*">>
MCAgents  == {<<"b">>}
MCRoles   == {<<"r">>}
MCTwoTenants == {<<"a">>, <<"b">>, MCGlobal}
MCColliding  == {<<"b">>, <<"global", "x">>, MCGlobal}
MCOneId        == {<<"x">>}
MCCollidingIds == {<<"x">>, <<"x", "x">>}
=============================================================================
