------------------------------ MODULE Packets ------------------------------
(* The packets of protocol 47: one layout for each struct of protocol.h,     *)
(* under its name, read off its Encode and Decode in protocol.cpp, and the   *)
(* tables of ids.  Text fields are the ones Decode assigns from a char*.     *)
EXTENDS Codec

XYZ == <<I32("x"), I32("y"), I32("z")>>
FXYZ == <<F32("x"), F32("y"), F32("z")>>
DXYZ == <<F64("x"), F64("y"), F64("z")>>
Moves == <<I16("vx"), I16("vy"), I16("vz")>>
Deltas == <<I8("dx"), I8("dy"), I8("dz")>>
Signs == <<Times("lines", 4, <<Text("s", 15)>>)>>

----------------------------------------------------------------------------
(* Handshake, status and login. *)
Handshake == <<VarInt("proto"), Str("host", 255), U16("port"), VarInt("next")>>
StatusResponse == <<Str("json", 32767)>>
Ping == <<I64("payload")>>
LoginStart == <<Str("name", 16)>>
LoginSuccess == <<Str("uuid", 36), Str("name", 16)>>
Disconnect == <<Str("reason", 32767)>>
SetCompression == <<VarInt("threshold")>>

(* Joining, moving, the world. *)
KeepAlive == <<VarInt("id")>>
JoinGame == <<I32("eid"), U8("mode"), I8("dimension"), U8("difficulty"),
              U8("max_players"), Str("level_type", 16), Flag("reduced_debug")>>
SpawnPosition == <<Pos("at")>>
PlayerPosLook == DXYZ \o <<F32("yaw"), F32("pitch"), U8("flags")>>
ChunkData == <<I32("x"), I32("z"), Flag("continuous"), U16("mask"),
               Blob("data", INT_MAX)>>
Chat(max_chars) == <<Str("msg", max_chars)>>
TimeUpdate == <<I64("age"), I64("time")>>
Flying == <<Flag("on_ground")>>
SbPosition == DXYZ \o <<Flag("on_ground")>>
SbLook == <<F32("yaw"), F32("pitch"), Flag("on_ground")>>
SbPosLook == DXYZ \o <<F32("yaw"), F32("pitch"), Flag("on_ground")>>
PluginMessage == <<Str("channel", 20), Rest("data")>>
ServerDifficulty == <<U8("difficulty")>>
PlayerAbilities == <<U8("flags"), F32("fly_speed"), F32("walk_speed")>>
HeldItemChange == <<U8("slot")>>
Statistics ==
    <<List("stats", "varint", 1024, <<Str("k", 64), VarInt("n")>>)>>
PlayerListProp == <<Str("name", 64), Str("value", 32767), Flag("has_sig"),
                    When("has_sig", {TRUE}, <<Str("sig", 1024)>>)>>
AddPlayer == <<Raw("uuid", 16), Str("name", 16),
               List("props", "varint", 16, PlayerListProp),
               VarInt("gamemode"), VarInt("ping"), Flag("has_display"),
               When("has_display", {TRUE}, <<Str("display", 64)>>)>>
PlayerListItem ==
    <<OneOf("action", {0, 4}),
      When("action", {0}, <<List("players", "varint", 128, AddPlayer)>>),
      When("action", {4},
           <<List("players", "varint", 128, <<Raw("uuid", 16)>>)>>)>>
WorldBorder == <<OneOf("action", {3}), F64("center_x"), F64("center_z"),
                 F64("old_size"), F64("new_size"), VarLong("speed"),
                 VarInt("portal_boundary"), VarInt("warn_a"), VarInt("warn_b")>>
UpdateHealth == <<F32("health"), VarInt("food"), F32("saturation")>>
SetExperience == <<F32("bar"), VarInt("level"), VarInt("total")>>
MapChunkBulk ==
    <<AtMost("chunks", 64), Flag("sky_light"),
      List("chunks", "varint", 64, <<I32("x"), I32("z"), U16("mask")>>),
      Columns("chunks")>>

(* Windows and inventory. *)
WindowItems == <<AtMost("slots", 127), U8("window"),
                 List("slots", "u16", 128, Slot)>>
SetSlot == <<I8("window"), I16("slot"), Sub("item", Slot)>>
ClickWindow == <<U8("window"), I16("slot"), U8("button"), I16("action"),
                 U8("mode"), Sub("clicked", Slot)>>
ConfirmTransaction == <<U8("window"), I16("action"), Flag("accepted")>>
OpenWindow == <<U8("window"), Str("type", 64), Str("title", 32767), U8("slots")>>
CloseWindowPkt == <<U8("window")>>
WindowProperty == <<U8("window"), I16("prop"), I16("value")>>
Animation == <<VarInt("eid"), U8("action")>>
CreativeAction == <<I16("slot"), Sub("item", Slot)>>
SbHeldItem == <<I16("slot")>>

(* Blocks. *)
BlockDig == <<VarInt("status"), Pos("at"), U8("face")>>
BlockPlace == <<Pos("at"), U8("dir"), Sub("held", Slot),
                U8("cx"), U8("cy"), U8("cz")>>
BlockChangePkt == <<Pos("at"), Natural("idmeta")>>
BlockAction == <<Pos("at"), U8("b1"), U8("b2"), Natural("block")>>
BreakAnim == <<VarInt("eid"), Pos("at"), I8("stage")>>
Effect == <<I32("id"), Pos("at"), I32("data"), Flag("norel")>>
SoundEffect == <<Str("name", 64)>> \o XYZ \o <<F32("volume"), F32("pitch")>>

(* Entities. *)
SpawnMob == <<VarInt("eid"), U8("type")>> \o XYZ
              \o <<U8("yaw"), U8("pitch"), U8("head")>> \o Moves \o <<Meta("meta")>>
SpawnPlayer == <<VarInt("eid"), Raw("uuid", 16)>> \o XYZ
                 \o <<U8("yaw"), U8("pitch"), I16("held"), Meta("meta")>>
SpawnObject == <<VarInt("eid"), U8("type")>> \o XYZ
                 \o <<U8("pitch"), U8("yaw"), I32("data"),
                      Flagged("has_vel", "data", Moves)>>
DestroyEntities ==
    <<AtMost("eids", 256), List("eids", "varint", 256, <<VarInt("eid")>>)>>
EntityTeleport == <<VarInt("eid")>> \o XYZ
                    \o <<U8("yaw"), U8("pitch"), Flag("on_ground")>>
EntityRelMove == <<VarInt("eid")>> \o Deltas \o <<Flag("on_ground")>>
EntityLook == <<VarInt("eid"), U8("yaw"), U8("pitch"), Flag("on_ground")>>
EntityRelMoveLook == <<VarInt("eid")>> \o Deltas
                       \o <<U8("yaw"), U8("pitch"), Flag("on_ground")>>
Velocity == <<VarInt("eid")>> \o Moves
HeadLook == <<VarInt("eid"), U8("head")>>
EntityStatus == <<I32("eid"), U8("status")>>
Equipment == <<VarInt("eid"), VarInt("slot"), Sub("item", Slot)>>
CollectItem == <<VarInt("collector"), VarInt("collected")>>
ExpOrb == <<VarInt("eid")>> \o XYZ \o <<VarInt("count")>>
UseEntity == <<VarInt("target"), VarInt("action"),
               When("action", {2}, <<F32("hx"), F32("hy"), F32("hz")>>)>>
Metadata == <<Meta("entries")>>
Properties ==
    LET Mod  == <<Raw("uuid", 16), F64("amount"), I8("op")>>
        Prop == <<Text("key", 64), F64("value"), List("mods", "varint", 16, Mod)>>
    IN  <<VarInt("eid"), List("props", "i32", 64, Prop)>>

(* The second batch ("P1 faltando"). *)
Respawn == <<I32("dimension"), U8("difficulty"), U8("gamemode"),
             Text("level_type", 16)>>
UseBed == <<VarInt("eid")>> \o XYZ
SpawnPainting == <<VarInt("eid"), Text("title", 13)>> \o XYZ \o <<U8("direction")>>
AttachEntity == <<I32("vehicle"), I32("rider"), Flag("leash")>>
EntityEffect == <<VarInt("eid"), U8("effect_id"), U8("amplifier"),
                  VarInt("duration"), Flag("hide_particles")>>
RemoveEntityEffect == <<VarInt("eid"), U8("effect_id")>>
EntityRelMove0 == <<VarInt("eid")>>
MultiBlockChange ==
    <<I32("chunk_x"), I32("chunk_z"),
      List("records", "varint", 4096, <<U16("packed"), VarInt("block_id")>>)>>
Explosion == FXYZ \o <<F32("strength"), List("records", "varint", 4096, Deltas),
                       F32("player_motion_x"), F32("player_motion_y"),
                       F32("player_motion_z")>>
Particle == <<VarInt("id"), Flag("long_distance")>> \o FXYZ
              \o <<F32("ox"), F32("oy"), F32("oz"), F32("speed"),
                   VarInt("count"), Counted("data", "count", <<VarInt("d")>>)>>
ChangeGameState == <<U8("reason"), F32("value")>>
SpawnGlobalEntity == <<VarInt("eid"), U8("type")>> \o XYZ
UpdateSign == XYZ \o Signs
UpdateBlockEntity == XYZ \o <<U8("action"), Pad>>
SignEditorOpen == XYZ
CombatEvent ==
    <<VarInt("event"),
      When("event", {1}, <<VarInt("duration"), VarInt("entity_id")>>),
      When("event", {2}, <<VarInt("player_id"), VarInt("entity_id"),
                           Text("death_message", 256)>>)>>
EntityAction == <<VarInt("eid"), VarInt("action"), VarInt("jump_boost")>>
SteerVehicle == <<F32("sideways"), F32("forward"), U8("flags")>>
EnchantItem == <<U8("window"), U8("enchantment")>>
SbUpdateSign == XYZ \o Signs
SbPlayerAbilities == <<U8("flags"), F32("fly_speed"), F32("walk_speed")>>
ClientSettings == <<Text("locale", 16), U8("view_distance"), VarInt("chat_mode"),
                    Flag("chat_colors"), U8("skin_parts"), VarInt("main_hand")>>
ClientStatus == <<VarInt("action")>>

(* The third batch ("P2"): maps, scoreboards, titles. *)
MapData == <<VarInt("map_id"), U8("scale"),
             List("icons", "varint", 256, <<VarInt("icon")>>),
             VarInt("columns"), VarInt("rows"), I32("x"), I32("z"),
             Blob("data", 16384)>>
CbTabComplete == <<List("matches", "varint", 100, <<Text("s", 256)>>)>>
ScoreboardObjective == <<Text("name", 16), Text("value", 32), U8("action")>>
UpdateScore == <<Text("name", 40), U8("action"), Text("objective", 16),
                 When("action", {0}, <<VarInt("value")>>)>>
DisplayScoreboard == <<U8("position"), Text("name", 16)>>
Teams ==
    <<Text("name", 16), U8("mode"),
      When("mode", {0, 2},
           <<Text("display_name", 32), Text("prefix", 16), Text("suffix", 16),
             U8("friendly_fire"), U8("name_tag_visibility"), U8("color")>>),
      When("mode", {0, 3, 4},
           <<List("players", "varint", 200, <<Text("s", 16)>>)>>)>>
Camera == <<VarInt("entity_id")>>
Title == <<VarInt("action"),
           When("action", {0, 1}, <<Text("text", 256)>>),
           When("action", {2}, <<I32("fade_in"), I32("stay"), I32("fade_out")>>)>>
PlayerListHeaderFooter == <<Text("header", 256), Text("footer", 256)>>
ResourcePackSend == <<Text("url", 256), Text("hash", 40)>>
SbTabComplete == <<Text("text", 256), Flag("has_position"),
                   When("has_position", {TRUE}, XYZ)>>
ResourcePackStatus == <<Text("hash", 40), VarInt("result")>>
----------------------------------------------------------------------------
(* Which layout an id stands for, clientbound and serverbound, in each state *)
(* of a connection.                                                          *)
NoPacket == <<Fld("none", "")>>
HandshakeIds(id) == IF id = 0 THEN Handshake ELSE NoPacket
StatusIds(id, cb) ==
    CASE id = 0 -> IF cb THEN StatusResponse ELSE <<>>
      [] id = 1 -> Ping
      [] OTHER  -> NoPacket
LoginIds(id, cb) ==
    CASE id = 0 -> IF cb THEN Disconnect ELSE LoginStart
      [] cb /\ id = 2 -> LoginSuccess
      [] cb /\ id = 3 -> SetCompression
      [] OTHER -> NoPacket
PlayCb(id) ==
    CASE id = 0 -> KeepAlive [] id = 1 -> JoinGame [] id = 2 -> Chat(32767)
      [] id = 3 -> TimeUpdate [] id = 4 -> Equipment
      [] id = 5 -> SpawnPosition [] id = 6 -> UpdateHealth
      [] id = 7 -> Respawn [] id = 8 -> PlayerPosLook
      [] id = 9 -> HeldItemChange [] id = 10 -> UseBed
      [] id = 11 -> Animation [] id = 12 -> SpawnPlayer
      [] id = 13 -> CollectItem [] id = 14 -> SpawnObject
      [] id = 15 -> SpawnMob [] id = 16 -> SpawnPainting [] id = 17 -> ExpOrb
      [] id = 18 -> Velocity [] id = 19 -> DestroyEntities
      [] id = 20 -> EntityRelMove0 [] id = 21 -> EntityRelMove
      [] id = 22 -> EntityLook [] id = 23 -> EntityRelMoveLook
      [] id = 24 -> EntityTeleport [] id = 25 -> HeadLook
      [] id = 26 -> EntityStatus [] id = 27 -> AttachEntity
      [] id = 28 -> <<VarInt("eid")>> \o Metadata [] id = 29 -> EntityEffect
      [] id = 30 -> RemoveEntityEffect [] id = 31 -> SetExperience
      [] id = 32 -> Properties [] id = 33 -> ChunkData
      [] id = 34 -> MultiBlockChange [] id = 35 -> BlockChangePkt
      [] id = 36 -> BlockAction [] id = 37 -> BreakAnim
      [] id = 38 -> MapChunkBulk [] id = 39 -> Explosion [] id = 40 -> Effect
      [] id = 41 -> SoundEffect [] id = 42 -> Particle
      [] id = 43 -> ChangeGameState [] id = 44 -> SpawnGlobalEntity
      [] id = 45 -> OpenWindow [] id = 46 -> CloseWindowPkt
      [] id = 47 -> SetSlot [] id = 48 -> WindowItems
      [] id = 49 -> WindowProperty [] id = 50 -> ConfirmTransaction
      [] id = 51 -> UpdateSign [] id = 52 -> MapData
      [] id = 53 -> UpdateBlockEntity [] id = 54 -> SignEditorOpen
      [] id = 55 -> Statistics [] id = 56 -> PlayerListItem
      [] id = 57 -> PlayerAbilities [] id = 58 -> CbTabComplete
      [] id = 59 -> ScoreboardObjective [] id = 60 -> UpdateScore
      [] id = 61 -> DisplayScoreboard [] id = 62 -> Teams
      [] id = 63 -> PluginMessage [] id = 64 -> Disconnect
      [] id = 65 -> ServerDifficulty [] id = 66 -> CombatEvent
      [] id = 67 -> Camera [] id = 68 -> WorldBorder [] id = 69 -> Title
      [] id = 71 -> PlayerListHeaderFooter [] id = 72 -> ResourcePackSend
      [] OTHER -> NoPacket
PlaySb(id) ==
    CASE id = 0 -> KeepAlive [] id = 1 -> Chat(100) [] id = 2 -> UseEntity
      [] id = 3 -> Flying [] id = 4 -> SbPosition [] id = 5 -> SbLook
      [] id = 6 -> SbPosLook [] id = 7 -> BlockDig [] id = 8 -> BlockPlace
      [] id = 9 -> SbHeldItem [] id = 10 -> <<>> [] id = 11 -> EntityAction
      [] id = 12 -> SteerVehicle [] id = 13 -> CloseWindowPkt
      [] id = 14 -> ClickWindow [] id = 15 -> ConfirmTransaction
      [] id = 16 -> CreativeAction [] id = 17 -> EnchantItem
      [] id = 18 -> SbUpdateSign [] id = 19 -> SbPlayerAbilities
      [] id = 20 -> SbTabComplete [] id = 21 -> ClientSettings
      [] id = 22 -> ClientStatus [] id = 23 -> PluginMessage
      [] id = 25 -> ResourcePackStatus [] OTHER -> NoPacket
PacketOf(ids, id) ==
    CASE ids = "handshake"   -> HandshakeIds(id)
      [] ids = "to_status"   -> StatusIds(id, FALSE)
      [] ids = "from_status" -> StatusIds(id, TRUE)
      [] ids = "to_login"    -> LoginIds(id, FALSE)
      [] ids = "from_login"  -> LoginIds(id, TRUE)
      [] ids = "to_play"     -> PlaySb(id)
      [] ids = "from_play"   -> PlayCb(id)
=============================================================================
