----------------------------- MODULE ToolHandlers -----------------------------
(***************************************************************************)
(* The handlers behind the MCP tools (handlers/*.py), one definition per   *)
(* file.  Each handler is one await of the write gate or none, then one    *)
(* command to the editor; what it asks of the editor is data here, and     *)
(* what is left is whether it waits at the gate and what becomes of the    *)
(* editor's reply:                                                         *)
(*                                                                         *)
(*   gate   "open"        no require_writable_async                        *)
(*          "writable"    require_writable_async(runtime)                  *)
(*          "running_ok"  ... with allow_playing_noop=True                 *)
(*   reply  "whole"       the client's result is returned as it came       *)
(*          "snapshot"    ... after its readiness is copied to the session *)
(*          "restamped"   a new dict that carries the hint keys over       *)
(*          "rebuilt"     a new value without them                         *)
(*          "ignored"     the reply is not looked at                       *)
(*          "local"       no command is sent                               *)
(***************************************************************************)
EXTENDS Integers

Handler(ops, gate, reply) == {[op |-> o, gate |-> gate, reply |-> reply] : o \in ops}

Reads(ops)    == Handler(ops, "open", "whole")
Writes(ops)   == Handler(ops, "writable", "whole")
Rebuilds(ops) == Handler(ops, "open", "rebuilt")
Locals(ops)   == Handler(ops, "open", "local")

-----------------------------------------------------------------------------
(* Scenes, nodes, scripts and resources.                                   *)

SceneHandlers ==
  Writes({"scene_create", "scene_open", "scene_save", "scene_save_as", "scene_close"})
  \cup Reads({"scene_get_hierarchy", "scene_get_roots", "scene_hierarchy_resource_data"})
  \cup Rebuilds({"current_scene_resource_data"})

NodeHandlers ==
  Writes({"node_create", "node_delete", "node_reparent", "node_set_property",
          "node_set_editable_children", "node_rename", "node_duplicate", "node_move",
          "node_add_to_group", "node_remove_from_group"})
  \cup Reads({"node_get_properties", "node_get_children", "node_get_groups"})
  \cup Rebuilds({"node_find"})

ScriptHandlers ==
  Writes({"script_create", "script_patch", "script_attach", "script_detach"})
  \cup Reads({"script_read", "script_find_symbols"})

ResourceHandlers ==
  Writes({"resource_assign", "resource_create", "resource_set_properties",
          "sprite_frames_create"})
  \cup Reads({"resource_load", "resource_get_info", "resource_inspect"})
  \cup Rebuilds({"resource_search"})

SignalHandlers ==
  Writes({"signal_connect", "signal_disconnect"}) \cup Reads({"signal_list"})

-----------------------------------------------------------------------------
(* The project and its files.                                              *)

\* project_settings_resource_data swallows each failed read into "errors".
ProjectHandlers ==
  Handler({"project_run"}, "running_ok", "whole")
  \cup Handler({"project_stop"}, "open", "snapshot")
  \cup Writes({"project_settings_set", "project_set_main_scene"})
  \cup Reads({"project_settings_get"})
  \cup Rebuilds({"project_settings_resource_data"})
  \cup Locals({"project_info_resource_data"})

\* A scan is a refresh, and passes while the editor imports.
FilesystemHandlers ==
  Writes({"filesystem_write_text", "filesystem_import_set", "filesystem_reimport",
          "filesystem_move", "filesystem_rename", "filesystem_remove"})
  \cup Reads({"filesystem_read_text", "filesystem_import_get", "filesystem_scan"})
  \cup Rebuilds({"filesystem_search"})

AutoloadHandlers == Writes({"autoload_add", "autoload_remove"}) \cup Reads({"autoload_list"})

InputMapHandlers ==
  Writes({"input_map_add_action", "input_map_ensure_action", "input_map_remove_action",
          "input_map_bind_event", "input_map_ensure_binding"})
  \cup Reads({"input_map_list"})

ApiHandlers == Reads({"api_get_class"})

\* Client configuration runs in the editor whatever the scene does.
ClientHandlers == Reads({"client_configure", "client_remove", "client_status"})

-----------------------------------------------------------------------------
(* The editor itself.                                                      *)

\* editor_screenshot is gated only when it saves a file.
ScreenshotHandlers ==
  UNION {Handler({"editor_screenshot"}, g, "rebuilt") : g \in {"open", "writable"}}

\* reload_plugin sends to the pinned old session and expects no answer.
EditorHandlers ==
  Handler({"editor_state"}, "open", "snapshot")
  \cup Reads({"editor_selection_get", "performance_monitors_get", "logs_clear",
              "editor_quit", "game_eval", "logs_resource_data", "selection_resource_data"})
  \cup Writes({"editor_selection_set"})
  \cup ScreenshotHandlers
  \cup Handler({"editor_reload_plugin"}, "open", "ignored")

\* logs_read rebuilds its page and puts the hint keys back.
LogsRead == Handler({"logs_read"}, "open", "restamped")

SessionHandlers == Locals({"session_list", "session_activate", "session_resource_data"})

TestingHandlers == Reads({"test_run", "test_results_get"})

\* An empty batch is answered here, after the gate.
BatchHandlers ==
  UNION {Handler({"batch_execute"}, "writable", r) : r \in {"whole", "local"}}

\* The tool's own definition says whether it is gated.
CustomHandlers ==
  Locals({"custom_list"}) \cup Writes({"custom_invoke"}) \cup Reads({"custom_invoke"})

-----------------------------------------------------------------------------
(* The running game; all of it passes while the scene plays.               *)

\* The one-shot queries, inputs and debugger controls.
GameHandlers ==
  Reads({"game_suspend", "game_resume", "game_next_frame", "game_debug_status",
         "game_get_scene_tree", "game_get_node_info", "game_get_ui_elements",
         "game_input_key", "game_input_mouse", "game_input_gamepad",
         "game_input_action", "game_input_state"})

\* input_sequence is checked here first; a bad one is refused and not sent.
GameSequenceHandlers == Reads({"game_input_sequence"}) \cup Locals({"game_input_sequence"})

-----------------------------------------------------------------------------
(* Authoring of one kind of resource each.                                 *)

AnimationHandlers ==
  Writes({"animation_player_create", "animation_create", "animation_add_property_track",
          "animation_add_method_track", "animation_set_autoplay", "animation_delete"})
  \cup Reads({"animation_play", "animation_stop", "animation_list", "animation_get",
              "animation_validate"})

AnimationPresetHandlers ==
  Writes({"animation_create_simple", "animation_preset_fade", "animation_preset_slide",
          "animation_preset_shake", "animation_preset_pulse", "animation_library_add",
          "animation_library_remove"})
  \cup Reads({"animation_library_list"})

AnimationTreeHandlers ==
  Writes({"animation_tree_create", "animation_tree_node_add", "animation_tree_node_remove",
          "animation_tree_node_set", "animation_tree_connect", "animation_tree_disconnect"})
  \cup Reads({"animation_tree_get"})

AnimationStateHandlers ==
  Writes({"animation_tree_transition_add", "animation_tree_transition_remove",
          "animation_tree_transition_set", "animation_tree_point_add",
          "animation_tree_point_remove", "animation_tree_point_set"})

AudioPlayerHandlers ==
  Writes({"audio_player_create", "audio_player_set_stream", "audio_player_set_playback"})
  \cup Reads({"audio_play", "audio_stop", "audio_list"})

AudioBusHandlers ==
  Writes({"audio_bus_add", "audio_bus_remove", "audio_bus_set", "audio_bus_effect_add",
          "audio_bus_effect_set", "audio_bus_effect_remove", "audio_bus_layout_save"})
  \cup Reads({"audio_bus_list"})

CameraHandlers ==
  Writes({"camera_create", "camera_configure", "camera_set_limits_2d",
          "camera_set_damping_2d", "camera_follow_2d", "camera_apply_preset"})
  \cup Reads({"camera_get", "camera_list"})

MaterialHandlers ==
  Writes({"material_create", "material_set_param", "material_set_shader_param",
          "material_assign", "material_apply_to_node", "material_apply_preset"})
  \cup Reads({"material_get", "material_list"})

ParticleHandlers ==
  Writes({"particle_create", "particle_set_main", "particle_set_process",
          "particle_set_draw_pass", "particle_apply_preset"})
  \cup Reads({"particle_restart", "particle_get"})

ThemeHandlers ==
  Writes({"theme_create", "theme_set_color", "theme_set_constant", "theme_set_font_size",
          "theme_set_stylebox_flat", "theme_apply"})

ThemeOverrideHandlers ==
  Writes({"theme_set_stylebox_texture", "theme_set_font", "theme_set_icon",
          "theme_stylebox_override"})

ShaderHandlers ==
  Writes({"shader_create", "shader_patch"}) \cup Reads({"shader_get", "shader_validate"})

VisualShaderHandlers ==
  Writes({"create_graph", "edit_graph"}) \cup Reads({"get_graph", "node_catalog"})

TextureHandlers == Writes({"gradient_texture_create", "noise_texture_create"})

PhysicsShapeHandlers == Writes({"physics_shape_generate", "physics_shape_autofit"})

NavigationHandlers == Writes({"navigation_bake"}) \cup Reads({"navigation_path_get"})

GridmapHandlers ==
  Writes({"gridmap_set_item", "gridmap_fill", "gridmap_clear"})
  \cup Reads({"gridmap_get_used_cells", "gridmap_list_library_items"})

TilemapHandlers ==
  Writes({"tilemap_set_cell", "tilemap_set_cells_rect", "tilemap_clear"})
  \cup Reads({"tilemap_get_cells"})

TilesetHandlers ==
  Writes({"tileset_create_atlas"})
  \cup Reads({"tileset_get_atlas_tiles", "tileset_get_atlas_image"})

UiHandlers ==
  Writes({"ui_set_anchor_preset", "ui_set_text", "ui_set_richtext", "ui_build_layout"})

CsgHandlers == Writes({"csg_create", "csg_set_operation"})

ControlHandlers     == Writes({"control_draw_recipe"})
CurveHandlers       == Writes({"curve_set_points"})
EnvironmentHandlers == Writes({"environment_create"})

-----------------------------------------------------------------------------
Handlers ==
  UNION {SceneHandlers, NodeHandlers, ScriptHandlers, ResourceHandlers, SignalHandlers,
         ProjectHandlers, FilesystemHandlers, AutoloadHandlers, InputMapHandlers,
         ApiHandlers, ClientHandlers, EditorHandlers, LogsRead, SessionHandlers,
         TestingHandlers, BatchHandlers, CustomHandlers, GameHandlers,
         GameSequenceHandlers, AnimationHandlers, AnimationPresetHandlers,
         AnimationTreeHandlers, AnimationStateHandlers, AudioPlayerHandlers,
         AudioBusHandlers, CameraHandlers, MaterialHandlers, ParticleHandlers,
         ThemeHandlers, ThemeOverrideHandlers, ShaderHandlers, VisualShaderHandlers,
         TextureHandlers, PhysicsShapeHandlers, NavigationHandlers, GridmapHandlers,
         TilemapHandlers, TilesetHandlers, UiHandlers, CsgHandlers, ControlHandlers,
         CurveHandlers, EnvironmentHandlers}

\* The handlers that send a command.
Senders == {h \in Handlers : h.reply # "local"}

Gates   == {"open", "writable", "running_ok"}
Replies == {"whole", "snapshot", "restamped", "rebuilt", "ignored", "local"}
=============================================================================
