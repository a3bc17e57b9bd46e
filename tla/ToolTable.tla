------------------------------ MODULE ToolTable ------------------------------
(***************************************************************************)
(* The built-in MCP surface: what each tools/*.py registers, one           *)
(* definition per file, in the order of DOMAINS, and the resources.  A     *)
(* "<domain>_manage" tool rolls up ops, each a handler of ToolHandlers; a  *)
(* named tool is its own only op.  A row is                                *)
(*                                                                         *)
(*   [tool, op, handler, form]    form: the resource that answers the same *)
(*                                read, "waived", or "undeclared"          *)
(***************************************************************************)
EXTENDS ToolHandlers, Sequences, TLC

Row(tool, op, handler, form) ==
  [tool |-> tool, op |-> op, handler |-> handler, form |-> form]

Named(tools) == {Row(t, t, t, "undeclared") : t \in tools}

Same(ops)             == {<<o, o>> : o \in ops}
Prefixed(prefix, ops) == {<<o, prefix \o o>> : o \in ops}

\* register_manage_tool: ops to handlers, the reads without a resource, and
\* the reads with one.
Manage(tool, ops, waived, forms) ==
  {Row(tool, p[1], p[2],
       IF p[1] \in waived THEN "waived"
       ELSE IF \E f \in forms : f[1] = p[1] THEN (CHOOSE f \in forms : f[1] = p[1])[2]
       ELSE "undeclared") : p \in ops}

-----------------------------------------------------------------------------
SessionTools ==
  Named({"session_activate"})
  \cup Manage("session_manage", Prefixed("session_", {"list"}), {},
      {<<"list", "godot://sessions">>})

EditorCore == Named({"editor_state"})

EditorLogs == Named({"logs_read"})

EditorTools ==
  EditorLogs \cup Named({"editor_screenshot", "editor_reload_plugin"})
  \cup Manage("editor_manage",
      Same({"logs_clear", "game_eval"})
      \cup Prefixed("editor_", {"state", "selection_get", "selection_set", "quit"})
      \cup Prefixed("performance_", {"monitors_get"}),
      {"quit", "logs_clear", "game_eval"},
      {<<"state", "godot://editor/state">>, <<"selection_get", "godot://selection/current">>,
       <<"monitors_get", "godot://performance">>})

SceneCore == Named({"scene_get_hierarchy"})

SceneTools ==
  Named({"scene_open", "scene_save"})
  \cup Manage("scene_manage",
      Prefixed("scene_", {"create", "save_as", "close", "get_roots"}),
      {"get_roots"}, {})

NodeCore == Named({"node_get_properties"})

NodeTools ==
  Named({"node_create", "node_set_property", "node_find"})
  \cup Manage("node_manage",
      Prefixed("node_", {"get_children", "get_groups", "delete", "duplicate", "rename",
                           "move", "reparent", "set_editable_children", "add_to_group",
                           "remove_from_group"}), {},
      {<<"get_children", "godot://node/{path*}/children">>,
       <<"get_groups", "godot://node/{path*}/groups">>})

ProjectTools ==
  Named({"project_run"})
  \cup Manage("project_manage",
      Prefixed("project_", {"stop", "settings_get", "settings_set", "set_main_scene"}),
      {"stop"},
      {<<"settings_get", "godot://project/settings">>})

ScriptTools ==
  Named({"script_create", "script_patch", "script_attach"})
  \cup Manage("script_manage",
      Prefixed("script_", {"read", "detach", "find_symbols"}),
      {"find_symbols"},
      {<<"read", "godot://script/{path*}">>})

ResourceTools ==
  Manage("resource_manage",
      Same({"sprite_frames_create", "curve_set_points", "environment_create",
            "physics_shape_autofit", "physics_shape_generate", "gradient_texture_create",
            "noise_texture_create"})
      \cup Prefixed("resource_", {"search", "load", "inspect", "assign", "get_info", "create",
                               "set_properties"}),
      {"search", "load", "inspect", "get_info"}, {})

ApiTools ==
  Manage("api_manage", Prefixed("api_", {"get_class"}), {},
      {<<"get_class", "godot://class/{class_name}">>})

FilesystemTools ==
  Manage("filesystem_manage",
      Prefixed("filesystem_", {"read_text", "write_text", "import_get", "import_set",
                                 "reimport", "scan", "search", "move", "rename", "remove"}),
      {"read_text", "import_get", "search", "scan"}, {})

ClientTools ==
  Manage("client_manage", Prefixed("client_", {"status", "configure", "remove"}),
      {"status", "configure", "remove"}, {})

SignalTools ==
  Manage("signal_manage", Prefixed("signal_", {"list", "connect", "disconnect"}),
      {"list"}, {})

AutoloadTools ==
  Manage("autoload_manage", Prefixed("autoload_", {"list", "add", "remove"}),
      {"list"}, {})

InputMapTools ==
  Manage("input_map_manage",
      Prefixed("input_map_", {"list", "add_action", "ensure_action", "remove_action",
                                "bind_event", "ensure_binding"}), {},
      {<<"list", "godot://input_map">>})

GameTools ==
  Manage("game_manage",
      Prefixed("game_", {"get_scene_tree", "get_node_info", "get_ui_elements", "suspend",
                           "resume", "next_frame", "debug_status", "input_key", "input_mouse",
                           "input_gamepad", "input_action", "input_sequence", "input_state"}),
      {"get_scene_tree", "get_node_info", "get_ui_elements", "suspend", "resume",
       "next_frame", "debug_status", "input_key", "input_mouse", "input_gamepad",
       "input_action", "input_sequence", "input_state"}, {})

TestingTools ==
  Named({"test_run"})
  \cup Manage("test_manage",
      Prefixed("test_", {"results_get"}), {},
      {<<"results_get", "godot://test/results">>})

BatchTools ==
  Named({"batch_execute"})

UiTools ==
  Manage("ui_manage",
      Prefixed("ui_", {"set_anchor_preset", "set_text", "set_richtext", "build_layout"})
      \cup Prefixed("control_", {"draw_recipe"}), {}, {})

ThemeTools ==
  Manage("theme_manage",
      Prefixed("theme_", {"create", "set_color", "set_constant", "set_font_size",
                            "set_stylebox_flat", "set_stylebox_texture", "set_font",
                            "set_icon", "stylebox_override", "apply"}), {}, {})

AnimationTools ==
  Named({"animation_create"})
  \cup Manage("animation_manage",
      Prefixed("animation_", {"player_create", "tree_point_add", "tree_point_remove",
                                "tree_point_set", "tree_create", "tree_get", "tree_node_add",
                                "tree_node_remove", "tree_node_set", "tree_connect",
                                "tree_disconnect", "tree_transition_add",
                                "tree_transition_remove", "tree_transition_set",
                                "library_add", "library_remove", "library_list", "delete",
                                "validate", "add_property_track", "add_method_track",
                                "set_autoplay", "play", "stop", "list", "get",
                                "create_simple", "preset_fade", "preset_slide",
                                "preset_shake", "preset_pulse"}),
      {"tree_get", "library_list", "validate", "play", "stop", "list", "get"}, {})

MaterialTools ==
  Manage("material_manage",
      Same({"shader_create", "shader_get", "shader_validate", "shader_patch"})
      \cup Prefixed("material_", {"create", "set_param", "set_shader_param", "get", "list",
                               "assign", "apply_to_node", "apply_preset"})
      \cup {<<"visual_shader_create_graph", "create_graph">>, <<"visual_shader_get", "get_graph">>,
       <<"visual_shader_node_catalog", "node_catalog">>,
       <<"visual_shader_edit", "edit_graph">>},
      {"get", "shader_validate", "visual_shader_node_catalog"},
      {<<"list", "godot://materials">>, <<"shader_get", "godot://shader/{path*}">>,
       <<"visual_shader_get", "godot://visual_shader/{path*}">>})

ParticleTools ==
  Manage("particle_manage",
      Prefixed("particle_", {"create", "set_main", "set_process", "set_draw_pass",
                               "restart", "get", "apply_preset"}),
      {"restart", "get"}, {})

CameraTools ==
  Manage("camera_manage",
      Prefixed("camera_", {"create", "configure", "set_limits_2d", "set_damping_2d",
                             "follow_2d", "get", "list", "apply_preset"}),
      {"get", "list"}, {})

AudioTools ==
  Manage("audio_manage",
      Prefixed("audio_", {"bus_list", "bus_add", "bus_remove", "bus_set", "bus_effect_add",
                            "bus_effect_set", "bus_effect_remove", "bus_layout_save",
                            "player_create", "player_set_stream", "player_set_playback",
                            "play", "stop", "list"}),
      {"bus_list", "play", "stop", "list"}, {})

TilemapTools ==
  Manage("tilemap_manage",
      Same({"tilemap_set_cell", "tilemap_set_cells_rect", "tilemap_clear",
            "tilemap_get_cells"}),
      {"tilemap_get_cells"}, {})

TilesetTools ==
  Manage("tileset_manage",
      Same({"tileset_create_atlas", "tileset_get_atlas_tiles", "tileset_get_atlas_image"}),
      {"tileset_get_atlas_tiles", "tileset_get_atlas_image"}, {})

GridmapTools ==
  Manage("gridmap_manage",
      Same({"gridmap_set_item", "gridmap_fill", "gridmap_clear", "gridmap_get_used_cells",
            "gridmap_list_library_items"}),
      {"gridmap_get_used_cells", "gridmap_list_library_items"}, {})

NavigationTools ==
  Manage("navigation_manage", Prefixed("navigation_", {"bake", "path_get"}),
      {"path_get"}, {})

CsgTools ==
  Manage("csg_manage", Same({"csg_create", "csg_set_operation"}), {}, {})

CustomTools ==
  Manage("custom_manage", Prefixed("custom_", {"list", "invoke"}),
      {"invoke"},
      {<<"list", "godot://custom-tools">>})

-----------------------------------------------------------------------------
(* Resources: one definition per file again.                               *)

SessionResources == {<<"godot://sessions", "session_resource_data">>}

SceneResources ==
  {<<"godot://scene/current", "current_scene_resource_data">>,
   <<"godot://scene/hierarchy", "scene_hierarchy_resource_data">>}

EditorResources ==
  {<<"godot://selection/current", "selection_resource_data">>,
   <<"godot://logs/recent", "logs_resource_data">>}

ProjectResources ==
  {<<"godot://project/info", "project_info_resource_data">>,
   <<"godot://project/settings", "project_settings_resource_data">>}

NodeResources ==
  {<<"godot://node/{path*}/properties", "node_get_properties">>,
   <<"godot://node/{path*}/children", "node_get_children">>,
   <<"godot://node/{path*}/groups", "node_get_groups">>}

ScriptResources       == {<<"godot://script/{path*}", "script_read">>}
VisualShaderResources == {<<"godot://visual_shader/{path*}", "get_graph">>}
ShaderResources       == {<<"godot://shader/{path*}", "shader_get">>}

LibraryResources ==
  {<<"godot://editor/state", "editor_state">>, <<"godot://materials", "material_list">>,
   <<"godot://input_map", "input_map_list">>,
   <<"godot://performance", "performance_monitors_get">>,
   <<"godot://test/results", "test_results_get">>}

ClassResources      == {<<"godot://class/{class_name}", "api_get_class">>}
CustomToolResources == {<<"godot://custom-tools", "custom_list">>}

Resources ==
  UNION {SessionResources, SceneResources, EditorResources, ProjectResources,
         NodeResources, ScriptResources, VisualShaderResources, ShaderResources,
         LibraryResources, ClassResources, CustomToolResources}

-----------------------------------------------------------------------------
\* The domains that register nothing unless they are included.
Optional ==
  [project |-> ProjectTools, script |-> ScriptTools, resource |-> ResourceTools,
   api |-> ApiTools, filesystem |-> FilesystemTools, client |-> ClientTools,
   signal |-> SignalTools, autoload |-> AutoloadTools, input_map |-> InputMapTools,
   game |-> GameTools, testing |-> TestingTools, batch |-> BatchTools, ui |-> UiTools,
   theme |-> ThemeTools, animation |-> AnimationTools, material |-> MaterialTools,
   particle |-> ParticleTools, camera |-> CameraTools, audio |-> AudioTools,
   tilemap |-> TilemapTools, tileset |-> TilesetTools, gridmap |-> GridmapTools,
   navigation |-> NavigationTools, csg |-> CsgTools, custom |-> CustomTools]

CoreBearing == [session |-> SessionTools, editor |-> EditorCore,
                scene |-> SceneCore, node |-> NodeCore]
NonCore     == [editor |-> EditorTools, scene |-> SceneTools, node |-> NodeTools] @@ Optional

EXCLUDABLE_DOMAINS == DOMAIN NonCore

\* create_server: the core tools whatever is excluded, the rest of a domain
\* only when it is not.
Registered(exclude) ==
  UNION {CoreBearing[d] : d \in DOMAIN CoreBearing}
  \cup UNION {NonCore[d] : d \in EXCLUDABLE_DOMAINS \ exclude}

CORE_TOOLS == {"session_activate", "editor_state", "scene_get_hierarchy",
               "node_get_properties"}

\* A tool's ops are told apart by name, every op has a handler, and a read
\* says which resource answers it too, or that none does; the resource it
\* names exists.  Resources are reads.
ASSUME SurfaceIsWired ==
  LET all  == Registered({})
      gate(r) == {h.gate : h \in {h \in Handlers : h.op = r.handler}}
      uris == {r[1] : r \in Resources}
  IN  /\ \A r, s \in all : r.tool = s.tool /\ r.op = s.op => r = s
      /\ \A r \in all : gate(r) # {}
      /\ \A r \in all : /\ r.tool # r.op /\ gate(r) = {"open"} => r.form # "undeclared"
                        /\ r.form \in uris \cup {"waived", "undeclared"}
      /\ \A r \in Resources : \E h \in Handlers : h.op = r[2] /\ h.gate = "open"
      /\ CORE_TOOLS \subseteq {r.tool : r \in Registered(EXCLUDABLE_DOMAINS)}

=============================================================================
