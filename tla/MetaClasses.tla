---------------------------- MODULE MetaClasses ----------------------------
(***************************************************************************)
(* The classes of gs_core (core/generated/gs_core_generated.c) as the      *)
(* reflection tool declares them.  Of the functions generated for a class  *)
(* (its id, init, new, ctor, dtor, and its vtable's init, ctor and new) a  *)
(* record keeps what differs from class to class: the base, the slots of   *)
(* the vtable the class sets itself, and for messages the delivery.        *)
(***************************************************************************)
Null == "NULL"

\* f, and what g says where f says nothing.
Over(f, g) ==
  [x \in DOMAIN f \cup DOMAIN g |-> IF x \in DOMAIN f THEN f[x] ELSE g[x]]

\* Every generated class sets its own dtor, which is empty unless the class
\* declares one.
Class(base, slots) == [base |-> base, slots |-> Over(slots, [dtor |-> Null])]
Plain(base)        == Class(base, <<>>)
-----------------------------------------------------------------------------
gs_core_obj_t ==
  Class(Null, [serialize       |-> "gs_core_obj_serialize_impl",
               net_serialize   |-> "gs_core_obj_net_serialize_impl",
               deserialize     |-> "gs_core_obj_deserialize_impl",
               net_deserialize |-> "gs_core_obj_net_deserialize_impl"])

gs_core_app_t ==
  Class("gs_core_obj_t", [s \in {"app_init", "app_update", "app_render",
                                 "app_shutdown", "app_editor"} |-> Null])
gs_core_graphics_renderpass_t == Class("gs_core_obj_t", [exec |-> Null])

\* Assets.
gs_core_asset_handle_t        == Plain("gs_core_obj_t")
gs_core_asset_t               == Class("gs_core_obj_t", [importer |-> Null])
gs_core_asset_texture_t ==
  Class("gs_core_asset_t", [importer    |-> "gs_core_asset_texture_importer",
                            serialize   |-> "gs_core_asset_texture_serialize",
                            deserialize |-> "gs_core_asset_texture_deserialize"])
gs_core_asset_mesh_t          == Plain("gs_core_asset_t")
gs_core_asset_material_t      == Plain("gs_core_asset_t")
gs_core_asset_font_t          == Plain("gs_core_asset_t")
gs_core_asset_pipeline_t      == Plain("gs_core_asset_t")
gs_core_asset_ui_stylesheet_t == Plain("gs_core_asset_t")
gs_core_asset_script_t        == Plain("gs_core_asset_t")
gs_core_asset_audio_t         == Plain("gs_core_asset_t")

\* Components and systems.
gs_core_entities_component_t   == Plain("gs_core_obj_t")
gs_core_component_transform_t  == Plain("gs_core_entities_component_t")
gs_core_component_tag_t        == Plain("gs_core_entities_component_t")
gs_core_component_renderable_t ==
  Class("gs_core_entities_component_t",
        [dtor |-> "gs_core_graphics_scene_renderable_destroy"])
gs_core_entities_system_t      == Class("gs_core_obj_t", [callback |-> Null])
gs_core_system_renderable_t ==
  Class("gs_core_entities_system_t", [callback |-> "gs_core_system_renderable_cb"])

\* Messages; init and registration set the delivery of the last two.
gs_core_network_rpc_t ==
  Class("gs_core_obj_t", [callback |-> "gs_core_network_rpc_cb_default"])
Message(delivery) == Over(Plain("gs_core_network_rpc_t"), [delivery |-> delivery])
gs_core_network_rpc_reliable_t   == Message("RELIABLE")
gs_core_network_rpc_unreliable_t == Message("UNRELIABLE")
-----------------------------------------------------------------------------
CoreClasses ==
  [gs_core_obj_t                    |-> gs_core_obj_t,
   gs_core_app_t                    |-> gs_core_app_t,
   gs_core_graphics_renderpass_t    |-> gs_core_graphics_renderpass_t,
   gs_core_asset_handle_t           |-> gs_core_asset_handle_t,
   gs_core_asset_t                  |-> gs_core_asset_t,
   gs_core_asset_texture_t          |-> gs_core_asset_texture_t,
   gs_core_asset_mesh_t             |-> gs_core_asset_mesh_t,
   gs_core_asset_material_t         |-> gs_core_asset_material_t,
   gs_core_asset_font_t             |-> gs_core_asset_font_t,
   gs_core_asset_pipeline_t         |-> gs_core_asset_pipeline_t,
   gs_core_asset_ui_stylesheet_t    |-> gs_core_asset_ui_stylesheet_t,
   gs_core_asset_script_t           |-> gs_core_asset_script_t,
   gs_core_asset_audio_t            |-> gs_core_asset_audio_t,
   gs_core_entities_component_t     |-> gs_core_entities_component_t,
   gs_core_component_transform_t    |-> gs_core_component_transform_t,
   gs_core_component_tag_t          |-> gs_core_component_tag_t,
   gs_core_component_renderable_t   |-> gs_core_component_renderable_t,
   gs_core_entities_system_t        |-> gs_core_entities_system_t,
   gs_core_system_renderable_t      |-> gs_core_system_renderable_t,
   gs_core_network_rpc_t            |-> gs_core_network_rpc_t,
   gs_core_network_rpc_reliable_t   |-> gs_core_network_rpc_reliable_t,
   gs_core_network_rpc_unreliable_t |-> gs_core_network_rpc_unreliable_t]

\* gs_core_info_base_of_internal: what leads from a class to its root.
Bases(classes, c) ==
  LET up[x \in DOMAIN classes] ==
        IF classes[x].base = Null THEN {x} ELSE {x} \cup up[classes[x].base]
  IN  up[c]

Derived(classes, base) == {c \in DOMAIN classes : classes[c].base = base}

\* The generated vtable init: the base's first, then the slots of the class.
VtableInit(classes, c) ==
  LET table[x \in DOMAIN classes] ==
        IF classes[x].base = Null THEN classes[x].slots
        ELSE Over(classes[x].slots, table[classes[x].base])
  IN  table[c]
=============================================================================
