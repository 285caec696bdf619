------------------------- MODULE MC_ServerResources -------------------------
EXTENDS ServerResources

MCKindsAt == <<{"Window", "Region", "Font", "GraphicsContext"},
               {"Window", "Pixmap", "Cursor", "Region", "ShmSegment"},
               {"Pixmap", "Damage", "Picture", "Colormap"}>>

MCLimits == [pixmaps |-> 2, gcs |-> 1, perClient |-> 1, fonts |-> 1,
             drawableBytes |-> 2, cursorBytes |-> 1, property |-> 2,
             properties |-> 1, totalProperty |-> 3]

Work(uses, n, m) == [uses |-> uses, requests |-> n, clients |-> m]

MCWorkloads ==
    {Work({"CreateWindow", "DestroyWindow", "MapWindow", "ConfigureWindow"}, 4, 2),
     Work({"CreateWindow", "InputOnly", "MapWindow", "MapSubwindows"}, 4, 2),
     Work({"OpenFont", "CreateGlyphCursor", "CreateWindow", "RecolorCursor", "Free"},
          4, 2),
     Work({"CreatePixmap", "CreateCursor", "ChangeWindowAttributes", "Free"}, 4, 2),
     Work({"CreateWindow", "Redirect", "Unredirect",
           "NameWindowPixmap", "ClearArea", "ConfigureWindow"}, 4, 2),
     Work({"CreateWindow", "DestroyWindow", "CreatePixmap", "DamageCreate",
           "CreatePicture", "RenderFillRectangles", "Free"}, 4, 2),
     Work({"CreateSolidFill", "CreatePicture", "CreatePixmap", "RenderComposite",
           "DamageCreate"}, 4, 2),
     Work({"CreateRegion", "SetRegion", "CombineRegion", "DamageCreate",
           "DamageSubtract", "DamageAdd"}, 4, 2),
     Work({"CreateGC", "CreateWindow", "DamageCreate", "PolyDraw", "PutImage",
           "PolyFillRectangle", "DrawText", "CopyArea"}, 4, 2),
     Work({"CreateGC", "ShmAttach", "CreateWindow", "ShmPutImage"}, 4, 2),
     Work({"CreateWindow", "ChangeProperty", "DeleteProperty", "GetProperty"}, 4, 2),
     Work({"CreateWindow", "DestroyWindow", "MapWindow", "SetSelectionOwner",
           "SelectSelectionInput", "GrabPointer", "UngrabPointer",
           "RandrSelectInput", "Redirect"}, 3, 2),
     Work({"OpenFont", "CreateColormap", "Free"}, 3, 3),
     Work({"CreateWindow", "CreatePixmap", "DestroyWindow"}, 3, 3)}
=============================================================================
