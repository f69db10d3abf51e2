----------------------------- MODULE ToolCatalog -----------------------------
(* The tables of the tool endpoints and of the worker that executes their jobs.
   Every tool is described twice in the program, once where a request is
   admitted (the routers, _create_job) and once where the job is dispatched
   (process_job): by other people, in other files, in other words.  The two are
   transcribed here apart from each other; ToolRequests runs one against the
   other.  A size is the class of a file's length, named for its largest
   member; a MIME type is named for a suffix that has it. *)
EXTENDS Naturals, Sequences, TLC

Under16 == 0
To23    == 1
M2      == 2
M8      == 3
M12     == 4
M16     == 5
M20     == 6
M24     == 7
M30     == 8
M100    == 9
Longer  == 10

MimeOf(suffix) == CASE suffix \in {".jpg", ".jpeg", ".jfif"} -> ".jpg"
                    [] suffix \in {".tif", ".tiff"}          -> ".tiff"
                    [] OTHER                                 -> suffix

AnyParam == {"any"}

(***************************************************************************)
(* Admission: [flags the route needs, scope, strict ownership (no wildcard),*)
(* MIME types, name suffixes ({} when the name is not looked at), least and *)
(* greatest size, least and greatest number of inputs, parameter names].    *)
(***************************************************************************)
PdfRoute(flags, scope, low, high, params) ==
    [flags |-> flags, scope |-> scope, strict |-> TRUE, mimes |-> {".pdf"},
     names |-> {".pdf"}, low |-> low, high |-> high, least |-> 1, most |-> 1, params |-> params]

Export(op, low, high, params) ==
    op :> PdfRoute({"from_pdf"}, "pdf:pdf-to-image", low, high, params)

ExportPages ==
    Export("pdf-to-tiff", To23, M24, {"dpi"}) @@ Export("pdf-to-gif", M2, M24, {"dpi", "frame_ms"})
    @@ Export("pdf-to-bmp", M2, M24, {"dpi"}) @@ Export("pdf-to-svg", M2, M24, {})

ExportText ==
    [op \in {"pdf-to-csv", "pdf-to-rtf", "pdf-to-odt", "pdf-to-docx", "pdf-to-word"} |->
        PdfRoute({"from_pdf"}, "pdf:pdf-to-image", M2, M16, {})]

ExportBooks ==
    Export("pdf-to-excel", M2, M16, {}) @@ Export("pdf-to-epub", M2, M16, {})
    @@ Export("pdf-to-jpg", M2, M24, {"dpi"}) @@ Export("pdf-to-png", M2, M24, {"dpi"})

ExportAccessible ==
    Export("pdf-to-ppt", M2, M16, {})
    @@ "pdf-to-ocr" :> PdfRoute({"from_pdf"}, "pdf:ocr", M2, M20, {"languages", "deskew", "rotate_pages"})
    @@ "pdf-to-pdfa" :> PdfRoute({"from_pdf"}, "pdf:pdfa", M2, M20, {"languages"})

DocumentRoute ==
    [op \in {"edit-metadata", "remove-metadata", "extract-text"} |->
        [PdfRoute({"document_data"}, IF op = "extract-text" THEN "pdf:extract-text" ELSE "pdf:metadata",
                  Under16, Longer, IF op = "edit-metadata" THEN {"changes"} ELSE {})
            EXCEPT !.names = {}]]

GeometryRoute ==
    [op \in {"crop-pdf", "resize-pdf"} |->
        [PdfRoute({"geometry"}, IF op = "crop-pdf" THEN "pdf:crop" ELSE "pdf:resize", Under16, Longer,
                  IF op = "crop-pdf" THEN {"left", "bottom", "right", "top", "pages"} ELSE {"width", "height"})
            EXCEPT !.names = {}]]

PageRoute == [op \in {"delete-pdf-pages", "reorder-pdf-pages"} |->
                PdfRoute({"manage_page"}, "pdf:split", M2, M24, {"pages"})]

SplitRoute == "split-to-zip" :> PdfRoute({"split_zip", "multi_output"}, "pdf:split", M2, M16, {"pages"})

ExtractRoute ==
    [op \in {"extract-pages-pdf", "extract-pages-zip"} |->
        PdfRoute({"extract_pages"} \cup (IF op = "extract-pages-zip" THEN {"multi_output"} ELSE {}),
                 "pdf:split", M2, M16, {"pages", "format"})]

OverlayRoute == "add-pdf-text" :> PdfRoute({"text_overlay"}, "pdf:stamp", M2, M16,
                                           {"page", "x", "y", "font_size", "text"})

HeaderRoute == "header-and-footer" :> PdfRoute({"header_footer"}, "pdf:header-footer", M2, M16, AnyParam)

FillRoute == "fill-pdf-form" :> PdfRoute({"filler"}, "pdf:convert", M2, M24, {"updates"})

GrayRoute == "grayscale-pdf" :> PdfRoute({"grayscale"}, "pdf:grayscale", M2, M16, {})

ImagesRoute == "extract-images" :> PdfRoute({"extract_images"}, "pdf:extract-images", M2, M16, {})

UnlockRoute == "unlock-pdf" :> PdfRoute({"unlock"}, "pdf:unlock", M2, M16, {})

ProtectRoute == "protect-pdf" :> PdfRoute({"protect"}, "pdf:protect", M2, M16, {})

(* One upload format and one endpoint each: "txt-to-pdf" takes a .txt. *)
ToPdf(kinds) == {format \o "-to-pdf" : format \in kinds}
InputOf(kinds) == [op \in ToPdf(kinds) |-> "." \o (CHOOSE format \in kinds : op = format \o "-to-pdf")]

StagedInput ==
    InputOf({"txt", "csv", "md", "svg", "dxf", "djvu", "xps", "ai", "epub", "fb2", "mobi", "html", "xml",
             "eml", "zip", "cbz", "cbr", "jfif", "gif", "tiff", "doc", "docx", "xls", "xlsx", "ppt", "pptx",
             "odt", "ods", "odp", "rtf", "pub", "hwp", "pages", "jpg", "jpeg", "png", "webp", "bmp"})
StagedToPdf == DOMAIN StagedInput

StagedNames(op) == IF StagedInput[op] = ".tiff" THEN {".tif", ".tiff"} ELSE {StagedInput[op]}

StagedRoute(op, scope) ==
    [flags |-> {"to_pdf"}, scope |-> scope, strict |-> TRUE, mimes |-> {MimeOf(StagedInput[op])},
     names |-> StagedNames(op), low |-> Under16, high |-> Longer, least |-> 1, most |-> 1, params |-> {}]

Routes(kinds, scope) == [op \in ToPdf(kinds) |-> StagedRoute(op, scope)]

ToPdfOffice ==
    Routes({"txt", "csv", "md", "doc", "docx", "xls", "xlsx", "ppt", "pptx", "odt", "ods", "odp", "rtf"},
           "pdf:convert")
    @@ Routes({"jfif", "gif", "tiff"}, "pdf:image-to-pdf")

ToPdfPictures == Routes({"jpg", "jpeg", "png", "webp", "bmp"}, "pdf:image-to-pdf")
                 @@ Routes({"html", "xml", "eml", "zip", "cbr", "cbz", "epub", "pages", "hwp", "pub", "mobi"},
                           "pdf:convert")

ToPdfDocuments == Routes({"fb2", "djvu", "dxf", "svg", "xps", "ai"}, "pdf:convert")

UrlRoute == "url-to-pdf" :>
    [flags |-> {"to_pdf", "url_dev"}, scope |-> "pdf:convert", strict |-> TRUE, mimes |-> {}, names |-> {},
     low |-> Under16, high |-> Longer, least |-> 0, most |-> 0, params |-> {"url"}]

NativeInput == InputOf({"heic", "heif", "dwg", "chm", "wps"})

NativeFlags(op) == {"to_pdf"} \cup
    (CASE op \in {"heic-to-pdf", "heif-to-pdf"} -> {"heif_dev"}
       [] op = "dwg-to-pdf" -> {"dwg_dev"} [] op = "chm-to-pdf" -> {"chm_dev"} [] op = "wps-to-pdf" -> {"wps_dev"})

NativeRoute == [op \in DOMAIN NativeInput |->
    [flags |-> NativeFlags(op), scope |-> "pdf:convert", strict |-> TRUE, mimes |-> {NativeInput[op]},
     names |-> {NativeInput[op]}, low |-> Under16, high |-> Longer, least |-> 1, most |-> 1, params |-> {}]]

ImageMimes  == {".jpg", ".png", ".webp", ".tiff", ".bmp"}
OfficeMimes == {".doc", ".xls", ".ppt", ".docx", ".xlsx", ".pptx", ".odt", ".ods", ".odp", ".rtf"}

LegacyRoute(scope, mimes, least, most, params) ==
    [flags |-> {}, scope |-> scope, strict |-> FALSE, mimes |-> mimes, names |-> {}, low |-> Under16,
     high |-> Longer, least |-> least, most |-> most, params |-> params]

LegacyRoutes ==
    "merge"            :> LegacyRoute("pdf:merge", {".pdf"}, 2, 50, {})
    @@ "images-to-pdf" :> LegacyRoute("pdf:image-to-pdf", ImageMimes, 1, 100, {"page_size", "fit", "margin", "dpi"})
    @@ "pdf-to-images" :> LegacyRoute("pdf:pdf-to-image", {".pdf"}, 1, 1, {"format", "dpi", "first_page", "last_page"})
    @@ "organize"      :> LegacyRoute("pdf:split", {".pdf"}, 1, 1, {"pages"})
    @@ "split"         :> LegacyRoute("pdf:split", {".pdf"}, 1, 1, {"pages"})
    @@ "rotate"        :> LegacyRoute("pdf:rotate", {".pdf"}, 1, 1, {"degrees", "pages"})
    @@ "compress"      :> LegacyRoute("pdf:compress", {".pdf"}, 1, 1, {})
    @@ "ocr"           :> LegacyRoute("pdf:ocr", {".pdf"}, 1, 1, {"languages", "deskew", "rotate_pages"})
    @@ "pdfa"          :> LegacyRoute("pdf:pdfa", {".pdf"}, 1, 1, {"languages"})
    @@ "office-to-pdf" :> LegacyRoute("pdf:convert", OfficeMimes, 1, 1, {})
    @@ "watermark"     :> LegacyRoute("pdf:watermark", {".pdf"}, 1, 1,
                                      {"text", "font_size", "opacity", "rotation", "position", "margin"})
    @@ "page-numbers"  :> LegacyRoute("pdf:page-number", {".pdf"}, 1, 1,
                                      {"format", "start_number", "font_size", "position", "margin"})
    @@ "stamp"         :> LegacyRoute("pdf:stamp", {".pdf"}, 2, 2, {"position", "scale", "margin"})

Route == ExportPages @@ ExportText @@ ExportBooks @@ ExportAccessible @@ DocumentRoute @@ GeometryRoute
         @@ PageRoute @@ SplitRoute @@ ExtractRoute @@ OverlayRoute @@ HeaderRoute @@ FillRoute @@ GrayRoute
         @@ ImagesRoute @@ UnlockRoute @@ ProtectRoute @@ ToPdfOffice @@ ToPdfPictures @@ ToPdfDocuments
         @@ UrlRoute @@ NativeRoute @@ LegacyRoutes
Tool == DOMAIN Route

(***************************************************************************)
(* Uploads: what validate_uploaded_file asks of a suffix, besides a content *)
(* its format's parser accepts.                                             *)
(***************************************************************************)
Accept(suffixes, flags, high) == [suffix \in suffixes |-> [flags |-> flags, high |-> high]]

UploadNative ==
    Accept({".pdf"}, {}, Longer) @@ Accept({".heic", ".heif"}, {"to_pdf", "heif_dev"}, Longer)
    @@ Accept({".dwg"}, {"to_pdf", "dwg_dev"}, M12) @@ Accept({".chm"}, {"to_pdf", "chm_dev"}, M20)
    @@ Accept({".wps"}, {"to_pdf", "wps_dev"}, M12) @@ Accept({".ai"}, {"to_pdf"}, Longer)

UploadBooks ==
    Accept({".xps", ".djvu", ".dxf", ".mobi"}, {"to_pdf"}, Longer) @@ Accept({".svg"}, {"to_pdf"}, M2)
    @@ Accept({".epub"}, {"to_pdf"}, M20) @@ Accept({".fb2"}, {"to_pdf"}, M8)

UploadText ==
    Accept({".cbr", ".gif", ".jfif"}, {"to_pdf"}, Longer) @@ Accept({".zip", ".cbz"}, {"to_pdf"}, M30)
    @@ Accept({".html", ".xml", ".eml", ".txt", ".csv", ".md"}, {"to_pdf"}, M2)

UploadOffice ==
    Accept({".png", ".jpg", ".jpeg", ".webp", ".tif", ".tiff", ".bmp", ".docx", ".xlsx", ".pptx", ".odt",
            ".ods", ".odp", ".doc", ".xls", ".ppt", ".rtf"}, {}, Longer)
    @@ Accept({".pages", ".hwp", ".pub"}, {"to_pdf"}, Longer)

Upload == UploadNative @@ UploadBooks @@ UploadText @@ UploadOffice

(***************************************************************************)
(* Queues: the flags under which an operation has a class, and the class.   *)
(***************************************************************************)
Lane(ops, flags, class) == [op \in ops |-> [flags |-> flags, class |-> class]]

LegacyClass ==
    Lane({"organize", "split", "rotate", "watermark", "page-numbers", "stamp"}, {}, "interactive")
    @@ Lane({"merge", "compress", "images-to-pdf"}, {}, "pdf")
    @@ Lane({"ocr", "pdfa", "office-to-pdf", "pdf-to-images"}, {}, "heavy")

QueueClass ==
    Lane({"header-and-footer"}, {"header_footer"}, "pdf") @@ Lane({"grayscale-pdf"}, {"grayscale"}, "pdf")
    @@ Lane({"extract-images"}, {"extract_images"}, "pdf") @@ Lane({"protect-pdf"}, {"protect"}, "pdf")
    @@ Lane({"unlock-pdf"}, {"unlock"}, "pdf") @@ Lane({"extract-pages-pdf"}, {"extract_pages"}, "pdf")
    @@ Lane({"extract-pages-zip"}, {"extract_pages", "multi_output"}, "pdf")
    @@ Lane({"split-to-zip"}, {"split_zip", "multi_output"}, "pdf")
    @@ Lane({"fill-pdf-form"}, {"filler"}, "pdf") @@ Lane({"add-pdf-text"}, {"text_overlay"}, "pdf")
    @@ Lane({"delete-pdf-pages", "reorder-pdf-pages"}, {"manage_page"}, "pdf")
    @@ Lane({"pdf-to-tiff", "pdf-to-gif", "pdf-to-bmp", "pdf-to-svg", "pdf-to-csv", "pdf-to-rtf", "pdf-to-odt",
             "pdf-to-word", "pdf-to-docx", "pdf-to-excel", "pdf-to-epub", "pdf-to-jpg", "pdf-to-png",
             "pdf-to-ppt", "pdf-to-ocr", "pdf-to-pdfa"}, {"from_pdf"}, "heavy")
    @@ [op \in DOMAIN NativeInput |-> [flags |-> NativeFlags(op), class |-> "heavy"]]
    @@ Lane({"url-to-pdf"}, {"to_pdf", "url_dev"}, "heavy") @@ Lane(StagedToPdf, {"to_pdf"}, "heavy")
    @@ Lane({"edit-metadata"}, {"document_data"}, "interactive")
    @@ Lane({"remove-metadata", "extract-text"}, {"document_data"}, "pdf")
    @@ Lane({"crop-pdf", "resize-pdf"}, {"geometry"}, "pdf")
    @@ LegacyClass

(***************************************************************************)
(* Dispatch: [flags, strict (owner and expiry looked at again), MIME types, *)
(* names, sizes, inputs, parameters, whether they must be exactly those,    *)
(* whether the content is validated again].                                 *)
(***************************************************************************)
PdfBranch(flags, low, high, params) ==
    [flags |-> flags, strict |-> TRUE, mimes |-> {".pdf"}, names |-> {".pdf"}, low |-> low, high |-> high,
     least |-> 1, most |-> 1, params |-> params, exact |-> TRUE, again |-> TRUE]

Loose(rule) == [rule EXCEPT !.names = {}, !.low = Under16, !.high = Longer, !.again = FALSE]

Branch(ops, high, params) == [op \in ops |-> PdfBranch({"from_pdf"}, M2, high, params)]

DispatchPages ==
    "pdf-to-tiff" :> PdfBranch({"from_pdf"}, Under16, Longer, {"dpi"})
    @@ Branch({"pdf-to-gif"}, M24, {"dpi", "frame_ms"}) @@ Branch({"pdf-to-bmp"}, M24, {"dpi"})
    @@ Branch({"pdf-to-svg"}, M24, {}) @@ Branch({"pdf-to-csv"}, M16, {})

DispatchText == Branch({"pdf-to-rtf", "pdf-to-odt", "pdf-to-word", "pdf-to-docx", "pdf-to-excel", "pdf-to-epub"},
                       M16, {})

DispatchRaster ==
    Branch({"pdf-to-jpg", "pdf-to-png"}, M24, {"dpi"}) @@ Branch({"pdf-to-ppt"}, M16, {})
    @@ "add-pdf-text" :> PdfBranch({"text_overlay"}, M2, M16, {"page", "x", "y", "font_size", "text"})

DispatchPage ==
    "protect-pdf"          :> PdfBranch({"protect"}, M2, M16, {})
    @@ "header-and-footer" :> PdfBranch({"header_footer"}, M2, M16, AnyParam)
    @@ "grayscale-pdf"     :> PdfBranch({"grayscale"}, M2, M16, {})
    @@ "extract-images"    :> PdfBranch({"extract_images"}, M2, M16, {})

DispatchSelection ==
    "unlock-pdf"           :> PdfBranch({"unlock"}, M2, M16, {})
    @@ "extract-pages-pdf" :> PdfBranch({"extract_pages"}, M2, M16, {"pages", "format"})
    @@ "extract-pages-zip" :> PdfBranch({"extract_pages", "multi_output"}, M2, M16, {"pages", "format"})
    @@ "split-to-zip"      :> PdfBranch({"split_zip", "multi_output"}, M2, M16, {"pages"})
    @@ [op \in {"delete-pdf-pages", "reorder-pdf-pages"} |-> PdfBranch({"manage_page"}, M2, M24, {"pages"})]

DispatchForms ==
    Branch({"pdf-to-ocr"}, M20, {"languages", "deskew", "rotate_pages"})
    @@ Branch({"pdf-to-pdfa"}, M20, {"languages"})
    @@ "fill-pdf-form" :> PdfBranch({"filler"}, M2, M24, {"updates"})

DispatchGeometry ==
    "crop-pdf" :> Loose(PdfBranch({"geometry"}, 0, 0, {"left", "bottom", "right", "top", "pages"}))
    @@ "resize-pdf" :> Loose(PdfBranch({"geometry"}, 0, 0, {"width", "height"}))

DispatchDocument ==
    "edit-metadata" :> [Loose(PdfBranch({"document_data"}, 0, 0, {"changes"})) EXCEPT !.exact = FALSE]
    @@ [op \in {"extract-text", "remove-metadata"} |-> Loose(PdfBranch({"document_data"}, 0, 0, {}))]

DispatchStaged ==
    [op \in StagedToPdf |->
        [PdfBranch({"to_pdf"}, Under16, Longer, {}) EXCEPT !.mimes = {MimeOf(StagedInput[op])},
                                                           !.names = StagedNames(op)]]

DispatchNative ==
    [op \in DOMAIN NativeInput |->
        [PdfBranch(NativeFlags(op), Under16, Longer, {}) EXCEPT !.mimes = {NativeInput[op]},
                                                                !.names = {NativeInput[op]}]]

DispatchUrl ==
    "url-to-pdf" :> [Loose(PdfBranch({"to_pdf", "url_dev"}, 0, 0, {"url"})) EXCEPT
                        !.strict = FALSE, !.mimes = {}, !.least = 0, !.most = 0]

(* execute_operation: nothing is looked at again but the number of inputs and
   the parameters that have no default. *)
Adapter(least, most, params) ==
    [flags |-> {}, strict |-> FALSE, mimes |-> {}, names |-> {}, low |-> Under16, high |-> Longer,
     least |-> least, most |-> most, params |-> params, exact |-> FALSE, again |-> FALSE]

Adapters ==
    "merge" :> Adapter(2, 50, {}) @@ "stamp" :> Adapter(2, 2, {}) @@ "images-to-pdf" :> Adapter(1, 100, {})
    @@ "organize" :> Adapter(1, 1, {"pages"}) @@ "split" :> Adapter(1, 1, {"pages"})
    @@ "rotate" :> Adapter(1, 1, {"degrees", "pages"}) @@ "watermark" :> Adapter(1, 1, {"text"})
    @@ [op \in {"compress", "ocr", "pdfa", "office-to-pdf", "page-numbers", "pdf-to-images"} |-> Adapter(1, 1, {})]

Dispatch == DispatchPages @@ DispatchText @@ DispatchRaster @@ DispatchPage @@ DispatchSelection
            @@ DispatchForms @@ DispatchGeometry @@ DispatchDocument @@ DispatchStaged @@ DispatchNative
            @@ DispatchUrl @@ Adapters

(* The suffix under which the worker publishes what the engine wrote. *)
OutputSuffix(op) ==
    CASE op \in {"split-to-zip", "extract-pages-zip", "extract-images", "pdf-to-bmp", "pdf-to-svg", "pdf-to-csv",
                 "pdf-to-jpg", "pdf-to-png", "pdf-to-images"} -> ".zip"
      [] op = "pdf-to-tiff" -> ".tiff" [] op = "pdf-to-gif"  -> ".gif"  [] op = "pdf-to-rtf" -> ".rtf"
      [] op = "pdf-to-ppt"  -> ".pptx" [] op = "pdf-to-epub" -> ".epub" [] op = "pdf-to-odt" -> ".odt"
      [] op \in {"pdf-to-word", "pdf-to-docx"} -> ".docx" [] op = "pdf-to-excel" -> ".xlsx"
      [] op = "extract-text" -> ".txt"
      [] OTHER -> ".pdf"

(* jobs.py: the scope and the flags a retry asks for; no row, nothing asked. *)
RetryRule ==
    LET Rule(ops, flags, scope) == [op \in ops |-> [flags |-> flags, scope |-> scope]] IN
    Rule({"merge"}, {}, "pdf:merge") @@ Rule({"organize", "split"}, {}, "pdf:split")
    @@ Rule({"rotate"}, {}, "pdf:rotate") @@ Rule({"compress"}, {}, "pdf:compress") @@ Rule({"ocr"}, {}, "pdf:ocr")
    @@ Rule({"pdfa"}, {}, "pdf:pdfa") @@ Rule({"office-to-pdf"}, {}, "pdf:convert")
    @@ Rule({"watermark"}, {}, "pdf:watermark") @@ Rule({"page-numbers"}, {}, "pdf:page-number")
    @@ Rule({"stamp"}, {}, "pdf:stamp") @@ Rule({"images-to-pdf"}, {}, "pdf:image-to-pdf")
    @@ Rule({"pdf-to-images"}, {}, "pdf:pdf-to-image")
    @@ Rule({"header-and-footer"}, {"header_footer"}, "pdf:header-footer")
    @@ Rule({"grayscale-pdf"}, {"grayscale"}, "pdf:grayscale")
    @@ Rule({"extract-images"}, {"extract_images"}, "pdf:extract-images")
    @@ Rule({"extract-pages-pdf"}, {"extract_pages"}, "pdf:split")
    @@ Rule({"extract-pages-zip"}, {"extract_pages", "multi_output"}, "pdf:split")
    @@ Rule({"split-to-zip"}, {"split_zip", "multi_output"}, "pdf:split")
    @@ Rule({"edit-metadata", "remove-metadata"}, {"document_data"}, "pdf:metadata")
    @@ Rule({"extract-text"}, {"document_data"}, "pdf:extract-text")
    @@ Rule({"crop-pdf"}, {"geometry"}, "pdf:crop") @@ Rule({"resize-pdf"}, {"geometry"}, "pdf:resize")
=============================================================================
