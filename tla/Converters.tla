------------------------------ MODULE Converters ------------------------------
(* The converters, each as the order in which it touches files and what it
   looks at before it does: whether it first asks that the output be new, the
   defects of a source it refuses, the faults of the product it looks for
   before the product gets the output's name, how it gets that name, and the
   faults it looks for afterwards, under that name.  Where the product is made
   - in memory, in a private directory, beside the output - is left out. *)

(* One engine as a table of its own, and tables as one. *)
c :> e == [x \in {c} |-> e]
AsOne(tables) == [c \in UNION {DOMAIN t : t \in tables} |-> (CHOOSE t \in tables : c \in DOMAIN t)[c]]

(***************************************************************************)
(* What can be wrong with a source, and with a product.                     *)
(*   foreign:   not a regular file of its own     outsized: over a budget   *)
(*   uncarried: content the result cannot hold    geometry: page, pixel size *)
(*   guarded:   forms, signatures, annotations    active: scripts, references *)
(*   bulky: over a budget     incomplete: pages lost or added                *)
(*   blank: nothing to see    altered: content or geometry is not as asked   *)
(***************************************************************************)
Defect == {"foreign", "outsized", "malformed", "encrypted", "geometry", "guarded", "uncarried", "active"}
Fault  == {"damaged", "bulky", "incomplete", "blank", "altered"}

Engine(early, refuses, verifies, puts, rechecks) ==
    [early |-> early, refuses |-> refuses,
     verifies |-> verifies, puts |-> puts, rechecks |-> rechecks]

(* The families: a candidate in a private directory, copied to an output opened
   with "xb"; a temporary file beside the output, renamed over it; written over
   whatever the output's name holds. *)
NewFile(early, refuses, verifies) == Engine(early, refuses, verifies, "new", {})
Renamed(refuses, verifies, rechecks) == Engine(FALSE, refuses, verifies, "rename", rechecks)
Over(refuses, verifies, rechecks) == Engine(FALSE, refuses, verifies, "over", rechecks)

(***************************************************************************)
(* The first PDF tools: neither the source nor the product is looked at.    *)
(***************************************************************************)
PageTools ==
    [c \in {"merge", "split", "organize", "rotate", "compress", "ocr", "pdfa", "office_to_pdf"} |->
        Over({}, {}, {})]

ImagesToPdf == "images_to_pdf" :> Over({}, {}, {})
PdfToImages == "pdf_to_images" :> Over({}, {"blank"}, {})
StampTools  == [c \in {"watermark_text", "add_page_numbers", "stamp_pdf"} |-> Over({}, {}, {})]

(***************************************************************************)
(* PDF to another format.                                                   *)
(***************************************************************************)
StrictPdf == {"foreign", "outsized", "malformed", "encrypted"}
Whole == {"damaged", "bulky", "incomplete"}

PlainLines == {"uncarried"}                (* _extract_plain_lines *)
RuledTable == {"uncarried", "active"}      (* _lines, _table *)

Tiff  == "pdf_to_multipage_tiff"  :> NewFile(FALSE, StrictPdf \cup {"geometry"}, Whole)
Gif   == "pdf_to_animated_gif"    :> NewFile(TRUE, StrictPdf \cup {"geometry"}, Whole)
Bmp   == "pdf_to_bmp_zip"         :> NewFile(TRUE, StrictPdf \cup {"geometry"}, Whole)
Svg   == "pdf_to_svg_zip"         :> NewFile(TRUE, StrictPdf \cup {"geometry"}, Whole)
Raster == "pdf_to_raster_page_zip" :> NewFile(TRUE, StrictPdf \cup {"geometry"}, Whole)
Csv   == "pdf_to_csv_zip"         :> NewFile(TRUE, StrictPdf \cup {"geometry"} \cup RuledTable, Whole)
Rtf   == "pdf_to_text_only_rtf"   :> Engine(TRUE, StrictPdf \cup {"geometry"} \cup PlainLines,
                                            {"bulky"}, "new", {})
Odt   == "pdf_to_editable_text_odt"  :> NewFile(TRUE, StrictPdf \cup {"geometry"} \cup PlainLines, Whole)
Docx  == "pdf_to_editable_text_docx" :> NewFile(TRUE, StrictPdf \cup {"geometry"} \cup PlainLines, Whole)
Epub  == "pdf_to_reflowable_epub"    :> NewFile(TRUE, StrictPdf \cup {"geometry"} \cup PlainLines, Whole)
Pptx  == "pdf_to_editable_text_pptx" :> NewFile(TRUE, StrictPdf \cup {"geometry"} \cup PlainLines, Whole)
Xlsx  == "pdf_grid_to_editable_xlsx" :> NewFile(TRUE, StrictPdf \cup RuledTable, Whole)

ScanOnly == {"guarded", "uncarried"}       (* _require_scanned_image_only *)

Accessible ==
    [c \in {"ocr-pdf", "pdfa-2"} |->
        Engine(TRUE, StrictPdf \cup {"geometry"} \cup (IF c = "pdfa-2" THEN ScanOnly ELSE {}),
               {}, "over", Whole \cup (IF c = "pdfa-2" THEN {"altered"} ELSE {}))]

(***************************************************************************)
(* PDF to PDF, or to its parts.                                             *)
(***************************************************************************)
SplitSource == StrictPdf \cup {"guarded"}  (* _source_document *)

SplitZip == "make_split_pdf_zip" :> NewFile(TRUE, SplitSource, Whole \cup {"altered"})
ExtractPages == "extract_selected_pages_pdf" :>
    Engine(TRUE, SplitSource, {}, "new", Whole \cup {"altered"})
SelectPages == "select_pdf_pages" :> NewFile(TRUE, StrictPdf, Whole \cup {"altered"})
TextOverlay == "add_text_to_pdf" :>
    NewFile(TRUE, StrictPdf \cup {"guarded", "geometry"}, Whole \cup {"altered"})
AcroFormSource == StrictPdf \cup {"guarded", "uncarried"}
AcroForm == "fill_pdf_text_fields" :> NewFile(FALSE, AcroFormSource, Whole \cup {"altered"})

EmbeddedImages == "extract_embedded_images_zip" :>
    NewFile(TRUE, StrictPdf \cup {"geometry", "uncarried"}, Whole)

GraySource == StrictPdf \cup {"geometry", "guarded"}
GrayDraft  == {"damaged", "incomplete"}    (* pdf_export_stage.grayscale_pdf *)
Grayscale  == "grayscale_pdf_bounded" :> NewFile(TRUE, GraySource, GrayDraft \cup {"bulky", "altered"})

HeaderDraft  == {"damaged", "incomplete"}  (* add_header_footer *)
HeaderSource == StrictPdf \cup {"geometry", "guarded"}
HeaderFooter == "header_footer_pdf_bounded" :>
    Engine(TRUE, HeaderSource, HeaderDraft \cup {"bulky", "altered"}, "link", {})

AccessChecks == {"damaged", "incomplete", "altered"}
Protect == "protect_pdf" :> Renamed({"outsized", "malformed", "encrypted", "guarded"}, AccessChecks, {})
Unlock  == "unlock_pdf"  :> Renamed({"outsized", "malformed"}, AccessChecks, {})

InfoSource == {"outsized", "malformed", "encrypted"}
EditInfo   == "edit_document_info" :> Renamed(InfoSource \cup {"uncarried"}, {"damaged"}, {})
RemoveInfo == "remove_document_info_and_xmp" :> Renamed(InfoSource, {"damaged"}, {"altered"})
SearchText == "extract_searchable_text" :> Renamed(InfoSource \cup {"uncarried"}, {"bulky"}, {})
CropSource == {"outsized", "malformed", "encrypted", "geometry"}
Geometry   == [c \in {"crop_pdf", "resize_pdf"} |-> Renamed(CropSource, {"damaged", "incomplete"}, {})]

(***************************************************************************)
(* Other formats to PDF.  Gotenberg makes the PDF in one answer, _checked_pdf *)
(* looks at it and writes it over the output's name.                        *)
(***************************************************************************)
Visible == {"damaged", "bulky", "blank"}   (* _checked_pdf, _has_visible_pdf_content *)
Html(refuses) == Over(refuses, Visible, {})

Utf8Text == {"outsized", "malformed"}      (* _read_utf8 *)
TextToPdf     == "text_to_pdf"     :> Html(Utf8Text \cup {"uncarried"})
CsvToPdf      == "csv_to_pdf"      :> Html(Utf8Text \cup {"uncarried"})
MarkdownToPdf == "markdown_to_pdf" :> Html(Utf8Text \cup {"uncarried", "active"})
HtmlToPdf     == "html_to_pdf"     :> Html(Utf8Text \cup {"uncarried"})
XmlToPdf      == "xml_to_pdf"      :> Html(Utf8Text \cup {"active"})
EmlToPdf      == "eml_to_pdf"      :> Html(Utf8Text \cup {"uncarried"})

SvgMarkup == {"outsized", "malformed", "uncarried", "geometry", "active"}
SvgAttribute == {"malformed", "geometry", "active"}
SvgToPdf == "svg_to_pdf" :> Html(SvgMarkup \cup SvgAttribute)
BookImage == {"outsized", "malformed", "geometry", "uncarried"}
BookParagraphs == {"outsized", "malformed", "uncarried"}
EpubMarkup == {"outsized", "malformed", "encrypted", "active", "uncarried"}
Fb2Markup  == {"outsized", "malformed", "active", "uncarried"}
EpubToPdf == "epub_to_pdf" :> Html(EpubMarkup \cup BookImage \cup BookParagraphs)
Fb2ToPdf  == "fb2_to_pdf"  :> Html(Fb2Markup \cup BookImage \cup BookParagraphs)
MobiPlain  == {"outsized", "active", "uncarried"}
MobiMarkup == {"outsized", "malformed", "encrypted", "uncarried"}
MobiToPdf  == "restricted_mobi_to_pdf" :> Html(MobiMarkup \cup MobiPlain)
XpsPackage == {"outsized", "malformed", "active", "uncarried"}
XpsToPdf == "restricted_xps_to_pdf" :> Html(XpsPackage)
UrlAnswer == {"outsized", "malformed", "active"}
UrlToPdf == "url_to_pdf" :> Html(UrlAnswer)

AiSource == {"outsized", "malformed", "encrypted", "active", "geometry"}
AiToPdf == "pdf_compatible_ai_to_pdf" :> Html(AiSource)
DjvuChunks == {"outsized", "malformed", "active", "geometry"}
DjvuToPdf == "restricted_djvu_to_pdf" :> Over(DjvuChunks, Visible, {})
DxfEntities == {"outsized", "malformed", "geometry", "uncarried"}
DxfToPdf == "restricted_dxf_to_pdf" :> Over(DxfEntities, {"damaged", "incomplete"}, {})

(* The images become a PDF under the output's own name and are looked at there. *)
ArchiveImages == {"outsized", "malformed", "active", "geometry", "uncarried"}
ImageFrames   == {"outsized", "malformed", "geometry"}
ArchiveToPdf == "archive_images_to_pdf" :> Over(ArchiveImages, {}, Whole)
FramesToPdf  == "image_frames_to_pdf"   :> Over(ImageFrames, {}, Whole)
Rar4Images   == {"outsized", "malformed", "encrypted", "active", "uncarried"}
CbrToPdf     == "rar4_stored_cbr_to_pdf" :> Over(Rar4Images \cup ArchiveImages, {}, Whole)

(* What the upload check of each Office format refuses, and runs again on. *)
OfficeMembers == {"outsized", "malformed", "active"}
Publisher     == {"outsized", "malformed"}
PagesPackage  == {"outsized", "malformed", "uncarried"} \cup OfficeMembers
Hwp3          == {"outsized", "malformed", "encrypted"}
SlidePages    == {"malformed", "outsized"} \cup OfficeMembers
OfficeEngine(extra) == Over({"outsized"} \cup extra, Visible, {})
OfficeToPdf == AsOne({
    "office_document" :> OfficeEngine({}), "office_slides" :> Over(SlidePages, Visible \cup {"incomplete"}, {}),
    "office_pub" :> OfficeEngine(Publisher), "office_pages" :> OfficeEngine(PagesPackage),
    "office_hwp" :> OfficeEngine(Hwp3)})

(***************************************************************************)
(* The native decoders run in the sidecar, each with two directories of its *)
(* own there; the worker sees one answer and looks at it itself.            *)
(***************************************************************************)
OutputGuard == {"foreign", "outsized"}     (* copy_native_regular_output, of the decoder's file *)
HeifContainer == {"outsized", "malformed"}
HeifDecoder == HeifContainer \cup {"geometry"} \cup OutputGuard
DwgDecoder  == {"outsized", "malformed", "uncarried"} \cup OutputGuard \cup DxfEntities
WorksOdt    == {"outsized", "malformed", "uncarried"}
WpsDecoder  == WorksOdt \cup OutputGuard \cup OfficeMembers
ChmDecoder  == {"outsized", "malformed", "uncarried", "active"}
Remotely(decoder, verifies) == Over({"foreign", "outsized"} \cup decoder, Visible \cup verifies, {})
NativeEngines == AsOne({
    "heif_to_pdf" :> Remotely(HeifDecoder, {"incomplete"}), "dwg_to_pdf" :> Remotely(DwgDecoder, {"incomplete"}),
    "wps_to_pdf" :> Remotely(WpsDecoder, {}), "chm_to_pdf" :> Remotely(ChmDecoder, {})})

Legacy == AsOne({PageTools, ImagesToPdf, PdfToImages, StampTools})

EngineTable == AsOne({Legacy,
    Tiff, Gif, Bmp, Svg, Raster, Csv, Rtf, Odt, Docx, Epub, Pptx, Xlsx, Accessible,
    SplitZip, ExtractPages, SelectPages, TextOverlay, AcroForm, EmbeddedImages, Grayscale,
    HeaderFooter, Protect, Unlock, EditInfo, RemoveInfo, SearchText, Geometry,
    TextToPdf, CsvToPdf, MarkdownToPdf, HtmlToPdf, XmlToPdf, EmlToPdf, SvgToPdf, EpubToPdf,
    Fb2ToPdf, MobiToPdf, XpsToPdf, UrlToPdf, AiToPdf, DjvuToPdf, DxfToPdf, ArchiveToPdf,
    FramesToPdf, CbrToPdf, OfficeToPdf, NativeEngines})

(* The tools whose parts become artifacts of their own, and what the reading
   of the finished bundle refuses. *)
RasterParts == {"damaged", "incomplete", "bulky"}
SplitParts  == {"damaged", "incomplete", "bulky"}
ImageParts  == {"damaged", "incomplete", "bulky"}
PartsOf == AsOne({"pdf_to_images" :> RasterParts, "make_split_pdf_zip" :> SplitParts,
                  "extract_embedded_images_zip" :> ImageParts})
=============================================================================
